----------------------------- MODULE Rax_proofs -----------------------------
(***************************************************************************)
(* The radix tree, for every tree that insertions can make and every word: *)
(* how its nodes are linked, what a walk finds, and what an insertion      *)
(* does.                                                                   *)
(*                                                                         *)
(* A tree is described by the edges of its nodes (Form), by what makes a   *)
(* node necessary (Tight), and by its counters (Sound). The walk is a      *)
(* loop; what it passes is shown by induction over its turns. An insertion *)
(* is a walk, a cut or a split of the edge in which it stopped, and an     *)
(* extension; each has its lemmas, and InsertIs puts them together.        *)
(***************************************************************************)
EXTENDS Rax, FiniteSetTheorems, SequenceTheorems, WellFoundedInduction, TLAPS

(***************************************************************************)
(* 1. Words, natural numbers, and loops.                                   *)
(***************************************************************************)

(* Words, and what begins what: the second is IsPrefix by its characters.  *)
(* Join is \o under a name of its own, so that the provers take it as a    *)
(* whole.                                                                  *)
W == Seq(Nat)
Join(p, q) == p \o q
Begins(p, q) == Len(p) <= Len(q) /\ \A i \in 1..Len(p) : p[i] = q[i]

(* A word is a sequence of characters.                                     *)
LEMMA WordType ==
  ASSUME NEW s \in W
  PROVE  Len(s) \in Nat /\ DOMAIN s = 1..Len(s) /\ (\A i \in 1..Len(s) : s[i] \in Nat) /\ (s = <<>> <=> Len(s) = 0)
BY DEF W

(* Words with the same characters are the same.                            *)
LEMMA SameWord ==
  ASSUME NEW s \in W, NEW t \in W, Len(s) = Len(t), \A i \in 1..Len(s) : s[i] = t[i]
  PROVE  s = t
BY SeqEqual DEF W

(* The word up to a position, and the word from it on.                     *)
LEMMA UptoType ==
  ASSUME NEW s \in W, NEW i \in 0..Len(s)
  PROVE  /\ Upto(s, i) \in W /\ Len(Upto(s, i)) = i
         /\ \A k \in 1..i : Upto(s, i)[k] = s[k]
BY SubSeqProperties DEF W, Upto

LEMMA RestType ==
  ASSUME NEW s \in W, NEW i \in 0..Len(s)
  PROVE  /\ Rest(s, i) \in W /\ Len(Rest(s, i)) = Len(s) - i
         /\ \A k \in 1..(Len(s) - i) : Rest(s, i)[k] = s[i + k]
BY SubSeqProperties DEF W, Rest

(* Two words, one after the other.                                         *)
LEMMA JoinType ==
  ASSUME NEW s \in W, NEW t \in W
  PROVE  /\ Join(s, t) \in W /\ Len(Join(s, t)) = Len(s) + Len(t)
         /\ \A i \in 1..Len(s) : Join(s, t)[i] = s[i]
         /\ \A i \in 1..Len(t) : Join(s, t)[Len(s) + i] = t[i]
BY ConcatProperties DEF W, Join

(* The prefixes of the model in these terms.                               *)
LEMMA PrefixIs ==
  ASSUME NEW p \in W, NEW q \in W
  PROVE  /\ IsPrefix(p, q) <=> Begins(p, q)
         /\ IsStrictPrefix(p, q) <=> Begins(p, q) /\ Len(p) < Len(q)
BY SubSeqProperties, SeqEqual DEF W, IsPrefix, IsStrictPrefix, Begins

(* A word that begins another is that word up to some position.            *)
LEMMA UptoBegins ==
  ASSUME NEW p \in W, NEW s \in W
  PROVE  Begins(p, s) <=> Len(p) <= Len(s) /\ p = Upto(s, Len(p))
BY SubSeqProperties, SeqEqual DEF W, Upto, Begins

(* Words are ordered by what begins what, and those that begin one word in *)
(* a line.                                                                 *)
LEMMA BeginsOrder ==
  ASSUME NEW p \in W, NEW q \in W, NEW s \in W
  PROVE  /\ Begins(p, p)
         /\ Begins(p, q) /\ Begins(q, s) => Begins(p, s)
         /\ Begins(p, s) /\ Begins(q, s) /\ Len(p) <= Len(q) => Begins(p, q)
         /\ Begins(p, q) /\ Len(q) <= Len(p) => p = q
         /\ Begins(p, q) => Len(p) <= Len(q)
<1>1. Begins(p, q) /\ Len(q) <= Len(p) => p = q
  BY WordType, SameWord DEF Begins
<1>2. Begins(p, q) /\ Begins(q, s) => Begins(p, s)
  BY WordType DEF Begins
<1> QED BY <1>1, <1>2, WordType DEF Begins

(* What begins with p and then e.                                          *)
LEMMA JoinBegins ==
  ASSUME NEW p \in W, NEW e \in W, NEW q \in W
  PROVE  /\ Begins(p, Join(p, e))
         /\ Begins(Join(p, e), q) <=>
              /\ Begins(p, q) /\ Len(p) + Len(e) <= Len(q)
              /\ \A i \in 1..Len(e) : q[Len(p) + i] = e[i]
<1>1. Begins(p, Join(p, e))
  <2>1. /\ Len(p) \in Nat /\ Len(e) \in Nat /\ Len(Join(p, e)) = Len(p) + Len(e)
        /\ \A i \in 1..Len(p) : Join(p, e)[i] = p[i]
    BY WordType, JoinType
  <2> QED BY <2>1 DEF Begins
<1>2. ASSUME Begins(p, q), Len(p) + Len(e) <= Len(q), \A i \in 1..Len(e) : q[Len(p) + i] = e[i]
      PROVE  Begins(Join(p, e), q)
  <2>1. SUFFICES ASSUME NEW i \in 1..(Len(p) + Len(e)) PROVE Join(p, e)[i] = q[i]
    BY <1>2, JoinType DEF Begins
  <2>2. CASE i <= Len(p)
    BY <1>2, <2>2, WordType, JoinType DEF Begins
  <2>3. CASE i > Len(p)
    <3>1. PICK k \in 1..Len(e) : i = Len(p) + k
      <4>1. i - Len(p) \in 1..Len(e) /\ i = Len(p) + (i - Len(p))
        BY <2>3, WordType
      <4> QED BY <4>1
    <3> QED BY <1>2, <3>1, JoinType
  <2> QED BY <2>2, <2>3, WordType
<1>3. ASSUME Begins(Join(p, e), q)
      PROVE  Begins(p, q) /\ Len(p) + Len(e) <= Len(q) /\ \A i \in 1..Len(e) : q[Len(p) + i] = e[i]
  <2>1. /\ Len(p) \in Nat /\ Len(e) \in Nat /\ Len(q) \in Nat
        /\ Len(p) + Len(e) <= Len(q)
        /\ \A i \in 1..(Len(p) + Len(e)) : Join(p, e)[i] = q[i]
    BY <1>3, WordType, JoinType DEF Begins
  <2>2. ASSUME NEW i \in 1..Len(p) PROVE p[i] = q[i]
    <3>1. i \in 1..(Len(p) + Len(e))
      BY <2>1
    <3> QED BY <2>1, <3>1, JoinType
  <2>3. ASSUME NEW i \in 1..Len(e) PROVE q[Len(p) + i] = e[i]
    <3>1. Len(p) + i \in 1..(Len(p) + Len(e))
      BY <2>1
    <3> QED BY <2>1, <3>1, JoinType
  <2> QED BY <2>1, <2>2, <2>3 DEF Begins
<1> QED BY <1>1, <1>2, <1>3
-----------------------------------------------------------------------------

(* Induction over the natural numbers, from their being well-founded: it   *)
(* is what the loops below are reasoned about with.                        *)
LEMMA LeastNatural ==
  ASSUME NEW S, S \subseteq Nat, S # {}
  PROVE  \E n \in S : \A m \in S : n <= m
<1>1. PICK R : /\ IsWellFoundedOn(R, Nat)
               /\ \A m, n \in Nat : m < n => <<m, n>> \in R
  BY NatLessThanWellFounded DEF OpToRel
<1>2. \E n \in S : \A m \in S : ~ (<<m, n>> \in R)
  <2>1. IsWellFoundedOn(R, Nat)
    BY <1>1
  <2> QED BY <2>1, WFMin
<1>3. PICK n \in S : \A m \in S : ~ (<<m, n>> \in R)
  BY <1>2
<1>4. \A m \in S : n \in Nat /\ m \in Nat /\ ~ (m < n)
  BY <1>1, <1>3
<1>5. \A m \in S : n <= m
  BY <1>4
<1> QED BY <1>5

LEMMA NaturalInduction ==
  ASSUME NEW S, 0 \in S, \A n \in Nat : n \in S => n + 1 \in S
  PROVE  Nat \subseteq S
<1> DEFINE T == {n \in Nat : n \notin S}
<1>1. SUFFICES T = {}
  OBVIOUS
<1>2. SUFFICES ASSUME T # {} PROVE FALSE
  OBVIOUS
<1>3. PICK n \in T : \A m \in T : n <= m
  <2> HIDE DEF T
  <2>1. T \subseteq Nat
    BY DEF T
  <2> QED BY <1>2, <2>1, LeastNatural
<1>4. n # 0 /\ n \in Nat /\ n \notin S
  BY <1>3
<1>5. n - 1 \in Nat /\ n - 1 \notin T
  BY <1>3, <1>4
<1>6. n - 1 \in S
  BY <1>5
<1> QED BY <1>4, <1>5, <1>6

(* The function that a loop computes, turn by turn: it exists, by          *)
(* induction over the number of turns, and so its equations hold.          *)
IsIteration(g, F, x) == g = [k \in Nat |-> IF k = 0 THEN x ELSE F[g[k - 1]]]

LEMMA IterateExists ==
  ASSUME NEW F, NEW x
  PROVE  \E g : IsIteration(g, F, x)
<1> DEFINE Turns(n, f) == f = [k \in 0..n |-> IF k = 0 THEN x ELSE F[f[k - 1]]]
           S == {n \in Nat : \E f : Turns(n, f)}
           U(n) == CHOOSE f : Turns(n, f)
           g == [n \in Nat |-> U(n)[n]]
<1>1. 0 \in S
  <2>1. Turns(0, [k \in 0..0 |-> x])
    OBVIOUS
  <2> QED BY <2>1
<1>2. ASSUME NEW n \in Nat, n \in S PROVE n + 1 \in S
  <2>1. PICK f : Turns(n, f)
    BY <1>2
  <2> DEFINE h == [k \in 0..(n + 1) |-> IF k = n + 1 THEN F[f[n]] ELSE f[k]]
  <2>2. Turns(n + 1, h)
    BY <2>1
  <2> HIDE DEF Turns, h
  <2> QED BY <2>2
<1>3. \A n \in Nat : \E f : Turns(n, f)
  <2> HIDE DEF Turns
  <2>1. Nat \subseteq S
    <3> HIDE DEF S
    <3> QED BY <1>1, <1>2, NaturalInduction
  <2> QED BY <2>1
<1>4. \A n \in Nat : Turns(n, U(n))
  <2> HIDE DEF Turns
  <2> QED BY <1>3
<1> DEFINE Same == {k \in Nat : \A m, n \in Nat : k <= m /\ k <= n => U(m)[k] = U(n)[k]}
<1> HIDE DEF U
<1>5. 0 \in Same
  BY <1>4
<1>6. ASSUME NEW k \in Nat, k \in Same PROVE k + 1 \in Same
  <2>1. SUFFICES ASSUME NEW m \in Nat, NEW n \in Nat, k + 1 <= m, k + 1 <= n
                 PROVE  U(m)[k + 1] = U(n)[k + 1]
    OBVIOUS
  <2>2. U(m)[k + 1] = F[U(m)[k]] /\ U(n)[k + 1] = F[U(n)[k]]
    BY <1>4, <2>1
  <2>3. U(m)[k] = U(n)[k]
    BY <1>6, <2>1
  <2> QED BY <2>2, <2>3
<1>7. Nat \subseteq Same
  <2> HIDE DEF Same
  <2> QED BY <1>5, <1>6, NaturalInduction
<1>8. \A k \in Nat : g[k] = (IF k = 0 THEN x ELSE F[g[k - 1]])
  <2>1. TAKE k \in Nat
  <2>2. CASE k = 0
    BY <1>4, <2>2
  <2>3. CASE k # 0
    <3>1. k - 1 \in Nat /\ k - 1 \in Same
      BY <1>7, <2>3
    <3>2. U(k)[k] = F[U(k)[k - 1]]
      BY <1>4, <2>3
    <3>3. U(k)[k - 1] = U(k - 1)[k - 1]
      BY <3>1
    <3> QED BY <2>3, <3>1, <3>2, <3>3
  <2> QED BY <2>2, <2>3
<1>9. g = [k \in Nat |-> IF k = 0 THEN x ELSE F[g[k - 1]]]
  <2>1. [k \in Nat |-> g[k]] = [k \in Nat |-> IF k = 0 THEN x ELSE F[g[k - 1]]]
    BY <1>8
  <2> QED BY <2>1
<1> HIDE DEF g
<1>10. IsIteration(g, F, x)
  BY <1>9 DEF IsIteration
<1> QED BY <1>10

LEMMA IterateDef ==
  ASSUME NEW F, NEW x
  PROVE  /\ Iterate(F, x)[0] = x
         /\ \A k \in Nat : Iterate(F, x)[k + 1] = F[Iterate(F, x)[k]]
<1>1. \E g : IsIteration(g, F, x)
  BY IterateExists
<1>2. Iterate(F, x) = CHOOSE g : IsIteration(g, F, x)
  BY DEF Iterate, IsIteration
<1>3. IsIteration(Iterate(F, x), F, x)
  BY <1>1, <1>2
<1> DEFINE at == Iterate(F, x)
<1>4. at = [k \in Nat |-> IF k = 0 THEN x ELSE F[at[k - 1]]]
  BY <1>3 DEF IsIteration
<1> HIDE DEF at
<1>5. at[0] = x /\ \A k \in Nat : at[k + 1] = F[at[k]]
  BY <1>4
<1> QED BY <1>5 DEF at
-----------------------------------------------------------------------------

(* A word cut in two.                                                      *)
LEMMA CutWord ==
  ASSUME NEW p \in W, NEW c \in W, NEW j \in 0..Len(c)
  PROVE  Join(Join(p, Upto(c, j)), Rest(c, j)) = Join(p, c)
<1>1. PICK b : b = Upto(c, j)
  OBVIOUS
<1>2. PICK r : r = Rest(c, j)
  OBVIOUS
<1>3. Len(p) \in Nat /\ Len(c) \in Nat /\ j \in 0..Len(c)
  BY WordType
<1>4. /\ b \in W /\ Len(b) = j /\ \A k \in 1..j : b[k] = c[k]
      /\ r \in W /\ Len(r) = Len(c) - j /\ \A k \in 1..(Len(c) - j) : r[k] = c[j + k]
  BY <1>1, <1>2, UptoType, RestType
<1>5. PICK q : q = Join(p, b)
  OBVIOUS
<1>6. /\ q \in W /\ Len(q) = Len(p) + j
      /\ \A i \in 1..Len(p) : q[i] = p[i]
      /\ \A i \in 1..j : q[Len(p) + i] = b[i]
  BY <1>4, <1>5, JoinType, ZenonT(40)
<1>7. PICK x : x = Join(q, r)
  OBVIOUS
<1>8. /\ x \in W /\ Len(x) = Len(p) + Len(c)
      /\ \A i \in 1..(Len(p) + j) : x[i] = q[i]
      /\ \A i \in 1..(Len(c) - j) : x[Len(p) + j + i] = r[i]
  <2>1. /\ x \in W /\ Len(x) = Len(q) + Len(r)
        /\ \A i \in 1..Len(q) : x[i] = q[i]
        /\ \A i \in 1..Len(r) : x[Len(q) + i] = r[i]
    <3>1. q \in W /\ r \in W
      BY <1>4, <1>6
    <3> QED BY <1>7, <3>1, JoinType, ZenonT(40)
  <2> QED BY <1>3, <1>4, <1>6, <2>1
<1>9. PICK y : y = Join(p, c)
  OBVIOUS
<1>10. /\ y \in W /\ Len(y) = Len(p) + Len(c)
       /\ \A i \in 1..Len(p) : y[i] = p[i]
       /\ \A i \in 1..Len(c) : y[Len(p) + i] = c[i]
  BY <1>9, JoinType
<1>11. ASSUME NEW i \in 1..(Len(p) + Len(c)) PROVE x[i] = y[i]
  <2>1. CASE i <= Len(p)
    <3>1. i \in 1..Len(p) /\ i \in 1..(Len(p) + j)
      BY <1>3, <2>1
    <3> QED BY <1>6, <1>8, <1>10, <3>1
  <2>2. CASE i > Len(p) /\ i <= Len(p) + j
    <3>1. PICK k \in 1..j : i = Len(p) + k
      <4>1. i - Len(p) \in 1..j /\ i = Len(p) + (i - Len(p))
        BY <1>3, <2>2
      <4> QED BY <4>1
    <3>2. i \in 1..(Len(p) + j) /\ k \in 1..Len(c)
      BY <1>3, <2>2
    <3> QED BY <1>4, <1>6, <1>8, <1>10, <3>1, <3>2
  <2>3. CASE i > Len(p) + j
    <3>1. PICK k \in 1..(Len(c) - j) : i = Len(p) + j + k
      <4>1. i - Len(p) - j \in 1..(Len(c) - j) /\ i = Len(p) + j + (i - Len(p) - j)
        BY <1>3, <2>3
      <4> QED BY <4>1
    <3>2. j + k \in 1..Len(c) /\ i = Len(p) + (j + k)
      BY <1>3, <3>1
    <3>3. x[i] = r[k] /\ y[i] = c[j + k]
      BY <1>8, <1>10, <3>1, <3>2
    <3> QED BY <1>4, <3>3
  <2>4. i \in Nat
    BY <1>3
  <2> QED BY <1>3, <2>1, <2>2, <2>3, <2>4
<1>12. x = y
  BY <1>8, <1>10, <1>11, SameWord
<1> QED BY <1>1, <1>2, <1>5, <1>7, <1>9, <1>12

(* The least and the greatest of a set of natural numbers.                 *)
LEMMA MinIs ==
  ASSUME NEW S, S \subseteq Nat, S # {}
  PROVE  Min(S) \in S /\ \A n \in S : Min(S) <= n
BY LeastNatural DEF Min

LEMMA MaxIs ==
  ASSUME NEW S, S \subseteq Nat, S # {}, NEW b \in Nat, \A n \in S : n <= b
  PROVE  Max(S) \in S /\ \A n \in S : n <= Max(S)
<1> DEFINE T == {m \in Nat : \A n \in S : n <= m}
<1>1. PICK m \in T : \A k \in T : m <= k
  <2>1. b \in T
    OBVIOUS
  <2>2. T \subseteq Nat /\ T # {}
    BY <2>1
  <2> HIDE DEF T
  <2> QED BY <2>2, LeastNatural
<1>2. m \in Nat /\ \A n \in S : n <= m
  BY <1>1
<1>3. m \in S
  <2>1. SUFFICES ASSUME m \notin S PROVE FALSE
    OBVIOUS
  <2>2. \A n \in S : n \in Nat /\ n # m /\ n <= m
    BY <1>2, <2>1
  <2>3. \A n \in S : n <= m - 1
    BY <1>2, <2>2
  <2>4. m - 1 \in Nat
    <3>1. PICK n : n \in S
      OBVIOUS
    <3> QED BY <1>2, <2>2, <3>1
  <2>5. m - 1 \in T
    BY <2>3, <2>4
  <2> QED BY <1>1, <1>2, <2>5
<1>4. \E k \in S : \A n \in S : k >= n
  <2>1. \A n \in S : m >= n
    BY <1>2
  <2> QED BY <1>3, <2>1
<1>5. Max(S) \in S /\ \A n \in S : Max(S) >= n
  BY <1>4 DEF Max
<1>6. \A n \in S : n \in Nat /\ Max(S) \in Nat
  BY <1>5
<1> QED BY <1>5, <1>6

(* A word and what is left of another that it begins.                      *)
LEMMA JoinRest ==
  ASSUME NEW p \in W, NEW q \in W, Begins(p, q)
  PROVE  Join(p, Rest(q, Len(p))) = q
<1>1. Len(p) \in 0..Len(q) /\ Len(p) \in Nat /\ Len(q) \in Nat
  BY WordType DEF Begins
<1>2. PICK r : r = Rest(q, Len(p))
  OBVIOUS
<1>3. r \in W /\ Len(r) = Len(q) - Len(p) /\ \A k \in 1..(Len(q) - Len(p)) : r[k] = q[Len(p) + k]
  BY <1>1, <1>2, RestType
<1>4. PICK x : x = Join(p, r)
  OBVIOUS
<1>5. x \in W /\ Len(x) = Len(p) + Len(r) /\ (\A i \in 1..Len(p) : x[i] = p[i])
        /\ \A i \in 1..Len(r) : x[Len(p) + i] = r[i]
  BY <1>3, <1>4, JoinType
<1>6. Len(x) = Len(q)
  BY <1>1, <1>3, <1>5
<1>7. ASSUME NEW i \in 1..Len(q) PROVE x[i] = q[i]
  <2>1. CASE i <= Len(p)
    <3>1. i \in 1..Len(p)
      BY <1>1, <2>1
    <3> QED BY <1>5, <3>1 DEF Begins
  <2>2. CASE i > Len(p)
    <3>1. PICK k \in 1..Len(r) : i = Len(p) + k
      <4>1. i - Len(p) \in 1..Len(r) /\ i = Len(p) + (i - Len(p))
        BY <1>1, <1>3, <2>2
      <4> QED BY <4>1
    <3>2. k \in 1..(Len(q) - Len(p))
      BY <1>3
    <3> QED BY <1>3, <1>5, <3>1, <3>2
  <2>3. i \in Nat
    BY <1>1
  <2> QED BY <1>1, <2>1, <2>2, <2>3
<1> QED BY <1>2, <1>4, <1>5, <1>6, <1>7, SameWord

(* Cutting a word twice.                                                   *)
LEMMA UptoAndRest ==
  ASSUME NEW s \in W, NEW j \in 0..Len(s), NEW k \in 0..(Len(s) - j)
  PROVE  /\ Join(Upto(s, j), Upto(Rest(s, j), k)) = Upto(s, j + k)
         /\ Rest(Rest(s, j), k) = Rest(s, j + k)
<1>1. PICK b : b = Upto(s, j)
  OBVIOUS
<1>2. PICK r : r = Rest(s, j)
  OBVIOUS
<1>3. Len(s) \in Nat /\ j \in Nat /\ k \in Nat /\ j + k \in 0..Len(s) /\ j \in 0..Len(s) /\ k \in 0..(Len(s) - j)
  BY WordType
<1>4. /\ b \in W /\ Len(b) = j /\ \A i \in 1..j : b[i] = s[i]
      /\ r \in W /\ Len(r) = Len(s) - j /\ \A i \in 1..(Len(s) - j) : r[i] = s[j + i]
  BY <1>1, <1>2, UptoType, RestType
<1>5. k \in 0..Len(r)
  BY <1>3, <1>4
<1>6. PICK c : c = Upto(r, k)
  OBVIOUS
<1>7. PICK t : t = Rest(r, k)
  OBVIOUS
<1>8. r \in W
  BY <1>4
<1>9. /\ c \in W /\ Len(c) = k /\ \A i \in 1..k : c[i] = r[i]
      /\ t \in W /\ Len(t) = Len(r) - k /\ \A i \in 1..(Len(r) - k) : t[i] = r[k + i]
  BY <1>5, <1>6, <1>7, <1>8, UptoType, RestType
<1>10. PICK u : u = Upto(s, j + k)
  OBVIOUS
<1>11. PICK v : v = Rest(s, j + k)
  OBVIOUS
<1>12. PICK m : m = j + k
  OBVIOUS
<1>13. m \in 0..Len(s)
  BY <1>3, <1>12
<1>14. /\ u \in W /\ Len(u) = m /\ \A i \in 1..m : u[i] = s[i]
       /\ v \in W /\ Len(v) = Len(s) - m /\ \A i \in 1..(Len(s) - m) : v[i] = s[m + i]
  BY <1>10, <1>11, <1>12, <1>13, UptoType, RestType
<1>15. PICK x : x = Join(b, c)
  OBVIOUS
<1>16. x \in W /\ Len(x) = Len(b) + Len(c) /\ (\A i \in 1..Len(b) : x[i] = b[i])
         /\ \A i \in 1..Len(c) : x[Len(b) + i] = c[i]
  <2>1. b \in W /\ c \in W
    BY <1>4, <1>9
  <2> QED BY <1>15, <2>1, JoinType
<1>17. x = u
  <2>1. Len(x) = Len(u)
    BY <1>4, <1>9, <1>12, <1>14, <1>16
  <2>2. ASSUME NEW i \in 1..Len(x) PROVE x[i] = u[i]
    <3>1. i \in Nat /\ i \in 1..m
      BY <1>3, <1>12, <1>14, <2>1
    <3>2. CASE i <= j
      <4>1. i \in 1..j /\ i \in 1..Len(b)
        BY <1>4, <3>1, <3>2
      <4> QED BY <1>4, <1>14, <1>16, <3>1, <4>1
    <3>3. CASE i > j
      <4>1. PICK l \in 1..k : i = j + l
        <5>1. i - j \in 1..k /\ i = j + (i - j)
          BY <1>3, <1>12, <3>1, <3>3
        <5> QED BY <5>1
      <4>2. l \in 1..Len(c) /\ l \in 1..(Len(s) - j)
        BY <1>3, <1>9
      <4>3. x[i] = c[l]
        BY <1>4, <1>16, <4>1, <4>2
      <4>4. c[l] = s[i]
        BY <1>4, <1>9, <4>1, <4>2
      <4> QED BY <1>14, <3>1, <4>3, <4>4
    <3> QED BY <1>3, <3>1, <3>2, <3>3
  <2> QED BY <1>14, <1>16, <2>1, <2>2, SameWord
<1>18. t = v
  <2>1. Len(t) = Len(v)
    BY <1>3, <1>4, <1>9, <1>12, <1>14
  <2>2. ASSUME NEW i \in 1..Len(t) PROVE t[i] = v[i]
    <3>1. i \in 1..(Len(r) - k) /\ k + i \in 1..(Len(s) - j) /\ i \in 1..(Len(s) - m) /\ m + i = j + (k + i)
      BY <1>3, <1>4, <1>9, <1>12
    <3>2. t[i] = r[k + i] /\ r[k + i] = s[j + (k + i)] /\ v[i] = s[m + i]
      BY <1>4, <1>9, <1>14, <3>1
    <3> QED BY <3>1, <3>2
  <2> QED BY <1>9, <1>14, <2>1, <2>2, SameWord
<1> QED BY <1>1, <1>2, <1>6, <1>7, <1>10, <1>11, <1>15, <1>17, <1>18

(* Joining three words.                                                    *)
LEMMA JoinJoin ==
  ASSUME NEW p \in W, NEW q \in W, NEW r \in W
  PROVE  Join(Join(p, q), r) = Join(p, Join(q, r))
<1>1. PICK a : a = Join(p, q)
  OBVIOUS
<1>2. PICK b : b = Join(q, r)
  OBVIOUS
<1>3. PICK x : x = Join(a, r)
  OBVIOUS
<1>4. PICK y : y = Join(p, b)
  OBVIOUS
<1>5. /\ a \in W /\ Len(a) = Len(p) + Len(q)
      /\ (\A i \in 1..Len(p) : a[i] = p[i]) /\ \A i \in 1..Len(q) : a[Len(p) + i] = q[i]
  BY <1>1, JoinType
<1>6. /\ b \in W /\ Len(b) = Len(q) + Len(r)
      /\ (\A i \in 1..Len(q) : b[i] = q[i]) /\ \A i \in 1..Len(r) : b[Len(q) + i] = r[i]
  BY <1>2, JoinType
<1>7. /\ x \in W /\ Len(x) = Len(a) + Len(r)
      /\ (\A i \in 1..Len(a) : x[i] = a[i]) /\ \A i \in 1..Len(r) : x[Len(a) + i] = r[i]
  BY <1>3, <1>5, JoinType, ZenonT(40)
<1>8. /\ y \in W /\ Len(y) = Len(p) + Len(b)
      /\ (\A i \in 1..Len(p) : y[i] = p[i]) /\ \A i \in 1..Len(b) : y[Len(p) + i] = b[i]
  BY <1>4, <1>6, JoinType, ZenonT(40)
<1>9. /\ Len(p) \in Nat /\ Len(q) \in Nat /\ Len(r) \in Nat
      /\ Len(x) = Len(p) + Len(q) + Len(r) /\ Len(y) = Len(x)
  BY <1>5, <1>6, <1>7, <1>8, WordType
<1>10. ASSUME NEW i \in 1..Len(x) PROVE x[i] = y[i]
  <2>1. CASE i <= Len(p)
    BY <1>5, <1>7, <1>8, <1>9, <2>1
  <2>2. CASE i > Len(p) /\ i <= Len(p) + Len(q)
    <3>1. PICK k \in 1..Len(q) : i = Len(p) + k
      <4>1. i - Len(p) \in 1..Len(q) /\ i = Len(p) + (i - Len(p))
        BY <1>9, <2>2
      <4> QED BY <4>1
    <3>2. x[i] = q[k]
      BY <1>5, <1>7, <1>9, <3>1
    <3>3. y[i] = q[k]
      BY <1>6, <1>8, <1>9, <3>1
    <3> QED BY <3>2, <3>3
  <2>3. CASE i > Len(p) + Len(q)
    <3>1. PICK k \in 1..Len(r) : i = Len(p) + Len(q) + k
      <4>1. i - (Len(p) + Len(q)) \in 1..Len(r) /\ i = Len(p) + Len(q) + (i - (Len(p) + Len(q)))
        BY <1>9, <2>3
      <4> QED BY <4>1
    <3>2. x[i] = r[k]
      BY <1>5, <1>7, <1>9, <3>1
    <3>3. Len(q) + k \in 1..Len(b) /\ i = Len(p) + (Len(q) + k)
      BY <1>6, <1>9, <3>1
    <3>4. y[i] = r[k]
      BY <1>6, <1>8, <3>1, <3>3
    <3> QED BY <3>2, <3>4
  <2> QED BY <1>9, <2>1, <2>2, <2>3
<1>11. x = y
  BY <1>7, <1>8, <1>9, <1>10, SameWord
<1> QED BY <1>1, <1>2, <1>3, <1>4, <1>11

-----------------------------------------------------------------------------
(***************************************************************************)
(* 2. The form of a tree, and one node more in it.                         *)
(***************************************************************************)

(* The form of a tree, in terms of the edges of a node and not of their    *)
(* positions. An edge is a word of a character or more; Linked says that   *)
(* the edges lead to nodes, and that every node below p is under one of    *)
(* them.                                                                   *)
IsFcn(f) == f = [x \in DOMAIN f |-> f[x]]
IsNode(n) == n \in [iskey : BOOLEAN, data : Int, iscompr : BOOLEAN, chars : W]
Ordered(n) ==
  IF n.iscompr THEN Len(n.chars) > 1
  ELSE \A k, l \in DOMAIN n.chars : k < l => n.chars[k] < n.chars[l]
Edges(n) == {Edge(n, k) : k \in 1..Degree(n)}

Below(p, q) == Begins(p, q) /\ Len(p) < Len(q)

Linked(nodes, p) ==
  /\ Ordered(nodes[p])
  /\ \A e \in Edges(nodes[p]) : Join(p, e) \in DOMAIN nodes
  /\ \A q \in DOMAIN nodes : Below(p, q) => \E e \in Edges(nodes[p]) : Begins(Join(p, e), q)

(* A tree whose nodes are linked: what every lookup and every step of the  *)
(* iterator rests on.                                                      *)
Form(nodes) ==
  /\ IsFcn(nodes)
  /\ DOMAIN nodes \subseteq W /\ Root \in DOMAIN nodes /\ IsFiniteSet(DOMAIN nodes)
  /\ \A p \in DOMAIN nodes : IsNode(nodes[p])
  /\ \E d \in Nat : \A p \in DOMAIN nodes : Len(p) <= d
  /\ \A p \in DOMAIN nodes : Linked(nodes, p)

(* The edges of a node differ in their first characters.                   *)
LEMMA EdgeType ==
  ASSUME NEW n, IsNode(n), Ordered(n)
  PROVE  /\ \A e \in Edges(n) : e \in W /\ Len(e) >= 1
         /\ \A e, f \in Edges(n) : e[1] = f[1] => e = f
         /\ n.iscompr => \A e : e \in Edges(n) <=> e = n.chars
         /\ ~n.iscompr => \A e : e \in Edges(n) <=>
                             e \in W /\ Len(e) = 1 /\ \E k \in 1..Len(n.chars) : e[1] = n.chars[k]
         /\ n.chars = <<>> => ~n.iscompr /\ \A e : e \notin Edges(n)
         /\ n.chars # <<>> => \E e : e \in Edges(n)
<1>1. n.chars \in W
  BY DEF IsNode
<1>2. n.iscompr => \A e : e \in Edges(n) <=> e = n.chars
  BY DEF Edges, Edge, Degree
<1>3. ASSUME ~n.iscompr, NEW e
      PROVE  e \in Edges(n) <=> e \in W /\ Len(e) = 1 /\ \E k \in 1..Len(n.chars) : e[1] = n.chars[k]
  <2>1. e \in Edges(n) <=> \E k \in 1..Len(n.chars) : e = <<n.chars[k]>>
    BY <1>3 DEF Edges, Edge, Degree
  <2>2. \A k \in 1..Len(n.chars) : <<n.chars[k]>> \in W /\ Len(<<n.chars[k]>>) = 1 /\ <<n.chars[k]>>[1] = n.chars[k]
    BY <1>1, WordType DEF W
  <2>3. ASSUME NEW k \in 1..Len(n.chars), e \in W, Len(e) = 1, e[1] = n.chars[k] PROVE e = <<n.chars[k]>>
    <3>1. PICK t : t = <<n.chars[k]>>
      OBVIOUS
    <3>2. t \in W /\ Len(t) = 1 /\ t[1] = n.chars[k]
      BY <2>2, <3>1
    <3>3. \A i \in 1..Len(e) : e[i] = t[i]
      BY <2>3, <3>2
    <3>4. e = t
      BY <2>3, <3>2, <3>3, SameWord
    <3> QED BY <3>1, <3>4
  <2> QED BY <2>1, <2>2, <2>3
<1>4. n.chars = <<>> => ~n.iscompr /\ \A e : e \notin Edges(n)
  <2>1. SUFFICES ASSUME n.chars = <<>> PROVE ~n.iscompr /\ \A e : e \notin Edges(n)
    OBVIOUS
  <2>2. Len(n.chars) = 0
    BY <1>1, <2>1, WordType
  <2>3. ~n.iscompr
    BY <2>2 DEF Ordered
  <2>4. \A k : k \notin 1..Len(n.chars)
    BY <2>2
  <2> QED BY <1>3, <2>3, <2>4
<1>5. n.chars # <<>> => \E e : e \in Edges(n)
  <2>1. SUFFICES ASSUME n.chars # <<>> PROVE \E e : e \in Edges(n)
    OBVIOUS
  <2>2. CASE ~n.iscompr
    <3>1. 1 \in 1..Len(n.chars)
      BY <1>1, <2>1, WordType
    <3>2. <<n.chars[1]>> \in Edges(n)
      BY <2>2, <3>1 DEF Edges, Edge, Degree
    <3> QED BY <3>2
  <2> QED BY <1>2, <2>2
<1>6. \A e \in Edges(n) : e \in W /\ Len(e) >= 1
  <2>1. Len(n.chars) \in Nat /\ n.iscompr \in BOOLEAN
    BY <1>1, WordType DEF IsNode
  <2>2. CASE n.iscompr
    BY <1>1, <1>2, <2>1, <2>2 DEF Ordered
  <2>3. CASE ~n.iscompr
    BY <1>3, <2>3
  <2> QED BY <2>1, <2>2, <2>3
<1>7. ASSUME NEW e \in Edges(n), NEW f \in Edges(n), e[1] = f[1] PROVE e = f
  <2>1. CASE n.iscompr
    BY <1>2, <2>1
  <2>2. CASE ~n.iscompr
    <3>1. e \in W /\ f \in W /\ Len(e) = 1 /\ Len(f) = 1
      BY <1>3, <2>2
    <3> QED BY <1>7, <3>1, SameWord
  <2> QED BY <2>1, <2>2
<1> QED BY <1>2, <1>3, <1>4, <1>5, <1>6, <1>7

(* Two nodes with the same characters have the same edges.                 *)
LEMMA SameShape ==
  ASSUME NEW n, NEW m, IsNode(n), IsNode(m), n.iscompr <=> m.iscompr, n.chars = m.chars
  PROVE  (Ordered(n) <=> Ordered(m)) /\ (\A e : e \in Edges(n) <=> e \in Edges(m))
<1>1. n.iscompr = m.iscompr
  BY DEF IsNode
<1> QED BY <1>1 DEF Ordered, Edges, Edge, Degree

(* What the form says of one node.                                         *)
LEMMA FormType ==
  ASSUME NEW nodes, Form(nodes), NEW p \in DOMAIN nodes
  PROVE  /\ p \in W /\ IsNode(nodes[p]) /\ nodes[p].chars \in W /\ Ordered(nodes[p])
         /\ nodes[p].iskey \in BOOLEAN /\ nodes[p].iscompr \in BOOLEAN /\ nodes[p].data \in Int
         /\ \A e \in Edges(nodes[p]) : e \in W /\ Len(e) >= 1 /\ Join(p, e) \in DOMAIN nodes /\ Join(p, e) \in W
         /\ \A q \in DOMAIN nodes : Below(p, q) => \E e \in Edges(nodes[p]) : Begins(Join(p, e), q)
<1>1. p \in W /\ IsNode(nodes[p]) /\ Linked(nodes, p)
  BY DEF Form
<1>2. \A e \in Edges(nodes[p]) : e \in W /\ Len(e) >= 1 /\ Join(p, e) \in DOMAIN nodes /\ Join(p, e) \in W
  BY <1>1, EdgeType, JoinType DEF Linked
<1> QED BY <1>1, <1>2 DEF IsNode, Linked

(* The first character of an edge is the next of a word under it.          *)
LEMMA NextChar ==
  ASSUME NEW p \in W, NEW e \in W, Len(e) >= 1, NEW q \in W, Begins(Join(p, e), q)
  PROVE  q[Len(p) + 1] = e[1] /\ Below(p, q) /\ Begins(p, q) /\ Len(p) + 1 <= Len(q)
<1>1. Len(p) \in Nat /\ Len(e) \in Nat /\ Len(q) \in Nat /\ 1 \in 1..Len(e)
  BY WordType
<1>2. Begins(p, q) /\ Len(p) + Len(e) <= Len(q) /\ q[Len(p) + 1] = e[1]
  BY <1>1, JoinBegins
<1> QED BY <1>1, <1>2 DEF Below

(* A new address on an edge, between two nodes or below the last.          *)
LEMMA NothingBetween ==
  ASSUME NEW nodes, Form(nodes), NEW p \in DOMAIN nodes, NEW q \in W, Below(p, q),
         \A x \in DOMAIN nodes : Below(p, x) => ~Begins(x, q)
  PROVE  /\ q \notin DOMAIN nodes
         /\ \A x \in DOMAIN nodes : x # p /\ Below(x, q) => \E e \in Edges(nodes[x]) : Begins(Join(x, e), q)
<1>1. DOMAIN nodes \subseteq W
  BY DEF Form
<1>2. q \notin DOMAIN nodes
  BY BeginsOrder DEF Below
<1>3. ASSUME NEW x \in DOMAIN nodes, x # p, Below(x, q)
      PROVE  \E e \in Edges(nodes[x]) : Begins(Join(x, e), q)
  <2>1. Len(x) \in Nat /\ Len(p) \in Nat /\ x \in W /\ p \in W
    BY <1>1, WordType
  <2>2. Len(x) < Len(p)
    <3>1. SUFFICES ASSUME Len(p) <= Len(x) PROVE FALSE
      BY <2>1
    <3>2. Begins(p, x)
      BY <1>3, <2>1, <3>1, BeginsOrder DEF Below
    <3>3. Len(p) < Len(x)
      BY <1>3, <2>1, <3>1, <3>2, BeginsOrder
    <3> QED BY <1>3, <3>2, <3>3 DEF Below
  <2>3. Below(x, p)
    BY <1>3, <2>1, <2>2, BeginsOrder DEF Below
  <2>4. PICK e \in Edges(nodes[x]) : Begins(Join(x, e), p)
    BY <2>3 DEF Form, Linked
  <2>5. Join(x, e) \in W
    BY <2>1, <2>4, FormType
  <2> QED BY <2>1, <2>4, <2>5, BeginsOrder DEF Below
<1> QED BY <1>2, <1>3

(* A set with one element more.                                            *)
LEMMA OneMore ==
  ASSUME NEW D, IsFiniteSet(D), NEW q, q \notin D, NEW E, \A x : x \in E <=> x \in D \/ x = q
  PROVE  IsFiniteSet(E) /\ Cardinality(E) = Cardinality(D) + 1
<1>1. E = D \union {q}
  OBVIOUS
<1> QED BY <1>1, FS_AddElement

(* A tree with one node more, when the new node and the one above it are   *)
(* linked: all other nodes see the new one under the edge they had.        *)
LEMMA OneNodeMore ==
  ASSUME NEW nodes, Form(nodes), NEW p \in DOMAIN nodes, NEW q \in W, Below(p, q),
         \A x \in DOMAIN nodes : Below(p, x) => ~Begins(x, q),
         NEW R, IsFcn(R), \A x : x \in DOMAIN R <=> x \in DOMAIN nodes \/ x = q,
         \A x \in DOMAIN nodes : x # p => R[x] = nodes[x],
         IsNode(R[p]), IsNode(R[q]), Linked(R, p), Linked(R, q)
  PROVE  Form(R) /\ q \notin DOMAIN nodes /\ Cardinality(DOMAIN R) = Cardinality(DOMAIN nodes) + 1
<1>1. q \notin DOMAIN nodes /\ \A x \in DOMAIN nodes : x # p /\ Below(x, q) => \E e \in Edges(nodes[x]) : Begins(Join(x, e), q)
  BY NothingBetween
<1>5. IsFiniteSet(DOMAIN R) /\ Cardinality(DOMAIN R) = Cardinality(DOMAIN nodes) + 1
  <2>1. IsFiniteSet(DOMAIN nodes)
    BY DEF Form
  <2> QED BY <1>1, <2>1, OneMore
<1>2. DOMAIN R \subseteq W /\ Root \in DOMAIN R /\ \A x \in DOMAIN R : IsNode(R[x])
  BY DEF Form
<1>3. \E d \in Nat : \A x \in DOMAIN R : Len(x) <= d
  <2>1. PICK d \in Nat : \A x \in DOMAIN nodes : Len(x) <= d
    BY DEF Form
  <2>2. Len(q) \in Nat /\ \A x \in DOMAIN nodes : Len(x) \in Nat
    BY WordType DEF Form
  <2>3. d + Len(q) \in Nat /\ \A x \in DOMAIN R : Len(x) <= d + Len(q)
    BY <2>1, <2>2
  <2> QED BY <2>3
<1>4. ASSUME NEW x \in DOMAIN nodes, x # p
      PROVE  Linked(R, x)
  <2>1. R[x] = nodes[x] /\ Linked(nodes, x)
    BY <1>4 DEF Form
  <2>2. ASSUME NEW y \in DOMAIN R, Below(x, y) PROVE \E e \in Edges(R[x]) : Begins(Join(x, e), y)
    BY <1>1, <1>4, <2>1, <2>2 DEF Linked
  <2> QED BY <2>1, <2>2 DEF Linked
<1> QED BY <1>1, <1>2, <1>3, <1>4, <1>5 DEF Form

(* Putting a node into a tree.                                             *)
LEMMA WithIs ==
  ASSUME NEW nodes, NEW p, NEW n
  PROVE  /\ \A q : q \in DOMAIN With(nodes, p, n) <=> q \in DOMAIN nodes \/ q = p
         /\ With(nodes, p, n)[p] = n
         /\ \A q \in DOMAIN nodes : q # p => With(nodes, p, n)[q] = nodes[q]
         /\ IsFcn(With(nodes, p, n))
BY DEF With, IsFcn

(* The fields of a node.                                                   *)
LEMMA NodeType ==
  ASSUME NEW k \in BOOLEAN, NEW d \in Int, NEW c \in BOOLEAN, NEW s \in W
  PROVE  /\ IsNode(Node(k, d, c, s))
         /\ Node(k, d, c, s).iskey = k /\ Node(k, d, c, s).data = d
         /\ Node(k, d, c, s).iscompr = c /\ Node(k, d, c, s).chars = s
BY DEF IsNode, Node

(* A node with the one edge s.                                             *)
LEMMA OneEdge ==
  ASSUME NEW n, IsNode(n), Len(n.chars) >= 1, n.iscompr <=> Len(n.chars) > 1
  PROVE  Ordered(n) /\ (\A e : e \in Edges(n) <=> e = n.chars)
<1>1. n.chars \in W /\ Len(n.chars) \in Nat
  BY WordType DEF IsNode
<1>2. CASE Len(n.chars) > 1
  BY <1>2, EdgeType DEF Ordered
<1>3. CASE Len(n.chars) = 1
  <2>1. ~n.iscompr /\ DOMAIN n.chars = 1..1
    BY <1>1, <1>3, WordType
  <2>2. Ordered(n)
    BY <2>1 DEF Ordered
  <2>3. ASSUME NEW e PROVE e \in Edges(n) <=> e \in W /\ Len(e) = 1 /\ e[1] = n.chars[1]
    <3>1. e \in Edges(n) <=> e \in W /\ Len(e) = 1 /\ \E k \in 1..Len(n.chars) : e[1] = n.chars[k]
      BY <2>1, <2>2, EdgeType
    <3>2. \A k : k \in 1..Len(n.chars) <=> k = 1
      BY <1>3
    <3> QED BY <3>1, <3>2
  <2>4. ASSUME NEW e PROVE e \in W /\ Len(e) = 1 /\ e[1] = n.chars[1] <=> e = n.chars
    BY <1>1, <1>3, SameWord
  <2> QED BY <2>2, <2>3, <2>4
<1>4. Len(n.chars) > 1 \/ Len(n.chars) = 1
  <2>1. \A k \in Nat : k >= 1 => k > 1 \/ k = 1
    OBVIOUS
  <2> QED BY <1>1, <2>1
<1> QED BY <1>2, <1>3, <1>4

(* A node that changes nothing but its key and its data.                   *)
LEMMA SameTree ==
  ASSUME NEW nodes, Form(nodes), NEW R, IsFcn(R), \A x : x \in DOMAIN R <=> x \in DOMAIN nodes,
         \A x \in DOMAIN nodes : IsNode(R[x]) /\ R[x].chars = nodes[x].chars /\ (R[x].iscompr <=> nodes[x].iscompr)
  PROVE  Form(R) /\ Cardinality(DOMAIN R) = Cardinality(DOMAIN nodes)
<1>4. DOMAIN R = DOMAIN nodes /\ IsFiniteSet(DOMAIN nodes)
  BY DEF Form
<1>1. DOMAIN R \subseteq W /\ Root \in DOMAIN R /\ \A x \in DOMAIN R : IsNode(R[x])
  BY DEF Form
<1>2. \E d \in Nat : \A x \in DOMAIN R : Len(x) <= d
  <2>1. PICK d \in Nat : \A x \in DOMAIN nodes : Len(x) <= d
    BY DEF Form
  <2> QED BY <2>1
<1>3. ASSUME NEW x \in DOMAIN R PROVE Linked(R, x)
  <2>1. Linked(nodes, x) /\ IsNode(nodes[x])
    BY DEF Form
  <2>2. (Ordered(nodes[x]) <=> Ordered(R[x])) /\ \A e : e \in Edges(nodes[x]) <=> e \in Edges(R[x])
    BY <2>1, SameShape
  <2> QED BY <2>1, <2>2 DEF Linked
<1> QED BY <1>1, <1>2, <1>3, <1>4 DEF Form

(* A new edge to a new leaf.                                               *)
Changed(nodes, p, q, R) ==
  /\ IsFcn(R)
  /\ \A x : x \in DOMAIN R <=> x \in DOMAIN nodes \/ x = q
  /\ \A x \in DOMAIN nodes : x # p => R[x] = nodes[x]
  /\ IsNode(R[p]) /\ Ordered(R[p])
  /\ IsNode(R[q]) /\ Ordered(R[q])

LEMMA NewLeaf ==
  ASSUME NEW nodes, Form(nodes), NEW p \in DOMAIN nodes, NEW e \in W, Len(e) >= 1,
         \A f \in Edges(nodes[p]) : f[1] # e[1], NEW q, q = Join(p, e),
         NEW R, Changed(nodes, p, q, R),
         \A f : f \in Edges(R[p]) <=> f \in Edges(nodes[p]) \/ f = e,
         \A f : f \notin Edges(R[q])
  PROVE  /\ q \in W /\ q \notin DOMAIN nodes /\ Below(p, q) /\ Form(R)
         /\ Cardinality(DOMAIN R) = Cardinality(DOMAIN nodes) + 1
<1>0. /\ IsFcn(R) /\ (\A x : x \in DOMAIN R <=> x \in DOMAIN nodes \/ x = q)
      /\ (\A x \in DOMAIN nodes : x # p => R[x] = nodes[x])
      /\ IsNode(R[p]) /\ Ordered(R[p]) /\ IsNode(R[q]) /\ Ordered(R[q])
  BY DEF Changed
<1> USE <1>0
<1>1. p \in W /\ Len(p) \in Nat /\ Len(e) \in Nat
  BY FormType, WordType
<1>2. q \in W /\ Len(q) = Len(p) + Len(e) /\ Begins(q, q)
  BY <1>1, JoinType, BeginsOrder
<1>3. q[Len(p) + 1] = e[1] /\ Below(p, q)
  BY <1>1, <1>2, NextChar
<1>4. ASSUME NEW x \in DOMAIN nodes, Below(p, x) PROVE ~Begins(x, q) /\ ~Begins(q, x)
  <2>1. PICK f \in Edges(nodes[p]) : Begins(Join(p, f), x)
    BY <1>4, FormType
  <2>2. x \in W /\ f \in W /\ Len(f) >= 1
    BY <2>1, FormType
  <2>3. x[Len(p) + 1] = f[1] /\ Len(p) + 1 <= Len(x)
    BY <1>1, <2>1, <2>2, NextChar
  <2>4. x[Len(p) + 1] # q[Len(p) + 1]
    BY <1>3, <2>3
  <2>5. Len(p) + 1 \in 1..Len(x) /\ Len(p) + 1 \in 1..Len(q)
    BY <1>1, <1>2, <2>2, <2>3, WordType
  <2> QED BY <2>4, <2>5 DEF Begins
<1>5. Linked(R, p)
  <2>1. ASSUME NEW f \in Edges(R[p]) PROVE Join(p, f) \in DOMAIN R
    BY FormType
  <2>2. ASSUME NEW x \in DOMAIN R, Below(p, x) PROVE \E f \in Edges(R[p]) : Begins(Join(p, f), x)
    BY <1>2, <2>2, FormType
  <2> QED BY <2>1, <2>2 DEF Linked
<1>6. Linked(R, q)
  <2>1. ASSUME NEW x \in DOMAIN R, Below(q, x) PROVE FALSE
    <3>1. x # q /\ x \in DOMAIN nodes
      BY <1>1, <1>2, <2>1 DEF Below
    <3>2. x \in W /\ Len(x) \in Nat
      BY <3>1, FormType, WordType
    <3>3. Below(p, x)
      BY <1>1, <1>2, <1>3, <2>1, <3>2, BeginsOrder DEF Below
    <3> QED BY <1>4, <2>1, <3>1, <3>3 DEF Below
  <2> QED BY <2>1 DEF Linked
<1> QED BY <1>2, <1>3, <1>4, <1>5, <1>6, OneNodeMore

(* An edge cut in two.                                                     *)
LEMMA CutEdge ==
  ASSUME NEW nodes, Form(nodes), NEW p \in DOMAIN nodes, NEW c, c = nodes[p].chars, nodes[p].iscompr,
         NEW j \in 1..(Len(c) - 1), NEW q, q = Join(p, Upto(c, j)),
         NEW R, Changed(nodes, p, q, R),
         \A e : e \in Edges(R[p]) <=> e = Upto(c, j),
         \A e : e \in Edges(R[q]) <=> e = Rest(c, j)
  PROVE  /\ q \in W /\ q \notin DOMAIN nodes /\ Below(p, q) /\ Form(R)
         /\ Cardinality(DOMAIN R) = Cardinality(DOMAIN nodes) + 1
<1>0. /\ IsFcn(R) /\ (\A x : x \in DOMAIN R <=> x \in DOMAIN nodes \/ x = q)
      /\ (\A x \in DOMAIN nodes : x # p => R[x] = nodes[x])
      /\ IsNode(R[p]) /\ Ordered(R[p]) /\ IsNode(R[q]) /\ Ordered(R[q])
  BY DEF Changed
<1> USE <1>0
<1>b. PICK b : b = Upto(c, j)
  OBVIOUS
<1>r. PICK r : r = Rest(c, j)
  OBVIOUS
<1>1. p \in W /\ c \in W /\ Len(p) \in Nat /\ Len(c) \in Nat /\ j \in Nat /\ j \in 0..Len(c) /\ j < Len(c) /\ j >= 1
  <2>1. p \in W /\ c \in W
    BY FormType
  <2>2. Len(p) \in Nat /\ Len(c) \in Nat
    BY <2>1, WordType
  <2> QED BY <2>1, <2>2
<1>2. b \in W /\ Len(b) = j /\ r \in W /\ Len(r) = Len(c) - j
  BY <1>1, <1>b, <1>r, UptoType, RestType
<1>3. q \in W /\ Len(q) = Len(p) + j /\ q = Join(p, b)
  <2>1. q = Join(p, b)
    BY <1>b
  <2>2. p \in W /\ b \in W
    BY <1>1, <1>2
  <2> QED BY ONLY <1>2, <2>1, <2>2, JoinType
<1>4. PICK z : z = Join(p, c)
  OBVIOUS
<1>5. z \in W /\ Len(z) = Len(p) + Len(c) /\ z = Join(q, r)
  <2>1. p \in W /\ c \in W /\ j \in 0..Len(c)
    BY <1>1
  <2>2. Join(Join(p, Upto(c, j)), Rest(c, j)) = Join(p, c)
    BY <2>1, CutWord
  <2>3. z = Join(q, r)
    BY <1>4, <1>r, <2>2
  <2> QED BY ONLY <1>4, <2>1, <2>3, JoinType
<1>6. Below(p, q) /\ Below(q, z) /\ Begins(q, z)
  <2>1. Begins(p, q)
    BY <1>1, <1>2, <1>3, JoinBegins
  <2>2. Begins(q, z)
    BY <1>2, <1>3, <1>5, JoinBegins
  <2> QED BY <1>1, <1>3, <1>5, <2>1, <2>2 DEF Below
<1>7. z \in DOMAIN nodes /\ \A x \in DOMAIN nodes : Below(p, x) => Begins(z, x)
  <2>1. \A e : e \in Edges(nodes[p]) <=> e = c
    BY FormType, EdgeType
  <2> QED BY <1>4, <2>1, FormType
<1>8. ASSUME NEW x \in DOMAIN nodes, Below(p, x) PROVE ~Begins(x, q) /\ Len(z) <= Len(x) /\ x \in W
  <2>1. x \in W /\ Len(z) <= Len(x) /\ Len(x) \in Nat
    BY <1>5, <1>7, <1>8, BeginsOrder, WordType, FormType
  <2>2. Len(q) < Len(x)
    BY <1>1, <1>3, <1>5, <2>1
  <2> QED BY <1>1, <1>3, <2>1, <2>2 DEF Begins
<1>9. Linked(R, p)
  <2>1. Join(p, b) \in DOMAIN R
    BY <1>3
  <2>2. ASSUME NEW x \in DOMAIN R, Below(p, x) PROVE Begins(Join(p, b), x)
    <3>1. CASE x = q
      BY <1>3, <3>1, BeginsOrder
    <3>2. CASE x \in DOMAIN nodes
      <4>1. x \in W /\ Begins(z, x)
        BY <1>7, <1>8, <2>2, <3>2
      <4>2. Begins(q, x)
        BY <1>3, <1>5, <1>6, <4>1, BeginsOrder
      <4> QED BY <1>3, <4>2
    <3> QED BY <2>2, <3>1, <3>2
  <2>3. \A e : e \in Edges(R[p]) <=> e = b
    BY <1>b
  <2> QED BY <2>1, <2>2, <2>3 DEF Linked
<1>10. Linked(R, q)
  <2>1. Join(q, r) \in DOMAIN R
    BY <1>5, <1>7
  <2>2. ASSUME NEW x \in DOMAIN R, Below(q, x) PROVE Begins(Join(q, r), x)
    <3>1. x # q /\ x \in DOMAIN nodes
      BY <1>1, <1>3, <2>2 DEF Below
    <3>2. x \in W /\ Len(x) \in Nat
      BY <3>1, FormType, WordType
    <3>3. Below(p, x)
      BY <1>1, <1>3, <1>6, <2>2, <3>2, BeginsOrder DEF Below
    <3> QED BY <1>5, <1>7, <3>1, <3>3
  <2>3. \A e : e \in Edges(R[q]) <=> e = r
    BY <1>r
  <2> QED BY <2>1, <2>2, <2>3 DEF Linked
<1> QED BY <1>3, <1>6, <1>8, <1>9, <1>10, OneNodeMore

-----------------------------------------------------------------------------
(***************************************************************************)
(* 3. The characters that are left: extending a tree.                      *)
(***************************************************************************)

(* Inserting a character into a sequence.                                  *)
LEMMA InsertAtIs ==
  ASSUME NEW s \in W, NEW c \in Nat, NEW k \in 1..(Len(s) + 1), NEW t, t = InsertAt(s, k, c)
  PROVE  /\ t \in W /\ Len(t) = Len(s) + 1 /\ t[k] = c
         /\ \A i \in 1..(k - 1) : t[i] = s[i]
         /\ \A i \in k..Len(s) : t[i + 1] = s[i]
<1>1. Len(s) \in Nat /\ k \in Nat /\ k - 1 \in 0..Len(s) /\ k >= 1 /\ k <= Len(s) + 1
  BY WordType
<1>2. PICK b : b = Upto(s, k - 1)
  OBVIOUS
<1>3. PICK r : r = Rest(s, k - 1)
  OBVIOUS
<1>4. /\ b \in W /\ Len(b) = k - 1 /\ \A i \in 1..(k - 1) : b[i] = s[i]
      /\ r \in W /\ Len(r) = Len(s) - (k - 1) /\ \A i \in 1..(Len(s) - (k - 1)) : r[i] = s[(k - 1) + i]
  BY <1>1, <1>2, <1>3, UptoType, RestType
<1>5. PICK m : m = <<c>>
  OBVIOUS
<1>6. m \in W /\ Len(m) = 1 /\ m[1] = c
  BY <1>5 DEF W
<1>7. t = Join(Join(b, m), r)
  <2>1. (k - 1) + 1 = k
    BY <1>1
  <2> QED BY <1>2, <1>3, <1>5, <2>1 DEF InsertAt, Upto, Rest, Join
<1>8. PICK u : u = Join(b, m)
  OBVIOUS
<1>9. /\ u \in W /\ Len(u) = k /\ \A i \in 1..(k - 1) : u[i] = b[i]
      /\ u[k] = c
  <2>1. b \in W /\ m \in W
    BY <1>4, <1>6
  <2>2. /\ u \in W /\ Len(u) = Len(b) + Len(m) /\ \A i \in 1..Len(b) : u[i] = b[i]
        /\ \A i \in 1..Len(m) : u[Len(b) + i] = m[i]
    BY ONLY <1>8, <2>1, JoinType
  <2>3. 1 \in 1..Len(m) /\ Len(b) + 1 = k
    BY <1>1, <1>4, <1>6
  <2>4. u[k] = m[1]
    BY <2>2, <2>3
  <2> QED BY <1>1, <1>4, <1>6, <2>2, <2>4
<1>10. /\ t \in W /\ Len(t) = Len(u) + Len(r) /\ \A i \in 1..Len(u) : t[i] = u[i]
       /\ \A i \in 1..Len(r) : t[Len(u) + i] = r[i]
  <2>1. u \in W /\ r \in W /\ t = Join(u, r)
    BY <1>4, <1>7, <1>8, <1>9
  <2> QED BY ONLY <2>1, JoinType
<1>11. Len(t) = Len(s) + 1 /\ t[k] = c
  <2>1. k \in 1..Len(u)
    BY <1>1, <1>9
  <2> QED BY <1>1, <1>4, <1>9, <1>10, <2>1
<1>12. ASSUME NEW i \in 1..(k - 1) PROVE t[i] = s[i]
  <2>1. i \in 1..Len(u)
    BY <1>1, <1>9
  <2> QED BY <1>4, <1>9, <1>10, <2>1
<1>13. ASSUME NEW i \in k..Len(s) PROVE t[i + 1] = s[i]
  <2>1. PICK l : l = i - (k - 1)
    OBVIOUS
  <2>2. l \in 1..Len(r) /\ l \in 1..(Len(s) - (k - 1)) /\ Len(u) + l = i + 1 /\ (k - 1) + l = i
    BY <1>1, <1>4, <1>9, <2>1
  <2>3. t[Len(u) + l] = r[l] /\ r[l] = s[(k - 1) + l]
    BY <1>4, <1>10, <2>2
  <2> QED BY <2>2, <2>3
<1> QED BY <1>10, <1>11, <1>12, <1>13

(* raxAddChild keeps the edges of a node sorted, and adds one.             *)
LEMMA AddChildIs ==
  ASSUME NEW n, IsNode(n), Ordered(n), ~n.iscompr, NEW e \in W, Len(e) = 1,
         \A f \in Edges(n) : f[1] # e[1], NEW m, m = AddChild(n, e[1])
  PROVE  /\ IsNode(m) /\ Ordered(m) /\ m.iskey = n.iskey /\ m.data = n.data /\ ~m.iscompr
         /\ \A f : f \in Edges(m) <=> f \in Edges(n) \/ f = e
<1>c. PICK c : c = e[1]
  OBVIOUS
<1>s. PICK s : s = n.chars
  OBVIOUS
<1>1. s \in W /\ Len(s) \in Nat /\ c \in Nat /\ (\A k \in 1..Len(s) : s[k] \in Nat) /\ DOMAIN s = 1..Len(s)
  <2>1. 1 \in 1..Len(e)
    OBVIOUS
  <2> QED BY <1>c, <1>s, <2>1, WordType DEF IsNode
<1>2. \A k, l \in 1..Len(s) : k < l => s[k] < s[l]
  BY <1>1, <1>s DEF Ordered
<1>3. \A f : f \in Edges(n) <=> f \in W /\ Len(f) = 1 /\ \E k \in 1..Len(s) : f[1] = s[k]
  BY <1>s, EdgeType
<1>4. \A k \in 1..Len(s) : s[k] # c
  <2>1. SUFFICES ASSUME NEW k \in 1..Len(s), s[k] = c PROVE FALSE
    OBVIOUS
  <2>2. e \in Edges(n)
    BY <1>3, <1>c, <2>1
  <2> QED BY <2>2
<1> DEFINE P == {k \in 1..(Len(s) + 1) : k > Len(s) \/ s[k] > c}
<1>5. PICK pos : pos = Min(P)
  OBVIOUS
<1>6. pos \in 1..(Len(s) + 1) /\ (pos > Len(s) \/ s[pos] > c) /\ \A k \in 1..Len(s) : k < pos => s[k] < c
  <2>1. P \subseteq Nat /\ Len(s) + 1 \in P
    BY <1>1
  <2>2. P # {}
    BY <2>1
  <2>3. pos \in P /\ \A k \in P : pos <= k
    <3> HIDE DEF P
    <3> QED BY <1>5, <2>1, <2>2, MinIs
  <2>4. ASSUME NEW k \in 1..Len(s), k < pos PROVE s[k] < c
    <3>1. k \in 1..(Len(s) + 1) /\ k \notin P
      BY <1>1, <2>3, <2>4
    <3>2. ~(s[k] > c)
      BY <3>1
    <3> QED BY <1>1, <1>4, <3>2
  <2> QED BY <2>3, <2>4
<1> HIDE DEF P
<1>7. PICK t : t = InsertAt(s, pos, c)
  OBVIOUS
<1>8. /\ t \in W /\ Len(t) = Len(s) + 1 /\ t[pos] = c
      /\ \A i \in 1..(pos - 1) : t[i] = s[i]
      /\ \A i \in pos..Len(s) : t[i + 1] = s[i]
  BY <1>1, <1>6, <1>7, InsertAtIs
<1>9. m = [n EXCEPT !.chars = t]
  BY <1>c, <1>s, <1>5, <1>7 DEF AddChild, P
<1>10. IsNode(m) /\ m.iskey = n.iskey /\ m.data = n.data /\ m.chars = t /\ ~m.iscompr
  BY <1>8, <1>9 DEF IsNode
<1>11. \A k \in 1..Len(t) : \/ k < pos /\ k \in 1..Len(s) /\ t[k] = s[k] /\ s[k] < c
                            \/ k = pos /\ t[k] = c
                            \/ k > pos /\ k - 1 \in 1..Len(s) /\ t[k] = s[k - 1] /\ s[k - 1] > c
  <2>1. TAKE k \in 1..Len(t)
  <2>2. k \in Nat /\ k >= 1 /\ k <= Len(s) + 1 /\ pos \in Nat /\ pos >= 1 /\ pos <= Len(s) + 1
    BY <1>1, <1>6, <1>8
  <2>3. CASE k < pos
    <3>1. k \in 1..(pos - 1) /\ k \in 1..Len(s)
      BY <1>1, <2>2, <2>3
    <3> QED BY <1>6, <1>8, <2>3, <3>1
  <2>4. CASE k = pos
    BY <1>8, <2>4
  <2>5. CASE k > pos
    <3>1. PICK i : i = k - 1
      OBVIOUS
    <3>2. i \in pos..Len(s) /\ i + 1 = k /\ i \in 1..Len(s) /\ pos \in 1..Len(s)
      BY <1>1, <2>2, <2>5, <3>1
    <3>3. t[k] = s[i]
      BY <1>8, <3>2
    <3>4. s[pos] > c /\ (pos < i => s[pos] < s[i]) /\ (pos = i \/ pos < i)
      BY <1>1, <1>2, <1>6, <3>2
    <3>5. s[i] > c
      BY <1>1, <3>2, <3>4
    <3> QED BY <2>5, <3>1, <3>2, <3>3, <3>5
  <2> QED BY <2>2, <2>3, <2>4, <2>5
<1>12. \A k, l \in 1..Len(t) : k < l => t[k] < t[l]
  <2>1. SUFFICES ASSUME NEW k \in 1..Len(t), NEW l \in 1..Len(t), k < l PROVE t[k] < t[l]
    OBVIOUS
  <2>2. k \in Nat /\ l \in Nat /\ pos \in Nat
    BY <1>1, <1>6, <1>8
  <2>3. CASE l < pos
    <3>1. k < pos /\ k \in 1..Len(s) /\ l \in 1..Len(s) /\ t[k] = s[k] /\ t[l] = s[l]
      BY <1>11, <2>1, <2>2, <2>3
    <3> QED BY <1>2, <2>1, <3>1
  <2>4. CASE k < pos /\ l >= pos
    <3>1. k \in 1..Len(s) /\ t[k] = s[k] /\ s[k] < c
      BY <1>11, <2>2, <2>4
    <3>2. t[l] = c \/ (l - 1 \in 1..Len(s) /\ t[l] = s[l - 1] /\ s[l - 1] > c)
      BY <1>11, <2>2, <2>4
    <3>3. \A x, y, z \in Nat : x < y /\ z > y => x < z
      OBVIOUS
    <3> QED BY <1>1, <3>1, <3>2, <3>3
  <2>5. CASE k = pos
    <3>1. t[k] = c /\ l - 1 \in 1..Len(s) /\ t[l] = s[l - 1] /\ s[l - 1] > c
      BY <1>11, <2>1, <2>2, <2>5
    <3> QED BY <1>1, <3>1
  <2>6. CASE k > pos
    <3>1. k - 1 \in 1..Len(s) /\ l - 1 \in 1..Len(s) /\ t[k] = s[k - 1] /\ t[l] = s[l - 1] /\ k - 1 < l - 1
      BY <1>11, <2>1, <2>2, <2>6
    <3> QED BY <1>2, <3>1
  <2> QED BY <2>2, <2>3, <2>4, <2>5, <2>6
<1>13. Ordered(m)
  <2>1. DOMAIN t = 1..Len(t)
    BY <1>8, WordType
  <2> QED BY <1>10, <1>12, <2>1 DEF Ordered
<1>14. ASSUME NEW x PROVE (\E k \in 1..Len(t) : x = t[k]) <=> (\E k \in 1..Len(s) : x = s[k]) \/ x = c
  <2>1. ASSUME NEW k \in 1..Len(t) PROVE t[k] = c \/ \E i \in 1..Len(s) : t[k] = s[i]
    BY <1>11
  <2>2. ASSUME NEW i \in 1..Len(s) PROVE \E k \in 1..Len(t) : s[i] = t[k]
    <3>1. CASE i < pos
      <4>1. i \in 1..(pos - 1) /\ i \in 1..Len(t)
        BY <1>1, <1>6, <1>8, <3>1
      <4> QED BY <1>8, <4>1
    <3>2. CASE i >= pos
      <4>1. i \in pos..Len(s) /\ i + 1 \in 1..Len(t)
        BY <1>1, <1>6, <1>8, <3>2
      <4> QED BY <1>8, <4>1
    <3> QED BY <1>1, <1>6, <3>1, <3>2
  <2>3. pos \in 1..Len(t)
    BY <1>1, <1>6, <1>8
  <2> QED BY <1>8, <2>1, <2>2, <2>3
<1>15. ASSUME NEW f PROVE f \in Edges(m) <=> f \in Edges(n) \/ f = e
  <2>1. f \in Edges(m) <=> f \in W /\ Len(f) = 1 /\ \E k \in 1..Len(t) : f[1] = t[k]
    BY <1>10, <1>13, EdgeType
  <2>2. f \in W /\ Len(f) = 1 /\ f[1] = c <=> f = e
    BY <1>c, SameWord
  <2> QED BY <1>3, <1>14, <2>1, <2>2
<1> QED BY <1>10, <1>13, <1>15

(* The node for the characters that are left has them for its only edge.   *)
LEMMA BeginIs ==
  ASSUME NEW n, IsNode(n), Ordered(n), n.chars = <<>>, NEW s \in W, Len(s) >= 1, NEW m, m = Begin(n, s)
  PROVE  /\ IsNode(m) /\ Ordered(m) /\ m.iskey = n.iskey /\ m.data = n.data
         /\ \A f : f \in Edges(m) <=> f = s
<1>1. ~n.iscompr /\ \A f : f \notin Edges(n)
  BY EdgeType
<1>2. CASE Len(s) > 1
  <2>1. m = [n EXCEPT !.iscompr = TRUE, !.chars = s]
    BY <1>2 DEF Begin, CompressNode
  <2>2. IsNode(m) /\ m.iskey = n.iskey /\ m.data = n.data /\ m.iscompr /\ m.chars = s
    BY <2>1 DEF IsNode
  <2>3. Ordered(m)
    BY <1>2, <2>2 DEF Ordered
  <2> QED BY <2>2, <2>3, EdgeType
<1>3. CASE Len(s) = 1
  <2>1. m = AddChild(n, s[1])
    BY <1>3 DEF Begin
  <2>2. \A f \in Edges(n) : f[1] # s[1]
    BY <1>1
  <2>3. /\ IsNode(m) /\ Ordered(m) /\ m.iskey = n.iskey /\ m.data = n.data
        /\ \A f : f \in Edges(m) <=> f \in Edges(n) \/ f = s
    BY <1>1, <1>3, <2>1, <2>2, AddChildIs
  <2> QED BY <1>1, <2>3
<1>4. Len(s) > 1 \/ Len(s) = 1
  <2>1. \A k \in Nat : k >= 1 => k > 1 \/ k = 1
    OBVIOUS
  <2> QED BY <2>1, WordType
<1> QED BY <1>2, <1>3, <1>4
-----------------------------------------------------------------------------

(* A node is tight when no insertion could have done without it: a leaf is *)
(* a key, and the only child of a node is a key or branches itself (rax.c  *)
(* 550-670: nodes that could be merged).                                   *)
Branches(n) == \E e, f \in Edges(n) : e # f
Solid(n) == n.iskey \/ Branches(n)
Tight(nodes, p) ==
  /\ (\A e : e \notin Edges(nodes[p])) => nodes[p].iskey \/ p = Root
  /\ \A e \in Edges(nodes[p]) : (\A f \in Edges(nodes[p]) : f = e) => Solid(nodes[Join(p, e)])

(* The keys of a tree, all of them or all but one.                         *)
SameKey(nodes, N, x) ==
  /\ N[x].iskey <=> x \in DOMAIN nodes /\ nodes[x].iskey
  /\ N[x].iskey => N[x].data = nodes[x].data

(* What Extend makes of a tree: data at q, all other keys as they were.    *)
Extended(nodes, p, q, data, N) ==
  /\ Form(N)
  /\ \A x \in DOMAIN nodes : x \in DOMAIN N /\ (x # p => N[x] = nodes[x])
  /\ q \in DOMAIN N /\ N[q].iskey /\ N[q].data = data
  /\ \A x \in DOMAIN N : x # q => SameKey(nodes, N, x)
  /\ \A x \in DOMAIN N : x \notin DOMAIN nodes => Tight(N, x)

LEMMA NoChars ==
  ASSUME NEW p \in W
  PROVE  Join(p, <<>>) = p /\ Join(<<>>, p) = p /\ <<>> \in W /\ Len(<<>>) = 0
BY DEF W, Join

(* A node that becomes a key, and a new leaf.                              *)
LEMMA SetDataIs ==
  ASSUME NEW n, IsNode(n), NEW data \in Int, NEW m, m = SetData(n, data)
  PROVE  IsNode(m) /\ m.iskey /\ m.data = data /\ m.chars = n.chars /\ (m.iscompr <=> n.iscompr)
BY DEF SetData, IsNode

LEMMA LeafIs ==
  ASSUME NEW data \in Int, NEW n, n = SetData(NewNode, data)
  PROVE  /\ IsNode(n) /\ Ordered(n) /\ n.iskey /\ n.data = data /\ n.chars = <<>> /\ \A e : e \notin Edges(n)
         /\ IsNode(NewNode) /\ Ordered(NewNode) /\ ~NewNode.iskey /\ NewNode.chars = <<>> /\ \A e : e \notin Edges(NewNode)
<1>1. <<>> \in W /\ Len(<<>>) = 0 /\ NoData \in Int
  BY DEF W, NoData
<1>2. IsNode(NewNode) /\ ~NewNode.iskey /\ NewNode.chars = <<>> /\ ~NewNode.iscompr
  BY <1>1 DEF NewNode, Node, IsNode
<1>3. IsNode(n) /\ n.iskey /\ n.data = data /\ n.chars = <<>> /\ ~n.iscompr
  BY <1>2 DEF SetData, IsNode
<1>4. ASSUME NEW m, IsNode(m), m.chars = <<>>, ~m.iscompr PROVE Ordered(m) /\ \A e : e \notin Edges(m)
  <2>1. Ordered(m)
    BY <1>4 DEF Ordered
  <2> QED BY <1>4, <2>1, EdgeType
<1> QED BY <1>2, <1>3, <1>4

(* Extend has three cases. The word ends at a node that is there.          *)
LEMMA ExtendByNone ==
  ASSUME NEW nodes, Form(nodes), NEW p \in DOMAIN nodes, NEW data \in Int,
         NEW N, N = With(nodes, p, SetData(nodes[p], data))
  PROVE  /\ Extended(nodes, p, p, data, N)
         /\ Cardinality(DOMAIN N) = Cardinality(DOMAIN nodes)
         /\ \A e : e \in Edges(N[p]) <=> e \in Edges(nodes[p])
<1>1. /\ \A x : x \in DOMAIN N <=> x \in DOMAIN nodes
      /\ N[p] = SetData(nodes[p], data)
      /\ \A x \in DOMAIN nodes : x # p => N[x] = nodes[x]
      /\ IsFcn(N)
  BY WithIs
<1>2. /\ IsNode(N[p]) /\ N[p].iskey /\ N[p].data = data
      /\ N[p].chars = nodes[p].chars /\ (N[p].iscompr <=> nodes[p].iscompr)
  BY <1>1, FormType, SetDataIs
<1>3. \A x \in DOMAIN nodes : IsNode(N[x]) /\ N[x].chars = nodes[x].chars /\ (N[x].iscompr <=> nodes[x].iscompr)
  BY <1>1, <1>2, FormType
<1>4. Form(N) /\ Cardinality(DOMAIN N) = Cardinality(DOMAIN nodes)
  BY <1>1, <1>3, SameTree
<1>5. \A e : e \in Edges(N[p]) <=> e \in Edges(nodes[p])
  BY <1>3, FormType, SameShape
<1> QED BY <1>1, <1>2, <1>4, <1>5 DEF Extended, SameKey

(* A leaf with a key under a new edge.                                     *)
LEMMA ExtendByOne ==
  ASSUME NEW nodes, Form(nodes), NEW p \in DOMAIN nodes, NEW s \in W, Len(s) >= 1, NEW data \in Int,
         \A f \in Edges(nodes[p]) : f[1] # s[1],
         NEW h, IsNode(h), Ordered(h), h.iskey = nodes[p].iskey, h.data = nodes[p].data,
         \A f : f \in Edges(h) <=> f \in Edges(nodes[p]) \/ f = s,
         NEW q, q = Join(p, s),
         NEW N, N = With(With(nodes, q, SetData(NewNode, data)), p, h)
  PROVE  /\ Extended(nodes, p, q, data, N)
         /\ Cardinality(DOMAIN N) = Cardinality(DOMAIN nodes) + 1
         /\ N[p] = h /\ q \in W /\ q \notin DOMAIN nodes /\ q # p
<1>1. PICK M : M = With(nodes, q, SetData(NewNode, data))
  OBVIOUS
<1>2. p \in W /\ q \in W /\ q # p
  <2>1. p \in W
    BY FormType
  <2>2. q \in W /\ Len(q) = Len(p) + Len(s) /\ Len(p) \in Nat /\ Len(s) \in Nat
    BY <2>1, JoinType, WordType
  <2> QED BY <2>1, <2>2
<1>3. /\ \A x : x \in DOMAIN M <=> x \in DOMAIN nodes \/ x = q
      /\ M[q] = SetData(NewNode, data)
      /\ \A x \in DOMAIN nodes : x # q => M[x] = nodes[x]
  BY ONLY <1>1, WithIs
<1>4. /\ \A x : x \in DOMAIN N <=> x \in DOMAIN M \/ x = p
      /\ N[p] = h
      /\ \A x \in DOMAIN M : x # p => N[x] = M[x]
      /\ IsFcn(N)
  BY <1>1, WithIs
<1>5. N[q] = SetData(NewNode, data)
  BY <1>2, <1>3, <1>4
<1>6. IsNode(N[q]) /\ Ordered(N[q]) /\ N[q].iskey /\ N[q].data = data /\ \A e : e \notin Edges(N[q])
  BY <1>5, LeafIs
<1>7. \A x : x \in DOMAIN N <=> x \in DOMAIN nodes \/ x = q
  BY <1>3, <1>4
<1>10. q \notin DOMAIN nodes
  <2>1. SUFFICES ASSUME q \in DOMAIN nodes PROVE FALSE
    OBVIOUS
  <2>2. Begins(p, q) /\ Begins(q, q) /\ Below(p, q)
    <3>1. Len(p) \in Nat /\ Len(s) \in Nat /\ Len(q) = Len(p) + Len(s)
      BY <1>2, JoinType, WordType
    <3>2. Begins(p, q) /\ Begins(q, q)
      BY <1>2, JoinBegins, BeginsOrder
    <3> QED BY <3>1, <3>2 DEF Below
  <2>3. PICK f \in Edges(nodes[p]) : Begins(Join(p, f), q)
    BY <2>1, <2>2, FormType
  <2>4. f \in W /\ Len(f) >= 1
    BY <2>3, FormType
  <2>5. q[Len(p) + 1] = f[1] /\ q[Len(p) + 1] = s[1]
    BY <1>2, <2>2, <2>3, <2>4, NextChar
  <2> QED BY <2>3, <2>5
<1>11. \A x \in DOMAIN nodes : x # p => N[x] = nodes[x]
  BY <1>3, <1>4, <1>10
<1>12. Form(N) /\ Cardinality(DOMAIN N) = Cardinality(DOMAIN nodes) + 1
  <2>1. IsNode(N[p]) /\ Ordered(N[p]) /\ \A f : f \in Edges(N[p]) <=> f \in Edges(nodes[p]) \/ f = s
    BY <1>4
  <2>2. IsFcn(N)
    BY <1>4
  <2>3. Changed(nodes, p, q, N)
    BY <1>6, <1>7, <1>11, <2>1, <2>2 DEF Changed
  <2>4. /\ \A f : f \in Edges(N[p]) <=> f \in Edges(nodes[p]) \/ f = s
        /\ \A f : f \notin Edges(N[q])
    BY <1>6, <2>1
  <2>5. /\ Form(nodes) /\ p \in DOMAIN nodes /\ s \in W /\ Len(s) >= 1
        /\ (\A f \in Edges(nodes[p]) : f[1] # s[1]) /\ q = Join(p, s)
    OBVIOUS
  <2> QED BY ONLY <2>3, <2>4, <2>5, NewLeaf
<1>13. \A x \in DOMAIN N : x # q => SameKey(nodes, N, x)
  BY <1>4, <1>7, <1>11 DEF SameKey
<1>14. Tight(N, q)
  BY <1>6 DEF Tight
<1> QED BY <1>2, <1>4, <1>6, <1>7, <1>10, <1>11, <1>12, <1>13, <1>14 DEF Extended

LEMMA TailIs ==
  ASSUME NEW s \in W, Len(s) >= 1, NEW c, c = <<s[1]>>
  PROVE  /\ c \in W /\ Len(c) = 1 /\ c[1] = s[1] /\ s[1] \in Nat
         /\ Tail(s) \in W /\ Len(Tail(s)) = Len(s) - 1 /\ Join(c, Tail(s)) = s
<1>1. s[1] \in Nat /\ Len(s) \in Nat /\ s # <<>>
  BY WordType
<1>2. c \in W /\ Len(c) = 1 /\ c[1] = s[1]
  BY <1>1 DEF W
<1>3. PICK t : t = Tail(s)
  OBVIOUS
<1>4. t \in W /\ Len(t) = Len(s) - 1 /\ \A i \in 1..(Len(s) - 1) : t[i] = s[i + 1]
  BY <1>1, <1>3, HeadTailProperties DEF W
<1>5. PICK x : x = Join(c, t)
  OBVIOUS
<1>6. /\ x \in W /\ Len(x) = Len(c) + Len(t) /\ \A i \in 1..Len(c) : x[i] = c[i]
      /\ \A i \in 1..Len(t) : x[Len(c) + i] = t[i]
  BY <1>2, <1>4, <1>5, JoinType, ZenonT(40)
<1>7. Len(x) = Len(s)
  BY <1>1, <1>2, <1>4, <1>6
<1>8. ASSUME NEW i \in 1..Len(x) PROVE x[i] = s[i]
  <2>1. i \in Nat /\ i >= 1 /\ i <= Len(s)
    BY <1>1, <1>7
  <2>2. CASE i = 1
    <3>1. 1 \in 1..Len(c)
      BY <1>2
    <3> QED BY <1>2, <1>6, <2>2, <3>1
  <2>3. CASE i > 1
    <3>1. PICK k : k = i - 1
      OBVIOUS
    <3>2. k \in 1..Len(t) /\ k \in 1..(Len(s) - 1) /\ Len(c) + k = i /\ k + 1 = i
      BY <1>1, <1>2, <1>4, <2>1, <2>3, <3>1
    <3>3. x[Len(c) + k] = t[k] /\ t[k] = s[k + 1]
      BY <1>4, <1>6, <3>2
    <3> QED BY <3>2, <3>3
  <2> QED BY <2>1, <2>2, <2>3
<1>9. x = s
  BY <1>6, <1>7, <1>8, SameWord
<1> QED BY <1>1, <1>2, <1>3, <1>4, <1>5, <1>9

(* A leaf two edges below, where its word shares no character.             *)
LEMMA ExtendByTwo ==
  ASSUME NEW nodes, Form(nodes), NEW p \in DOMAIN nodes, NEW s \in W, Len(s) > 1, NEW data \in Int,
         ~nodes[p].iscompr, \A f \in Edges(nodes[p]) : f[1] # s[1],
         NEW h, h = AddChild(nodes[p], s[1]), NEW m, m = Begin(NewNode, Tail(s)),
         NEW q, q = Join(p, s), NEW c, c = <<s[1]>>, NEW z, z = Join(p, c),
         NEW N, N = With(With(With(nodes, q, SetData(NewNode, data)), z, m), p, h)
  PROVE  /\ Extended(nodes, p, q, data, N)
         /\ Cardinality(DOMAIN N) = Cardinality(DOMAIN nodes) + 2
         /\ N[p] = h /\ q \in W /\ q \notin DOMAIN nodes
<1>t. PICK t : t = Tail(s)
  OBVIOUS
<1>1. Len(s) \in Nat /\ Len(s) >= 1 /\ Len(s) > 1
  BY WordType
<1>2. c \in W /\ Len(c) = 1 /\ c[1] = s[1] /\ s[1] \in Nat /\ t \in W /\ Len(t) = Len(s) - 1 /\ Join(c, t) = s /\ Len(t) >= 1
  BY <1>1, <1>t, TailIs
<1>3. p \in W /\ IsNode(nodes[p]) /\ Ordered(nodes[p]) /\ Len(p) \in Nat
  BY FormType, WordType
<1>4. /\ IsNode(h) /\ Ordered(h) /\ h.iskey = nodes[p].iskey /\ h.data = nodes[p].data
      /\ \A f : f \in Edges(h) <=> f \in Edges(nodes[p]) \/ f = c
  <2>1. h = AddChild(nodes[p], c[1]) /\ \A f \in Edges(nodes[p]) : f[1] # c[1]
    BY <1>2
  <2>2. PICK n : n = nodes[p]
    OBVIOUS
  <2>3. IsNode(n) /\ Ordered(n) /\ ~n.iscompr /\ h = AddChild(n, c[1]) /\ \A f \in Edges(n) : f[1] # c[1]
    BY <1>3, <2>1, <2>2
  <2>4. /\ IsNode(h) /\ Ordered(h) /\ h.iskey = n.iskey /\ h.data = n.data
        /\ \A f : f \in Edges(h) <=> f \in Edges(n) \/ f = c
    BY ONLY <1>2, <2>3, AddChildIs
  <2> QED BY <2>2, <2>4
<1>5. /\ IsNode(m) /\ Ordered(m) /\ m.iskey = NewNode.iskey /\ m.data = NewNode.data
      /\ \A f : f \in Edges(m) <=> f = t
  <2>1. IsNode(NewNode) /\ Ordered(NewNode) /\ NewNode.chars = <<>> /\ m = Begin(NewNode, t)
    BY <1>t, LeafIs
  <2> QED BY ONLY <1>2, <2>1, BeginIs
<1>6. /\ IsNode(NewNode) /\ Ordered(NewNode) /\ ~NewNode.iskey /\ \A e : e \notin Edges(NewNode)
  BY LeafIs
<1>7. PICK l : l = SetData(NewNode, data)
  OBVIOUS
<1>8. IsNode(l) /\ Ordered(l) /\ l.iskey /\ l.data = data /\ \A e : e \notin Edges(l)
  BY <1>7, LeafIs
<1>9. /\ z \in W /\ Len(z) = Len(p) + 1 /\ q \in W /\ Len(q) = Len(p) + Len(s) /\ q = Join(z, t)
  <2>1. q = Join(z, t)
    BY <1>2, <1>3, JoinJoin
  <2>2. z \in W /\ Len(z) = Len(p) + 1
    BY <1>2, <1>3, JoinType
  <2>3. q \in W /\ Len(q) = Len(p) + Len(s)
    BY <1>3, JoinType
  <2> QED BY <2>1, <2>2, <2>3
<1>10. z # p /\ q # p /\ q # z
  BY <1>1, <1>3, <1>9
<1>11. PICK A : A = With(nodes, q, l)
  OBVIOUS
<1>12. PICK B : B = With(A, z, m)
  OBVIOUS
<1>13. /\ \A x : x \in DOMAIN A <=> x \in DOMAIN nodes \/ x = q
       /\ A[q] = l /\ \A x \in DOMAIN nodes : x # q => A[x] = nodes[x]
  BY ONLY <1>11, WithIs
<1>14. /\ \A x : x \in DOMAIN B <=> x \in DOMAIN A \/ x = z
       /\ B[z] = m /\ \A x \in DOMAIN A : x # z => B[x] = A[x]
  BY ONLY <1>12, WithIs
<1>15. N = With(B, p, h)
  BY <1>7, <1>11, <1>12
<1>16. /\ \A x : x \in DOMAIN N <=> x \in DOMAIN B \/ x = p
       /\ N[p] = h /\ (\A x \in DOMAIN B : x # p => N[x] = B[x]) /\ IsFcn(N)
  BY ONLY <1>15, WithIs
<1>17. PICK C : C = With(nodes, z, NewNode)
  OBVIOUS
<1>18. PICK M : M = With(C, p, h)
  OBVIOUS
<1>19. /\ \A x : x \in DOMAIN C <=> x \in DOMAIN nodes \/ x = z
       /\ C[z] = NewNode /\ \A x \in DOMAIN nodes : x # z => C[x] = nodes[x]
  BY ONLY <1>17, WithIs
<1>20. /\ \A x : x \in DOMAIN M <=> x \in DOMAIN C \/ x = p
       /\ M[p] = h /\ (\A x \in DOMAIN C : x # p => M[x] = C[x]) /\ IsFcn(M)
  BY ONLY <1>18, WithIs
<1>21. z \notin DOMAIN nodes
  <2>1. SUFFICES ASSUME z \in DOMAIN nodes PROVE FALSE
    OBVIOUS
  <2>2. Begins(p, z) /\ Below(p, z) /\ Begins(z, z)
    <3>1. Begins(p, z) /\ Begins(z, z)
      BY <1>2, <1>3, <1>9, JoinBegins, BeginsOrder
    <3> QED BY <1>3, <1>9, <3>1 DEF Below
  <2>3. PICK f \in Edges(nodes[p]) : Begins(Join(p, f), z)
    BY <2>1, <2>2, FormType
  <2>4. f \in W /\ Len(f) >= 1
    BY <2>3, FormType
  <2>5. z[Len(p) + 1] = f[1]
    BY <1>3, <1>9, <2>3, <2>4, NextChar
  <2>6. z[Len(p) + 1] = c[1]
    BY <1>2, <1>3, <1>9, <2>2, NextChar
  <2> QED BY <1>2, <2>3, <2>5, <2>6
<1>22. M[z] = NewNode /\ \A x \in DOMAIN nodes : x # p => M[x] = nodes[x]
  BY <1>10, <1>19, <1>20, <1>21
<1>23. \A x : x \in DOMAIN M <=> x \in DOMAIN nodes \/ x = z
  BY <1>19, <1>20
<1>24. Form(M) /\ Cardinality(DOMAIN M) = Cardinality(DOMAIN nodes) + 1
  <2>1. Changed(nodes, p, z, M)
    BY <1>4, <1>6, <1>20, <1>22, <1>23 DEF Changed
  <2>2. (\A f : f \in Edges(M[p]) <=> f \in Edges(nodes[p]) \/ f = c) /\ \A f : f \notin Edges(M[z])
    BY <1>4, <1>6, <1>20, <1>22
  <2>3. \A f \in Edges(nodes[p]) : f[1] # c[1]
    BY <1>2
  <2>4. Len(c) >= 1
    BY <1>2
  <2> QED BY <1>2, <2>1, <2>2, <2>3, <2>4, NewLeaf
<1>25. q \notin DOMAIN M
  <2>1. SUFFICES ASSUME q \in DOMAIN M PROVE FALSE
    OBVIOUS
  <2>2. z \in DOMAIN M /\ \A f : f \notin Edges(M[z])
    BY <1>6, <1>22, <1>23
  <2>3. Begins(z, q)
    BY <1>2, <1>9, JoinBegins
  <2>4. Below(z, q)
    BY <1>1, <1>3, <1>9, <2>3 DEF Below
  <2> QED BY <1>24, <2>1, <2>2, <2>4, FormType
<1>26. \A x : x \in DOMAIN N <=> x \in DOMAIN M \/ x = q
  BY <1>13, <1>14, <1>16, <1>23
<1>27. N[z] = m /\ N[q] = l /\ \A x \in DOMAIN nodes : x # p => N[x] = nodes[x]
  <2>1. N[z] = m
    BY <1>10, <1>14, <1>16
  <2>2. N[q] = l
    BY <1>10, <1>13, <1>14, <1>16
  <2>3. ASSUME NEW x \in DOMAIN nodes, x # p PROVE N[x] = nodes[x]
    <3>1. x # q /\ x # z
      BY <1>21, <1>23, <1>25
    <3> QED BY <1>13, <1>14, <1>16, <2>3, <3>1
  <2> QED BY <2>1, <2>2, <2>3
<1>28. \A x \in DOMAIN M : x # z => N[x] = M[x]
  BY <1>16, <1>20, <1>22, <1>23, <1>27
<1>29. Form(N) /\ Cardinality(DOMAIN N) = Cardinality(DOMAIN M) + 1
  <2>1. Changed(M, z, q, N)
    BY <1>5, <1>8, <1>16, <1>26, <1>27, <1>28 DEF Changed
  <2>2. (\A f : f \in Edges(N[z]) <=> f \in Edges(M[z]) \/ f = t) /\ \A f : f \notin Edges(N[q])
    BY <1>5, <1>6, <1>8, <1>22, <1>27
  <2>3. \A f \in Edges(M[z]) : f[1] # t[1]
    BY <1>6, <1>22
  <2>4. z \in DOMAIN M
    BY <1>23
  <2>5. Form(M) /\ t \in W /\ Len(t) >= 1 /\ q = Join(z, t)
    BY <1>2, <1>9, <1>24
  <2> QED BY ONLY <2>1, <2>2, <2>3, <2>4, <2>5, NewLeaf
<1>30. Cardinality(DOMAIN N) = Cardinality(DOMAIN nodes) + 2
  <2>1. Cardinality(DOMAIN nodes) \in Nat
    BY FS_CardinalityType DEF Form
  <2> QED BY <1>24, <1>29, <2>1
<1>31. \A x \in DOMAIN N : x # q => SameKey(nodes, N, x)
  <2>1. SUFFICES ASSUME NEW x \in DOMAIN N, x # q PROVE SameKey(nodes, N, x)
    OBVIOUS
  <2>2. CASE x = z
    BY <1>5, <1>6, <1>21, <1>27, <2>2 DEF SameKey
  <2>3. CASE x = p
    BY <1>4, <1>16, <2>3 DEF SameKey
  <2>4. CASE x # z /\ x # p
    BY <1>23, <1>26, <1>27, <2>1, <2>4 DEF SameKey
  <2> QED BY <2>2, <2>3, <2>4
<1>32. Tight(N, q) /\ Tight(N, z)
  <2>1. Tight(N, q)
    BY <1>8, <1>27 DEF Tight
  <2>2. Solid(N[Join(z, t)])
    BY <1>8, <1>9, <1>27 DEF Solid
  <2>3. Tight(N, z)
    BY <1>5, <1>27, <2>2 DEF Tight
  <2> QED BY <2>1, <2>3
<1>33. \A x \in DOMAIN N : x \notin DOMAIN nodes => Tight(N, x)
  BY <1>23, <1>26, <1>32
<1>34. q \notin DOMAIN nodes
  BY <1>23, <1>25
<1>35. \A x \in DOMAIN nodes : x \in DOMAIN N /\ (x # p => N[x] = nodes[x])
  BY <1>23, <1>26, <1>27
<1>36. q \in DOMAIN N /\ N[q].iskey /\ N[q].data = data
  BY <1>8, <1>26, <1>27
<1>37. Extended(nodes, p, q, data, N)
  BY <1>29, <1>31, <1>33, <1>35, <1>36 DEF Extended
<1> QED BY <1>9, <1>16, <1>30, <1>34, <1>37

(* A node whose edges are what they were stays tight and solid.            *)
LEMMA StaysTight ==
  ASSUME NEW nodes, Form(nodes), NEW N, \A x \in DOMAIN nodes : Solid(nodes[x]) => Solid(N[x]),
         NEW x \in DOMAIN nodes, N[x].iskey <=> nodes[x].iskey,
         \A e : e \in Edges(N[x]) <=> e \in Edges(nodes[x]), Tight(nodes, x)
  PROVE  Tight(N, x)
<1>1. \A e \in Edges(nodes[x]) : Join(x, e) \in DOMAIN nodes
  BY FormType
<1> QED BY <1>1 DEF Tight

LEMMA StaysSolid ==
  ASSUME NEW n, NEW m, n.iskey => m.iskey, \A e \in Edges(n) : e \in Edges(m), Solid(n)
  PROVE  Solid(m)
BY DEF Solid, Branches

(* What Extend asks of the node it is called for.                          *)
CanExtend(h, s) ==
  s # <<>> /\ h.chars # <<>> => ~h.iscompr /\ \A f \in Edges(h) : f[1] # s[1]

(* What an extension keeps of the shape of a tree.                         *)
StillTight(nodes, p, N) ==
  /\ \A x \in DOMAIN nodes : Solid(nodes[x]) => Solid(N[x])
  /\ \A x \in DOMAIN nodes : x # p /\ Tight(nodes, x) => Tight(N, x)

(* A node has no edges if it has no characters.                            *)
LEMMA EdgesOrNone ==
  ASSUME NEW h, IsNode(h), Ordered(h)
  PROVE  h.chars = <<>> <=> \A e : e \notin Edges(h)
BY EdgeType

(* An extension takes no key and no edge away.                             *)
LEMMA StillTightIs ==
  ASSUME NEW nodes, Form(nodes), NEW p \in DOMAIN nodes, NEW N,
         \A x \in DOMAIN nodes : x # p => N[x] = nodes[x],
         nodes[p].iskey => N[p].iskey, \A e \in Edges(nodes[p]) : e \in Edges(N[p])
  PROVE  StillTight(nodes, p, N)
<1>1. \A x \in DOMAIN nodes : Solid(nodes[x]) => Solid(N[x])
  BY StaysSolid
<1>2. \A x \in DOMAIN nodes : x # p /\ Tight(nodes, x) => Tight(N, x)
  BY <1>1, StaysTight
<1> QED BY <1>1, <1>2 DEF StillTight

(* Extend puts data at the word it is given, adds the nodes it counts, and *)
(* leaves the tree tight (raxGenericInsert, 847-884).                      *)
LEMMA ExtendIs ==
  ASSUME NEW nodes, Form(nodes), NEW p \in DOMAIN nodes, NEW s \in W, NEW data \in Int,
         CanExtend(nodes[p], s), NEW q, q = Join(p, s), NEW N, N = Extend(nodes, p, s, data)
  PROVE  /\ Extended(nodes, p, q, data, N)
         /\ Cardinality(DOMAIN N) = Cardinality(DOMAIN nodes) + NodesAdded(nodes[p], s)
         /\ StillTight(nodes, p, N)
         /\ s = <<>> => (Tight(nodes, p) => Tight(N, p))
         /\ s # <<>> => Tight(N, p)
         /\ s # <<>> /\ nodes[p].chars # <<>> => Branches(N[p])
<1>h. PICK h : h = nodes[p]
  OBVIOUS
<1>1. p \in W /\ IsNode(h) /\ Ordered(h)
  BY <1>h, FormType
<1>2. /\ Len(s) \in Nat /\ (s = <<>> <=> Len(s) = 0) /\ (s # <<>> => Len(s) >= 1)
      /\ Cardinality(DOMAIN nodes) \in Nat
  <2>1. Len(s) \in Nat /\ (s = <<>> <=> Len(s) = 0)
    BY WordType
  <2>2. Len(s) # 0 => Len(s) >= 1
    BY <2>1
  <2> QED BY <2>1, <2>2, FS_CardinalityType DEF Form
<1>3. h.chars = <<>> <=> \A e : e \notin Edges(h)
  BY <1>1, EdgesOrNone
<1>4. CASE s = <<>>
  <2>1. q = p
    BY <1>1, <1>4, NoChars
  <2>2. N = With(nodes, p, SetData(nodes[p], data))
    BY <1>4 DEF Extend
  <2>3. /\ Extended(nodes, p, p, data, N)
        /\ Cardinality(DOMAIN N) = Cardinality(DOMAIN nodes)
        /\ \A e : e \in Edges(N[p]) <=> e \in Edges(nodes[p])
    BY ONLY <2>2, ExtendByNone, Form(nodes), p \in DOMAIN nodes, data \in Int
  <2>4. NodesAdded(nodes[p], s) = 0
    BY <1>4 DEF NodesAdded
  <2>5. N[p].iskey /\ \A x \in DOMAIN nodes : x # p => N[x] = nodes[x]
    BY <2>3 DEF Extended
  <2>6. StillTight(nodes, p, N)
    BY <2>3, <2>5, StillTightIs
  <2>7. Tight(nodes, p) => Tight(N, p)
    <3>1. \A e \in Edges(nodes[p]) : Join(p, e) \in DOMAIN nodes
      BY FormType
    <3> QED BY <2>3, <2>5, <2>6, <3>1 DEF Tight, StillTight
  <2> QED BY <1>2, <1>4, <2>1, <2>3, <2>4, <2>6, <2>7
<1>5. CASE s # <<>> /\ (h.chars = <<>> \/ Len(s) = 1)
  <2>1. PICK m : m = IF h.chars = <<>> THEN Begin(h, s) ELSE AddChild(h, s[1])
    OBVIOUS
  <2>2. \A f \in Edges(h) : f[1] # s[1]
    BY <1>3, <1>5, <1>h DEF CanExtend
  <2>3. /\ IsNode(m) /\ Ordered(m) /\ m.iskey = h.iskey /\ m.data = h.data
        /\ \A f : f \in Edges(m) <=> f \in Edges(h) \/ f = s
    <3>1. CASE h.chars = <<>>
      <4>1. m = Begin(h, s) /\ Len(s) >= 1 /\ s \in W
        BY <1>2, <1>5, <2>1, <3>1
      <4>2. /\ IsNode(m) /\ Ordered(m) /\ m.iskey = h.iskey /\ m.data = h.data
            /\ \A f : f \in Edges(m) <=> f = s
        BY ONLY <1>1, <3>1, <4>1, BeginIs
      <4> QED BY <1>3, <3>1, <4>2
    <3>2. CASE h.chars # <<>>
      <4>1. m = AddChild(h, s[1]) /\ Len(s) = 1 /\ s \in W /\ ~h.iscompr
        BY <1>5, <1>h, <2>1, <3>2 DEF CanExtend
      <4> QED BY ONLY <1>1, <2>2, <4>1, AddChildIs
    <3> QED BY <3>1, <3>2
  <2>4. N = With(With(nodes, q, SetData(NewNode, data)), p, m)
    <3>1. N = Extend(nodes, p, s, data) /\ q = p \o s
      BY DEF Join
    <3>2. CASE h.chars = <<>>
      <4>1. N = With(With(nodes, p \o s, SetData(NewNode, data)), p, Begin(h, s))
        BY <1>5, <1>h, <3>2 DEF Extend
      <4> QED BY <2>1, <3>1, <3>2, <4>1
    <3>3. CASE h.chars # <<>>
      <4>1. N = With(With(nodes, p \o s, SetData(NewNode, data)), p, AddChild(h, s[1]))
        BY <1>5, <1>h, <3>3 DEF Extend
      <4> QED BY <2>1, <3>1, <3>3, <4>1
    <3> QED BY <3>2, <3>3
  <2>5. /\ m.iskey = nodes[p].iskey /\ m.data = nodes[p].data
        /\ (\A f : f \in Edges(m) <=> f \in Edges(nodes[p]) \/ f = s)
        /\ (\A f \in Edges(nodes[p]) : f[1] # s[1])
    BY <1>h, <2>2, <2>3
  <2>6. Form(nodes) /\ p \in DOMAIN nodes /\ s \in W /\ Len(s) >= 1 /\ data \in Int /\ q = Join(p, s) /\ IsNode(m) /\ Ordered(m)
    BY <1>2, <1>5, <2>3
  <2>7. /\ Extended(nodes, p, q, data, N)
        /\ Cardinality(DOMAIN N) = Cardinality(DOMAIN nodes) + 1
        /\ N[p] = m /\ q \in W /\ q \notin DOMAIN nodes
    BY ONLY <2>4, <2>5, <2>6, ExtendByOne
  <2>8. NodesAdded(nodes[p], s) = 1
    BY <1>5, <1>h DEF NodesAdded
  <2>9. \A x \in DOMAIN nodes : x # p => N[x] = nodes[x]
    BY <2>7 DEF Extended
  <2>10. StillTight(nodes, p, N)
    BY <2>3, <2>5, <2>7, <2>9, StillTightIs
  <2>11. Solid(N[Join(p, s)])
    BY <2>7 DEF Extended, Solid
  <2>12. nodes[p].chars # <<>> => Branches(N[p])
    <3>1. SUFFICES ASSUME nodes[p].chars # <<>> PROVE Branches(N[p])
      OBVIOUS
    <3>2. PICK e : e \in Edges(h)
      BY <1>3, <1>h, <3>1
    <3>3. e # s /\ e \in Edges(m) /\ s \in Edges(m)
      BY <2>2, <2>3, <3>2
    <3> QED BY <2>7, <3>3 DEF Branches
  <2>13. Tight(N, p)
    <3>1. CASE h.chars = <<>>
      BY <1>3, <2>3, <2>7, <2>11, <3>1 DEF Tight
    <3>2. CASE h.chars # <<>>
      BY <1>h, <2>12, <3>2 DEF Tight, Branches
    <3> QED BY <3>1, <3>2
  <2> QED BY <1>5, <2>7, <2>8, <2>10, <2>12, <2>13
<1>6. CASE s # <<>> /\ h.chars # <<>> /\ Len(s) # 1
  <2>1. ~nodes[p].iscompr /\ (\A f \in Edges(nodes[p]) : f[1] # s[1]) /\ Len(s) > 1
    <3>1. Len(s) \in Nat /\ Len(s) >= 1 /\ Len(s) # 1
      BY <1>2, <1>6
    <3>2. Len(s) > 1
      <4>1. \A k \in Nat : k >= 1 /\ k # 1 => k > 1
        OBVIOUS
      <4> QED BY ONLY <3>1, <4>1
    <3>3. ~nodes[p].iscompr /\ \A f \in Edges(nodes[p]) : f[1] # s[1]
      <4>1. CanExtend(h, s)
        BY <1>h
      <4>2. ~h.iscompr /\ \A f \in Edges(h) : f[1] # s[1]
        BY ONLY <1>6, <4>1 DEF CanExtend
      <4> QED BY ONLY <1>h, <4>2
    <3> QED BY <3>2, <3>3
  <2>2. PICK m : m = Begin(NewNode, Tail(s))
    OBVIOUS
  <2>3. PICK a : a = AddChild(nodes[p], s[1])
    OBVIOUS
  <2>4. PICK c : c = <<s[1]>>
    OBVIOUS
  <2>5. PICK z : z = Join(p, c)
    OBVIOUS
  <2>6. N = With(With(With(nodes, q, SetData(NewNode, data)), z, m), p, a)
    <3>1. q = p \o s /\ z = p \o <<s[1]>>
      BY <2>4, <2>5 DEF Join
    <3>2. N = With(With(With(nodes, p \o s, SetData(NewNode, data)), p \o <<s[1]>>, Begin(NewNode, Tail(s))),
                   p, AddChild(nodes[p], s[1]))
      BY <1>6, <1>h DEF Extend
    <3> QED BY <2>2, <2>3, <3>1, <3>2
  <2>7. /\ Extended(nodes, p, q, data, N)
        /\ Cardinality(DOMAIN N) = Cardinality(DOMAIN nodes) + 2
        /\ N[p] = a /\ q \in W /\ q \notin DOMAIN nodes
    <3>1. Form(nodes) /\ p \in DOMAIN nodes /\ s \in W /\ data \in Int /\ q = Join(p, s)
      OBVIOUS
    <3> QED BY ONLY <2>1, <2>2, <2>3, <2>4, <2>5, <2>6, <3>1, ExtendByTwo
  <2>8. NodesAdded(nodes[p], s) = 2
    BY <1>6, <1>h DEF NodesAdded
  <2>9. \A x \in DOMAIN nodes : x # p => N[x] = nodes[x]
    BY <2>7 DEF Extended
  <2>10. c \in W /\ Len(c) = 1 /\ c[1] = s[1]
    BY <1>2, <1>6, <2>4, TailIs
  <2>11. /\ IsNode(a) /\ Ordered(a) /\ a.iskey = h.iskey
         /\ \A f : f \in Edges(a) <=> f \in Edges(h) \/ f = c
    <3>1. a = AddChild(h, c[1]) /\ ~h.iscompr /\ \A f \in Edges(h) : f[1] # c[1]
      BY <1>h, <2>1, <2>3, <2>10
    <3> QED BY ONLY <1>1, <2>10, <3>1, AddChildIs
  <2>12. StillTight(nodes, p, N)
    BY <1>h, <2>7, <2>9, <2>11, StillTightIs
  <2>13. Branches(N[p])
    <3>1. PICK e : e \in Edges(h)
      BY <1>3, <1>6
    <3>2. e # c /\ e \in Edges(a) /\ c \in Edges(a)
      BY <1>h, <2>1, <2>10, <2>11, <3>1
    <3> QED BY <2>7, <3>2 DEF Branches
  <2>14. Tight(N, p)
    BY <2>13 DEF Tight, Branches
  <2> QED BY <1>6, <2>7, <2>8, <2>12, <2>13, <2>14
<1> QED BY <1>4, <1>5, <1>6

-----------------------------------------------------------------------------
(***************************************************************************)
(* 4. Cutting and splitting an edge.                                       *)
(***************************************************************************)

(* An edge cut in two at a node q that is neither a key nor branches.      *)
Cut(nodes, p, j, q, M) ==
  /\ Changed(nodes, p, q, M)
  /\ \A e : e \in Edges(M[p]) <=> e = Upto(nodes[p].chars, j)
  /\ \A e : e \in Edges(M[q]) <=> e = Rest(nodes[p].chars, j)
  /\ M[p].iskey <=> nodes[p].iskey
  /\ M[p].iskey => M[p].data = nodes[p].data
  /\ ~M[q].iskey

AllTightBut(nodes, x0) == \A x \in DOMAIN nodes : x # x0 => Tight(nodes, x)

(* After a cut only the two nodes at its ends may not be tight.            *)
LEMMA CutTight ==
  ASSUME NEW nodes, Form(nodes), NEW p \in DOMAIN nodes, nodes[p].iscompr,
         NEW j \in 1..(Len(nodes[p].chars) - 1), NEW q, q = Join(p, Upto(nodes[p].chars, j)), q \notin DOMAIN nodes,
         NEW M, Cut(nodes, p, j, q, M), NEW x0, AllTightBut(nodes, x0), Tight(nodes, p),
         NEW x \in DOMAIN M, x # p, x # x0
  PROVE  Tight(M, x)
<1>c. PICK c : c = nodes[p].chars
  OBVIOUS
<1>1. /\ (\A y : y \in DOMAIN M <=> y \in DOMAIN nodes \/ y = q)
      /\ (\A y \in DOMAIN nodes : y # p => M[y] = nodes[y])
      /\ (\A e : e \in Edges(M[p]) <=> e = Upto(c, j))
      /\ (\A e : e \in Edges(M[q]) <=> e = Rest(c, j))
      /\ (M[p].iskey <=> nodes[p].iskey)
  BY <1>c DEF Cut, Changed
<1>2. \A e : e \in Edges(nodes[p]) <=> e = c
  BY <1>c, FormType, EdgeType
<1>3. p \in W /\ c \in W /\ j \in 0..Len(c)
  <2>1. p \in W /\ c \in W
    BY <1>c, FormType
  <2>2. Len(c) \in Nat /\ j \in 1..(Len(c) - 1)
    BY <1>c, <2>1, WordType
  <2> QED BY <2>1, <2>2
<1>4. \A y \in DOMAIN nodes : Solid(nodes[y]) => Solid(M[y])
  <2>1. ~Branches(nodes[p])
    BY <1>2 DEF Branches
  <2>2. Solid(nodes[p]) => Solid(M[p])
    BY <1>1, <2>1 DEF Solid
  <2> QED BY <1>1, <2>2
<1>5. CASE x # q
  <2>1. x \in DOMAIN nodes /\ M[x] = nodes[x] /\ Tight(nodes, x)
    BY <1>1, <1>5 DEF AllTightBut
  <2> QED BY <1>4, <2>1, StaysTight
<1>6. CASE x = q
  <2>1. Join(q, Rest(c, j)) = Join(p, c)
    BY <1>3, <1>c, CutWord
  <2>2. Solid(nodes[Join(p, c)]) /\ Join(p, c) \in DOMAIN nodes
    BY <1>2, FormType DEF Tight
  <2>3. Solid(M[Join(q, Rest(c, j))])
    BY <1>4, <2>1, <2>2
  <2> QED BY <1>1, <1>6, <2>3 DEF Tight
<1> QED BY <1>5, <1>6

(* A cut keeps every key and adds one node.                                *)
LEMMA CutIs ==
  ASSUME NEW nodes, Form(nodes), NEW p \in DOMAIN nodes, nodes[p].iscompr,
         NEW j \in 1..(Len(nodes[p].chars) - 1), NEW q, q = Join(p, Upto(nodes[p].chars, j)),
         NEW M, Cut(nodes, p, j, q, M)
  PROVE  /\ q \in W /\ q \notin DOMAIN nodes /\ q # p
         /\ Form(M) /\ Cardinality(DOMAIN M) = Cardinality(DOMAIN nodes) + 1
         /\ \A x \in DOMAIN M : SameKey(nodes, M, x)
         /\ \A x : x \in DOMAIN M <=> x \in DOMAIN nodes \/ x = q
         /\ \A x \in DOMAIN nodes : x # p => M[x] = nodes[x]
         /\ \A x0 : AllTightBut(nodes, x0) /\ Tight(nodes, p) =>
                      \A x \in DOMAIN M : x # p /\ x # x0 => Tight(M, x)
<1>1. /\ Changed(nodes, p, q, M)
      /\ (\A e : e \in Edges(M[p]) <=> e = Upto(nodes[p].chars, j))
      /\ (\A e : e \in Edges(M[q]) <=> e = Rest(nodes[p].chars, j))
  BY DEF Cut
<1>2. /\ q \in W /\ q \notin DOMAIN nodes /\ q # p
      /\ Form(M) /\ Cardinality(DOMAIN M) = Cardinality(DOMAIN nodes) + 1
  <2>1. PICK c : c = nodes[p].chars
    OBVIOUS
  <2>2. /\ j \in 1..(Len(c) - 1) /\ q = Join(p, Upto(c, j))
        /\ (\A e : e \in Edges(M[p]) <=> e = Upto(c, j))
        /\ (\A e : e \in Edges(M[q]) <=> e = Rest(c, j))
    BY <1>1, <2>1
  <2>3. /\ q \in W /\ q \notin DOMAIN nodes
        /\ Form(M) /\ Cardinality(DOMAIN M) = Cardinality(DOMAIN nodes) + 1
    BY <1>1, <2>1, <2>2, CutEdge
  <2> QED BY <2>3
<1>3. /\ (\A x : x \in DOMAIN M <=> x \in DOMAIN nodes \/ x = q)
      /\ (\A x \in DOMAIN nodes : x # p => M[x] = nodes[x])
  BY <1>1 DEF Changed
<1>4. \A x \in DOMAIN M : SameKey(nodes, M, x)
  <2>1. SameKey(nodes, M, p)
    BY DEF Cut, SameKey
  <2>2. SameKey(nodes, M, q)
    BY <1>2 DEF Cut, SameKey
  <2>3. ASSUME NEW x \in DOMAIN M, x # p, x # q PROVE SameKey(nodes, M, x)
    <3>1. x \in DOMAIN nodes /\ M[x] = nodes[x]
      BY <1>3, <2>3
    <3> QED BY <3>1 DEF SameKey
  <2> QED BY <2>1, <2>2, <2>3
<1>5. \A x0 : AllTightBut(nodes, x0) /\ Tight(nodes, p) =>
                \A x \in DOMAIN M : x # p /\ x # x0 => Tight(M, x)
  BY <1>2, CutTight
<1> QED BY <1>2, <1>3, <1>4, <1>5

(* The pieces of a compressed node: before the position of the mismatch,   *)
(* after it, and the node for the character that differs.                  *)
LEMMA BeginningType ==
  ASSUME NEW h, IsNode(h), NEW j \in Nat, NEW b \in W, b = Upto(h.chars, j)
  PROVE  /\ IsNode(Beginning(h, j)) /\ (Beginning(h, j).iskey <=> h.iskey) /\ Beginning(h, j).data = h.data
         /\ Beginning(h, j).chars = b /\ (Beginning(h, j).iscompr <=> j > 1)
<1>1. PICK n : n = Beginning(h, j)
  OBVIOUS
<1>2. h.iskey \in BOOLEAN /\ h.data \in Int
  BY DEF IsNode
<1>3. n = [iskey |-> h.iskey, data |-> h.data, iscompr |-> j > 1, chars |-> b]
  BY <1>1 DEF Beginning, Node
<1>4. IsNode(n)
  BY <1>2, <1>3 DEF IsNode
<1>5. (n.iskey <=> h.iskey) /\ n.data = h.data /\ n.chars = b
  BY <1>2, <1>3
<1>6. n.iscompr <=> j > 1
  BY <1>2, <1>3
<1> QED BY <1>1, <1>4, <1>5, <1>6

LEMMA PostfixType ==
  ASSUME NEW h, IsNode(h), NEW j \in Nat, NEW b \in W, b = Rest(h.chars, j)
  PROVE  /\ IsNode(Postfix(h, j)) /\ ~Postfix(h, j).iskey
      /\ Postfix(h, j).chars = b /\ (Postfix(h, j).iscompr <=> Len(h.chars) - j > 1)
<1>1. PICK n : n = Postfix(h, j)
  OBVIOUS
<1>3. n = [iskey |-> FALSE, data |-> 0, iscompr |-> Len(h.chars) - j > 1, chars |-> b]
  BY <1>1 DEF Postfix, Node, NoData
<1>4. IsNode(n)
  BY <1>3 DEF IsNode
<1>5. ~n.iskey /\ n.chars = b
  BY <1>3
<1>6. n.iscompr <=> Len(h.chars) - j > 1
  BY <1>3
<1> QED BY <1>1, <1>4, <1>5, <1>6

LEMMA SplitNodeType ==
  ASSUME NEW h, IsNode(h), NEW j \in Nat, NEW s \in W, s = <<h.chars[j + 1]>>
  PROVE  /\ IsNode(SplitNode(h, j)) /\ SplitNode(h, j).chars = s /\ ~SplitNode(h, j).iscompr
         /\ (SplitNode(h, j).iskey <=> j = 0 /\ h.iskey) /\ (j = 0 => SplitNode(h, j).data = h.data)
<1>1. PICK n : n = SplitNode(h, j)
  OBVIOUS
<1>2. h.iskey \in BOOLEAN /\ h.data \in Int
  BY DEF IsNode
<1>3. n = [iskey |-> (j = 0 /\ h.iskey), data |-> IF j = 0 THEN h.data ELSE 0, iscompr |-> FALSE, chars |-> s]
  BY <1>1 DEF SplitNode, Node, NoData
<1>4. IsNode(n)
  BY <1>2, <1>3 DEF IsNode
<1>5. ~n.iscompr /\ n.chars = s
  BY <1>3
<1>6. n.iskey <=> j = 0 /\ h.iskey
  BY <1>3
<1>7. j = 0 => n.data = h.data
  BY <1>3
<1> QED BY <1>1, <1>4, <1>5, <1>6, <1>7

LEMMA PiecesAre ==
  ASSUME NEW h, IsNode(h), Len(h.chars) > 1, NEW j \in 1..(Len(h.chars) - 1)
  PROVE  /\ IsNode(Beginning(h, j)) /\ Ordered(Beginning(h, j))
         /\ (Beginning(h, j).iskey <=> h.iskey) /\ Beginning(h, j).data = h.data
         /\ \A e : e \in Edges(Beginning(h, j)) <=> e = Upto(h.chars, j)
         /\ IsNode(Postfix(h, j)) /\ Ordered(Postfix(h, j)) /\ ~Postfix(h, j).iskey
         /\ Postfix(h, j).chars = Rest(h.chars, j)
         /\ (Postfix(h, j).iscompr <=> Len(h.chars) - j > 1)
         /\ \A e : e \in Edges(Postfix(h, j)) <=> e = Rest(h.chars, j)
<1>c. PICK c : c = h.chars
  OBVIOUS
<1>1. c \in W /\ Len(c) \in Nat /\ j \in 1..(Len(c) - 1) /\ h.iskey \in BOOLEAN /\ h.data \in Int
  BY <1>c, WordType DEF IsNode
<1>2. j \in 0..Len(c) /\ j >= 1 /\ Len(c) - j >= 1 /\ j \in Nat
  BY <1>1
<1>3. PICK b : b = Upto(c, j)
  OBVIOUS
<1>4. PICK r : r = Rest(c, j)
  OBVIOUS
<1>5. b \in W /\ Len(b) = j /\ r \in W /\ Len(r) = Len(c) - j
  BY <1>1, <1>2, <1>3, <1>4, UptoType, RestType
<1>6. /\ IsNode(Beginning(h, j)) /\ (Beginning(h, j).iskey <=> h.iskey) /\ Beginning(h, j).data = h.data
      /\ Beginning(h, j).chars = b /\ (Beginning(h, j).iscompr <=> j > 1)
  BY <1>2, <1>3, <1>5, <1>c, BeginningType
<1>7. /\ IsNode(Postfix(h, j)) /\ ~Postfix(h, j).iskey
      /\ Postfix(h, j).chars = r /\ (Postfix(h, j).iscompr <=> Len(c) - j > 1)
  BY <1>2, <1>4, <1>5, <1>c, PostfixType
<1>8. Ordered(Beginning(h, j)) /\ \A e : e \in Edges(Beginning(h, j)) <=> e = b
  <2>1. PICK n : n = Beginning(h, j)
    OBVIOUS
  <2>2. IsNode(n) /\ n.chars = b /\ (n.iscompr <=> Len(n.chars) > 1) /\ Len(n.chars) >= 1
    BY <1>2, <1>5, <1>6, <2>1
  <2>3. Ordered(n) /\ \A e : e \in Edges(n) <=> e = n.chars
    BY <2>2, OneEdge
  <2> QED BY <2>1, <2>2, <2>3
<1>9. Ordered(Postfix(h, j)) /\ \A e : e \in Edges(Postfix(h, j)) <=> e = r
  <2>1. PICK n : n = Postfix(h, j)
    OBVIOUS
  <2>2. IsNode(n) /\ n.chars = r /\ (n.iscompr <=> Len(n.chars) > 1) /\ Len(n.chars) >= 1
    BY <1>2, <1>5, <1>7, <2>1
  <2>3. Ordered(n) /\ \A e : e \in Edges(n) <=> e = n.chars
    BY <2>2, OneEdge
  <2> QED BY <2>1, <2>2, <2>3
<1> QED BY <1>3, <1>4, <1>6, <1>7, <1>8, <1>9, <1>c

LEMMA SplitNodeIs ==
  ASSUME NEW h, IsNode(h), NEW j \in 0..(Len(h.chars) - 1), NEW n, n = SplitNode(h, j)
  PROVE  /\ IsNode(n) /\ Ordered(n) /\ ~n.iscompr /\ n.chars # <<>>
         /\ \A e : e \in Edges(n) <=> e = Upto(Rest(h.chars, j), 1)
         /\ n.iskey <=> j = 0 /\ h.iskey
         /\ n.iskey => n.data = h.data
<1>c. PICK c : c = h.chars
  OBVIOUS
<1>1. c \in W /\ Len(c) \in Nat /\ j \in 0..(Len(c) - 1) /\ h.iskey \in BOOLEAN /\ h.data \in Int
  BY <1>c, WordType DEF IsNode
<1>2. j \in 0..Len(c) /\ Len(c) - j >= 1 /\ j + 1 \in 1..Len(c) /\ 1 \in 1..(Len(c) - j)
  BY <1>1
<1>3. c[j + 1] \in Nat
  BY <1>1, <1>2, WordType
<1>4. PICK s : s = <<c[j + 1]>>
  OBVIOUS
<1>5. s \in W /\ Len(s) = 1 /\ s[1] = c[j + 1]
  BY <1>3, <1>4 DEF W
<1>6. PICK r : r = Rest(c, j)
  OBVIOUS
<1>7. r \in W /\ Len(r) = Len(c) - j /\ \A i \in 1..(Len(c) - j) : r[i] = c[j + i]
  BY <1>1, <1>2, <1>6, RestType
<1>8. PICK u : u = Upto(r, 1)
  OBVIOUS
<1>9. u \in W /\ Len(u) = 1 /\ \A k \in 1..1 : u[k] = r[k]
  <2>1. 1 \in 0..Len(r)
    BY <1>2, <1>7
  <2> QED BY <1>7, <1>8, <2>1, UptoType
<1>10. u[1] = c[j + 1]
  <2>1. 1 \in 1..1
    OBVIOUS
  <2>2. r[1] = c[j + 1]
    BY <1>2, <1>7
  <2> QED BY <1>9, <2>1, <2>2
<1>11. s = u
  BY <1>5, <1>9, <1>10, SameWord
<1>12. /\ IsNode(n) /\ n.chars = s /\ ~n.iscompr /\ (n.iskey <=> j = 0 /\ h.iskey) /\ (j = 0 => n.data = h.data)
  <2>1. j \in Nat
    BY <1>1
  <2> QED BY <2>1, <1>4, <1>5, <1>c, SplitNodeType
<1>13. Len(n.chars) >= 1 /\ (n.iscompr <=> Len(n.chars) > 1)
  <2>1. Len(n.chars) = 1 /\ ~n.iscompr
    BY <1>5, <1>12
  <2> QED BY <2>1
<1>14. Ordered(n) /\ \A e : e \in Edges(n) <=> e = n.chars
  BY <1>12, <1>13, OneEdge
<1>18. n.chars # <<>>
  BY <1>5, <1>12, WordType
<1> QED BY <1>6, <1>8, <1>11, <1>12, <1>14, <1>18, <1>c

(* What a cut or a split makes of a tree: the tree is as good as before    *)
(* but for the two nodes at p and at, which an extension at the second     *)
(* puts in order.                                                          *)
Opened(nodes, p, at, M) ==
  /\ Form(M) /\ at \in DOMAIN M
  /\ \A x \in DOMAIN nodes : x \in DOMAIN M
  /\ \A x \in DOMAIN M : SameKey(nodes, M, x)
  /\ (\A x \in DOMAIN nodes : Tight(nodes, x)) => \A x \in DOMAIN M : x # p /\ x # at => Tight(M, x)
  /\ p # at => (\A e \in Edges(M[p]) : Join(p, e) = at) /\ (\E e : e \in Edges(M[p]))

(* Putting two nodes into a tree.                                          *)
LEMMA WithTwo ==
  ASSUME NEW nodes, NEW p, NEW n, NEW q, NEW m, p \in DOMAIN nodes /\ p # q
  PROVE  /\ IsFcn(With(With(nodes, p, n), q, m))
         /\ \A x : x \in DOMAIN With(With(nodes, p, n), q, m) <=> x \in DOMAIN nodes \/ x = q
         /\ With(With(nodes, p, n), q, m)[p] = n
         /\ With(With(nodes, p, n), q, m)[q] = m
         /\ \A x \in DOMAIN nodes : x # p /\ x # q => With(With(nodes, p, n), q, m)[x] = nodes[x]
<1>1. PICK A : A = With(nodes, p, n)
  OBVIOUS
<1>2. /\ \A x : x \in DOMAIN A <=> x \in DOMAIN nodes \/ x = p
      /\ A[p] = n /\ \A x \in DOMAIN nodes : x # p => A[x] = nodes[x]
  BY ONLY <1>1, WithIs
<1>3. PICK M : M = With(A, q, m)
  OBVIOUS
<1>4. /\ \A x : x \in DOMAIN M <=> x \in DOMAIN A \/ x = q
      /\ M[q] = m /\ (\A x \in DOMAIN A : x # q => M[x] = A[x]) /\ IsFcn(M)
  BY ONLY <1>3, WithIs
<1>5. /\ IsFcn(M) /\ (\A x : x \in DOMAIN M <=> x \in DOMAIN nodes \/ x = q)
      /\ M[p] = n /\ M[q] = m /\ \A x \in DOMAIN nodes : x # p /\ x # q => M[x] = nodes[x]
  BY <1>2, <1>4
<1> QED BY <1>1, <1>3, <1>5

(* A compressed node has one edge.                                         *)
LEMMA CompressedIs ==
  ASSUME NEW nodes, Form(nodes), NEW p \in DOMAIN nodes, nodes[p].iscompr, NEW h, h = nodes[p], NEW c, c = h.chars
  PROVE  /\ p \in W /\ IsNode(h) /\ c \in W /\ Len(c) \in Nat /\ Len(c) > 1 /\ \A e : e \in Edges(h) <=> e = c
<1>1. p \in W /\ IsNode(h) /\ c \in W /\ Ordered(h)
  BY FormType
<1>2. Len(c) \in Nat /\ Len(c) > 1
  BY <1>1, WordType DEF Ordered
<1>3. \A e : e \in Edges(h) <=> e = c
  BY <1>1, EdgeType
<1> QED BY <1>1, <1>2, <1>3

(* There is no node inside an edge.                                        *)
LEMMA InsideEdge ==
  ASSUME NEW nodes, Form(nodes), NEW p \in DOMAIN nodes, nodes[p].iscompr, NEW c, c = nodes[p].chars,
         NEW j \in 1..(Len(c) - 1), NEW at, at = Join(p, Upto(c, j))
  PROVE  p # at /\ at \in W /\ Below(p, at) /\ at \notin DOMAIN nodes
<1>h. PICK h : h = nodes[p]
  OBVIOUS
<1>1. p \in W /\ IsNode(h) /\ c \in W /\ Len(c) \in Nat /\ Len(c) > 1 /\ c = h.chars
  BY <1>h, CompressedIs
<1>2. j \in 1..(Len(c) - 1) /\ j \in 0..Len(c) /\ j \in Nat /\ j >= 1
  BY <1>1
<1>4. /\ p # at /\ at \in W /\ Begins(p, at) /\ Below(p, at) /\ Len(at) = Len(p) + j /\ Len(p) \in Nat
  <2>1. PICK b : b = Upto(c, j)
    OBVIOUS
  <2>2. b \in W /\ Len(b) = j /\ at = Join(p, b)
    BY <1>1, <1>2, <2>1, UptoType
  <2>3. Begins(p, at) /\ Len(at) = Len(p) + j /\ at \in W /\ Len(p) \in Nat
    <3>1. Begins(p, at) /\ Len(at) = Len(p) + Len(b) /\ at \in W /\ Len(p) \in Nat
      BY ONLY <1>1, <2>2, JoinBegins, JoinType, WordType
    <3> QED BY ONLY <2>2, <3>1
  <2>4. Len(p) < Len(at)
    BY ONLY <1>2, <2>3
  <2> QED BY ONLY <2>3, <2>4 DEF Below
<1>7. at \notin DOMAIN nodes
  <2>1. \A x \in DOMAIN nodes : Below(p, x) => Begins(Join(p, c), x)
    <3>1. \A e : e \in Edges(nodes[p]) <=> e = c
      BY CompressedIs
    <3> QED BY <3>1, FormType
  <2>2. SUFFICES ASSUME at \in DOMAIN nodes PROVE FALSE
    OBVIOUS
  <2>3. Len(Join(p, c)) = Len(p) + Len(c)
    BY <1>1, JoinType
  <2>4. Len(Join(p, c)) <= Len(at)
    BY <1>4, <2>1, <2>2 DEF Begins
  <2> QED BY ONLY <1>1, <1>2, <1>4, <2>3, <2>4
<1> QED BY <1>4, <1>7

(* The cut where the word ends inside an edge (784-845).                   *)
LEMMA CutAtIs ==
  ASSUME NEW nodes, Form(nodes), NEW p \in DOMAIN nodes, nodes[p].iscompr, NEW c, c = nodes[p].chars,
         NEW j \in 1..(Len(c) - 1), NEW at, at = Join(p, Upto(c, j)), NEW M, M = CutAt(nodes, p, j)
  PROVE  /\ Cut(nodes, p, j, at, M)
         /\ Opened(nodes, p, at, M) /\ p # at /\ at \notin DOMAIN nodes
         /\ Cardinality(DOMAIN M) = Cardinality(DOMAIN nodes) + 1
         /\ M[at] = Postfix(nodes[p], j)
<1>h. PICK h : h = nodes[p]
  OBVIOUS
<1>1. p \in W /\ IsNode(h) /\ c \in W /\ Len(c) \in Nat /\ Len(c) > 1 /\ c = h.chars
  BY <1>h, CompressedIs
<1>2. j \in 1..(Len(c) - 1) /\ j \in 0..Len(c) /\ j \in Nat /\ j >= 1
  BY <1>1
<1>3. /\ IsNode(Beginning(h, j)) /\ Ordered(Beginning(h, j))
      /\ (Beginning(h, j).iskey <=> h.iskey) /\ Beginning(h, j).data = h.data
      /\ \A e : e \in Edges(Beginning(h, j)) <=> e = Upto(c, j)
      /\ IsNode(Postfix(h, j)) /\ Ordered(Postfix(h, j)) /\ ~Postfix(h, j).iskey
      /\ \A e : e \in Edges(Postfix(h, j)) <=> e = Rest(c, j)
  BY <1>1, <1>2, PiecesAre
<1>4. p # at /\ at \notin DOMAIN nodes
  BY InsideEdge
<1>5. M = With(With(nodes, p, Beginning(h, j)), at, Postfix(h, j))
  BY <1>h DEF CutAt, Join
<1>6. /\ IsFcn(M) /\ (\A x : x \in DOMAIN M <=> x \in DOMAIN nodes \/ x = at)
      /\ M[p] = Beginning(h, j) /\ M[at] = Postfix(h, j) /\ \A x \in DOMAIN nodes : x # p /\ x # at => M[x] = nodes[x]
  <2>1. p \in DOMAIN nodes
    OBVIOUS
  <2>2. p # at
    BY <1>4
  <2>3. PICK n : n = Beginning(h, j)
    OBVIOUS
  <2>4. PICK m : m = Postfix(h, j)
    OBVIOUS
  <2>5. M = With(With(nodes, p, n), at, m)
    BY <1>5, <2>3, <2>4
  <2>6. /\ IsFcn(M) /\ (\A x : x \in DOMAIN M <=> x \in DOMAIN nodes \/ x = at)
        /\ M[p] = n /\ M[at] = m /\ \A x \in DOMAIN nodes : x # p /\ x # at => M[x] = nodes[x]
    BY ONLY <2>1, <2>2, <2>5, WithTwo
  <2> QED BY <2>3, <2>4, <2>6
<1>8. Cut(nodes, p, j, at, M)
  <2>1. Changed(nodes, p, at, M)
    BY <1>3, <1>4, <1>6 DEF Changed
  <2> QED BY <1>1, <1>3, <1>6, <1>h, <2>1 DEF Cut
<1>9. /\ Form(M) /\ Cardinality(DOMAIN M) = Cardinality(DOMAIN nodes) + 1
      /\ \A x \in DOMAIN M : SameKey(nodes, M, x)
      /\ \A x0 : AllTightBut(nodes, x0) /\ Tight(nodes, p) =>
                      \A x \in DOMAIN M : x # p /\ x # x0 => Tight(M, x)
  <2>1. j \in 1..(Len(nodes[p].chars) - 1) /\ at = Join(p, Upto(nodes[p].chars, j))
    BY <1>2
  <2> QED BY <1>8, <2>1, CutIs
<1>10. (\A x \in DOMAIN nodes : Tight(nodes, x)) => \A x \in DOMAIN M : x # p /\ x # at => Tight(M, x)
  BY <1>9 DEF AllTightBut
<1>11. (\A e \in Edges(M[p]) : Join(p, e) = at) /\ (\E e : e \in Edges(M[p]))
  BY <1>3, <1>6
<1>12. Opened(nodes, p, at, M)
  BY <1>6, <1>9, <1>10, <1>11 DEF Opened
<1> QED BY <1>4, <1>6, <1>8, <1>9, <1>12, <1>h

(* Keys that are kept twice are kept.                                      *)
LEMMA KeyTwice ==
  ASSUME NEW nodes, NEW M, NEW N, \A x \in DOMAIN nodes : x \in DOMAIN M,
         \A x \in DOMAIN M : SameKey(nodes, M, x), NEW x, SameKey(M, N, x)
  PROVE  SameKey(nodes, N, x)
<1>1. CASE x \in DOMAIN M
  <2>1. SameKey(nodes, M, x)
    BY <1>1
  <2> QED BY <1>1, <2>1 DEF SameKey
<1>2. CASE x \notin DOMAIN M
  BY <1>2 DEF SameKey
<1> QED BY <1>1, <1>2

(* Splitting where the first character of the edge differs, the last, or   *)
(* one between (677-783).                                                  *)
LEMMA SplitAtRoot ==
  ASSUME NEW nodes, Form(nodes), NEW p \in DOMAIN nodes, nodes[p].iscompr, NEW M, M = SplitAt(nodes, p, 0)
  PROVE  /\ Opened(nodes, p, p, M)
         /\ Cardinality(DOMAIN M) = Cardinality(DOMAIN nodes) + 1
         /\ M[p] = SplitNode(nodes[p], 0)
<1>h. PICK h : h = nodes[p]
  OBVIOUS
<1>c. PICK c : c = h.chars
  OBVIOUS
<1>1. p \in W /\ IsNode(h) /\ c \in W /\ Len(c) \in Nat /\ Len(c) > 1
  BY <1>h, <1>c, CompressedIs
<1>2. 1 \in 1..(Len(c) - 1) /\ 1 \in 0..Len(c) /\ 0 \in 0..(Len(c) - 1) /\ 0 \in 0..Len(c) /\ 1 # Len(c)
  <2>1. Len(c) \in Nat /\ Len(c) > 1
    BY <1>1
  <2> QED BY ONLY <2>1
<1>3. PICK q : q = Join(p, Upto(c, 1))
  OBVIOUS
<1>4. q # p
  <2>1. PICK b : b = Upto(c, 1)
    OBVIOUS
  <2>2. b \in W /\ Len(b) = 1
    BY <1>1, <1>2, <2>1, UptoType
  <2>3. q = Join(p, b)
    BY <1>3, <2>1
  <2>4. Len(q) = Len(p) + Len(b) /\ Len(p) \in Nat
    BY ONLY <1>1, <2>2, <2>3, JoinType, WordType
  <2> QED BY <2>2, <2>4
<1>5. Join(p, Upto(c, 0)) = p /\ Rest(c, 0) = c
  <2>1. Upto(c, 0) \in W /\ Len(Upto(c, 0)) = 0
    BY <1>1, <1>2, UptoType
  <2>2. Upto(c, 0) = <<>>
    BY <2>1, WordType
  <2>3. Rest(c, 0) \in W /\ Len(Rest(c, 0)) = Len(c) - 0 /\ \A k \in 1..(Len(c) - 0) : Rest(c, 0)[k] = c[0 + k]
    BY <1>1, <1>2, RestType
  <2>4. PICK r : r = Rest(c, 0)
    OBVIOUS
  <2>5. r \in W /\ Len(r) = Len(c) /\ \A k \in 1..Len(c) : r[k] = c[k]
    BY <1>1, <2>3, <2>4
  <2>6. r = c
    BY <1>1, <2>5, SameWord
  <2> QED BY <1>1, <2>2, <2>4, <2>6, NoChars
<1>6. PICK n : n = SplitNode(h, 0)
  OBVIOUS
<1>7. /\ IsNode(n) /\ Ordered(n) /\ ~n.iscompr /\ n.chars # <<>>
      /\ (\A e : e \in Edges(n) <=> e = Upto(c, 1))
      /\ (n.iskey <=> h.iskey) /\ (n.iskey => n.data = h.data)
  <2>1. 0 \in 0..(Len(h.chars) - 1)
    BY <1>2, <1>c
  <2>2. /\ IsNode(n) /\ Ordered(n) /\ ~n.iscompr /\ n.chars # <<>>
        /\ (\A e : e \in Edges(n) <=> e = Upto(Rest(h.chars, 0), 1))
        /\ (n.iskey <=> 0 = 0 /\ h.iskey) /\ (n.iskey => n.data = h.data)
    BY <1>1, <1>6, <2>1, SplitNodeIs
  <2> QED BY <1>5, <1>c, <2>2
<1>8. PICK m : m = Postfix(h, 1)
  OBVIOUS
<1>9. /\ IsNode(m) /\ Ordered(m) /\ ~m.iskey
      /\ \A e : e \in Edges(m) <=> e = Rest(c, 1)
  BY <1>1, <1>2, <1>8, <1>c, PiecesAre
<1>10. M = With(With(nodes, p, n), q, m)
  <2>1. p \o Upto(c, 0) = p /\ p \o Upto(c, 1) = q
    BY <1>3, <1>5 DEF Join
  <2>2. 0 + 1 = 1
    OBVIOUS
  <2>3. M = With(With(nodes, p \o Upto(c, 0), SplitNode(h, 0)), p \o Upto(c, 1), Postfix(h, 1))
    BY <1>2, <1>h, <1>c, <2>2 DEF SplitAt
  <2> QED BY <1>6, <1>8, <2>1, <2>3
<1>11. /\ IsFcn(M) /\ (\A x : x \in DOMAIN M <=> x \in DOMAIN nodes \/ x = q)
       /\ M[p] = n /\ M[q] = m /\ \A x \in DOMAIN nodes : x # p /\ x # q => M[x] = nodes[x]
  BY <1>4, <1>10, WithTwo
<1>12. q \notin DOMAIN nodes
  BY <1>2, <1>3, <1>c, <1>h, InsideEdge
<1>13. 1 \in 1..(Len(nodes[p].chars) - 1) /\ q = Join(p, Upto(nodes[p].chars, 1))
  BY <1>2, <1>3, <1>c, <1>h
<1>14. Cut(nodes, p, 1, q, M)
  <2>1. Changed(nodes, p, q, M)
    BY <1>7, <1>9, <1>11, <1>12 DEF Changed
  <2>2. /\ \A e : e \in Edges(M[p]) <=> e = Upto(c, 1)
        /\ \A e : e \in Edges(M[q]) <=> e = Rest(c, 1)
        /\ M[p].iskey <=> h.iskey
        /\ M[p].iskey => M[p].data = h.data
        /\ ~M[q].iskey
    BY <1>7, <1>9, <1>11
  <2> QED BY <1>c, <1>h, <2>1, <2>2 DEF Cut
<1>15. /\ Form(M) /\ Cardinality(DOMAIN M) = Cardinality(DOMAIN nodes) + 1
       /\ \A x \in DOMAIN M : SameKey(nodes, M, x)
       /\ \A x0 : AllTightBut(nodes, x0) /\ Tight(nodes, p) =>
                      \A x \in DOMAIN M : x # p /\ x # x0 => Tight(M, x)
  BY <1>13, <1>14, CutIs
<1>16. (\A x \in DOMAIN nodes : Tight(nodes, x)) => \A x \in DOMAIN M : x # p => Tight(M, x)
  BY <1>15 DEF AllTightBut
<1>17. Opened(nodes, p, p, M)
  BY <1>11, <1>15, <1>16 DEF Opened
<1> QED BY <1>6, <1>11, <1>15, <1>17, <1>h

LEMMA SplitAtEnd ==
  ASSUME NEW nodes, Form(nodes), NEW p \in DOMAIN nodes, nodes[p].iscompr, NEW c, c = nodes[p].chars,
         NEW j \in 1..(Len(c) - 1), j + 1 = Len(c), NEW at, at = Join(p, Upto(c, j)),
         NEW M, M = SplitAt(nodes, p, j)
  PROVE  /\ Opened(nodes, p, at, M) /\ p # at
         /\ Cardinality(DOMAIN M) = Cardinality(DOMAIN nodes) + 1
         /\ M[at] = SplitNode(nodes[p], j)
<1>h. PICK h : h = nodes[p]
  OBVIOUS
<1>1. p \in W /\ IsNode(h) /\ c \in W /\ Len(c) \in Nat /\ Len(c) > 1 /\ c = h.chars
  BY <1>h, CompressedIs
<1>2. j \in 1..(Len(c) - 1) /\ j \in 0..Len(c) /\ j \in 0..(Len(c) - 1) /\ j # 0 /\ 1 \in 0..(Len(c) - j) /\ j \in Nat
  BY <1>1
<1>3. p # at /\ at \notin DOMAIN nodes
  BY InsideEdge
<1>4. PICK n : n = Beginning(h, j)
  OBVIOUS
<1>5. /\ IsNode(n) /\ Ordered(n) /\ (n.iskey <=> h.iskey) /\ n.data = h.data
      /\ \A e : e \in Edges(n) <=> e = Upto(c, j)
  BY <1>1, <1>2, <1>4, PiecesAre
<1>6. PICK m : m = SplitNode(h, j)
  OBVIOUS
<1>7. /\ IsNode(m) /\ Ordered(m) /\ ~m.iskey
      /\ \A e : e \in Edges(m) <=> e = Upto(Rest(c, j), 1)
  BY <1>1, <1>2, <1>6, SplitNodeIs
<1>8. Upto(Rest(c, j), 1) = Rest(c, j)
  <2>1. PICK r : r = Rest(c, j)
    OBVIOUS
  <2>2. r \in W /\ Len(r) = 1
    <3>1. r \in W /\ Len(r) = Len(c) - j
      BY <1>1, <1>2, <2>1, RestType
    <3>2. Len(c) - j = 1
      BY <1>1, <1>2
    <3> QED BY <3>1, <3>2
  <2>3. PICK u : u = Upto(r, 1)
    OBVIOUS
  <2>4. u \in W /\ Len(u) = 1 /\ \A k \in 1..1 : u[k] = r[k]
    <3>1. 1 \in 0..Len(r)
      BY <2>2
    <3> QED BY <2>2, <2>3, <3>1, UptoType
  <2>5. u = r
    BY <2>2, <2>4, SameWord
  <2> QED BY <2>1, <2>3, <2>5
<1>9. M = With(With(nodes, p, n), at, m)
  <2>1. p \o Upto(c, j) = at
    BY DEF Join
  <2>2. M = With(With(nodes, p, Beginning(h, j)), p \o Upto(c, j), SplitNode(h, j))
    BY <1>2, <1>h DEF SplitAt
  <2> QED BY <1>4, <1>6, <2>1, <2>2
<1>10. /\ IsFcn(M) /\ (\A x : x \in DOMAIN M <=> x \in DOMAIN nodes \/ x = at)
       /\ M[p] = n /\ M[at] = m /\ \A x \in DOMAIN nodes : x # p /\ x # at => M[x] = nodes[x]
  BY <1>3, <1>9, WithTwo
<1>11. j \in 1..(Len(nodes[p].chars) - 1) /\ at = Join(p, Upto(nodes[p].chars, j))
  BY <1>2
<1>12. Cut(nodes, p, j, at, M)
  <2>1. Changed(nodes, p, at, M)
    BY <1>3, <1>5, <1>7, <1>10 DEF Changed
  <2>2. /\ \A e : e \in Edges(M[p]) <=> e = Upto(c, j)
        /\ \A e : e \in Edges(M[at]) <=> e = Rest(c, j)
        /\ M[p].iskey <=> h.iskey
        /\ M[p].iskey => M[p].data = h.data
        /\ ~M[at].iskey
    BY <1>5, <1>7, <1>8, <1>10
  <2> QED BY <1>h, <2>1, <2>2 DEF Cut
<1>13. /\ Form(M) /\ Cardinality(DOMAIN M) = Cardinality(DOMAIN nodes) + 1
       /\ \A x \in DOMAIN M : SameKey(nodes, M, x)
       /\ \A x0 : AllTightBut(nodes, x0) /\ Tight(nodes, p) =>
                      \A x \in DOMAIN M : x # p /\ x # x0 => Tight(M, x)
  BY <1>11, <1>12, CutIs
<1>14. (\A x \in DOMAIN nodes : Tight(nodes, x)) => \A x \in DOMAIN M : x # p /\ x # at => Tight(M, x)
  BY <1>13 DEF AllTightBut
<1>15. (\A e \in Edges(M[p]) : Join(p, e) = at) /\ (\E e : e \in Edges(M[p]))
  BY <1>5, <1>10
<1>16. Opened(nodes, p, at, M)
  BY <1>10, <1>13, <1>14, <1>15 DEF Opened
<1> QED BY <1>3, <1>6, <1>10, <1>13, <1>16, <1>h

LEMMA SplitAtMiddle ==
  ASSUME NEW nodes, Form(nodes), NEW p \in DOMAIN nodes, nodes[p].iscompr, NEW c, c = nodes[p].chars,
         NEW j \in 1..(Len(c) - 1), j + 1 # Len(c), NEW at, at = Join(p, Upto(c, j)),
         NEW M, M = SplitAt(nodes, p, j)
  PROVE  /\ Opened(nodes, p, at, M) /\ p # at
         /\ Cardinality(DOMAIN M) = Cardinality(DOMAIN nodes) + 2
         /\ M[at] = SplitNode(nodes[p], j)
<1>h. PICK h : h = nodes[p]
  OBVIOUS
<1>r. PICK r : r = Rest(c, j)
  OBVIOUS
<1>b. PICK b : b = Upto(c, j)
  OBVIOUS
<1>1. p \in W /\ IsNode(h) /\ c \in W /\ Len(c) \in Nat /\ Len(c) > 1 /\ c = h.chars
  BY <1>h, CompressedIs
<1>2. /\ j \in 1..(Len(c) - 1) /\ j \in 0..Len(c) /\ j \in 0..(Len(c) - 1) /\ j # 0 /\ 1 \in 0..(Len(c) - j)
      /\ j + 1 \in 1..(Len(c) - 1) /\ j \in Nat /\ Len(c) - j > 1 /\ j + 1 # Len(c)
  BY <1>1
<1>3. b \in W /\ Len(b) = j /\ r \in W /\ Len(r) = Len(c) - j
  BY <1>1, <1>2, <1>b, <1>r, UptoType, RestType
(* First the cut at j, then one after the character that differs.          *)
<1>4. PICK A : A = CutAt(nodes, p, j)
  OBVIOUS
<1>5. /\ Opened(nodes, p, at, A) /\ p # at /\ at \notin DOMAIN nodes
      /\ Cardinality(DOMAIN A) = Cardinality(DOMAIN nodes) + 1
      /\ A[at] = Postfix(nodes[p], j)
  BY <1>4, CutAtIs
<1>6. A = With(With(nodes, p, Beginning(h, j)), at, Postfix(h, j))
  BY <1>4, <1>h DEF CutAt, Join
<1>7. /\ IsFcn(A) /\ (\A x : x \in DOMAIN A <=> x \in DOMAIN nodes \/ x = at)
      /\ A[p] = Beginning(h, j) /\ A[at] = Postfix(h, j) /\ \A x \in DOMAIN nodes : x # p /\ x # at => A[x] = nodes[x]
  BY <1>5, <1>6, WithTwo
<1>8. A[at].iscompr /\ A[at].chars = r /\ ~A[at].iskey
  BY <1>1, <1>2, <1>7, <1>r, PiecesAre
<1>9. PICK q : q = Join(at, Upto(r, 1))
  OBVIOUS
<1>10. at = Join(p, b) /\ at \in W
  <2>1. at = Join(p, b)
    BY <1>b
  <2> QED BY ONLY <1>1, <1>3, <2>1, JoinType
<1>11. q = Join(p, Upto(c, j + 1)) /\ Rest(r, 1) = Rest(c, j + 1)
  <2>1. Join(Upto(c, j), Upto(Rest(c, j), 1)) = Upto(c, j + 1) /\ Rest(Rest(c, j), 1) = Rest(c, j + 1)
    BY <1>1, <1>2, UptoAndRest
  <2>2. PICK u : u = Upto(r, 1)
    OBVIOUS
  <2>3. u \in W
    <3>1. 1 \in 0..Len(r)
      BY <1>2, <1>3
    <3> QED BY <1>3, <2>2, <3>1, UptoType
  <2>4. Join(Join(p, b), u) = Join(p, Join(b, u))
    BY <1>1, <1>3, <2>3, JoinJoin
  <2> QED BY <1>9, <1>10, <1>b, <1>r, <2>1, <2>2, <2>4
<1>12. PICK n : n = SplitNode(h, j)
  OBVIOUS
<1>13. /\ IsNode(n) /\ Ordered(n) /\ ~n.iskey
       /\ \A e : e \in Edges(n) <=> e = Upto(r, 1)
  BY <1>1, <1>2, <1>12, <1>r, SplitNodeIs
<1>14. PICK m : m = Postfix(h, j + 1)
  OBVIOUS
<1>15. /\ IsNode(m) /\ Ordered(m) /\ ~m.iskey
       /\ \A e : e \in Edges(m) <=> e = Rest(r, 1)
  BY <1>1, <1>2, <1>11, <1>14, PiecesAre
<1>16. PICK B : B = With(With(nodes, p, Beginning(h, j)), at, n)
  OBVIOUS
<1>17. M = With(B, q, m)
  <2>1. p \o Upto(c, j) = at /\ p \o Upto(c, j + 1) = q
    BY <1>11 DEF Join
  <2>2. M = With(With(With(nodes, p, Beginning(h, j)), p \o Upto(c, j), SplitNode(h, j)), p \o Upto(c, j + 1), Postfix(h, j + 1))
    BY <1>2, <1>h DEF SplitAt
  <2> QED BY <1>12, <1>14, <1>16, <2>1, <2>2
<1>18. /\ (\A x : x \in DOMAIN B <=> x \in DOMAIN nodes \/ x = at)
       /\ B[p] = Beginning(h, j) /\ B[at] = n /\ \A x \in DOMAIN nodes : x # p /\ x # at => B[x] = nodes[x]
  BY <1>5, <1>16, WithTwo
<1>19. /\ (\A x : x \in DOMAIN M <=> x \in DOMAIN B \/ x = q)
       /\ M[q] = m /\ (\A x \in DOMAIN B : x # q => M[x] = B[x]) /\ IsFcn(M)
  BY ONLY <1>17, WithIs
<1>20. Form(A) /\ at \in DOMAIN A /\ A[at].iscompr /\ 1 \in 1..(Len(A[at].chars) - 1) /\ q = Join(at, Upto(A[at].chars, 1))
  BY <1>2, <1>3, <1>5, <1>8, <1>9 DEF Opened
<1>21. q \notin DOMAIN A /\ q # at
  BY <1>20, InsideEdge
<1>22. M[at] = n /\ M[p] = A[p] /\ \A x \in DOMAIN A : x # at => M[x] = A[x]
  BY <1>5, <1>7, <1>18, <1>19, <1>21
<1>23. Cut(A, at, 1, q, M)
  <2>1. Changed(A, at, q, M)
    BY <1>7, <1>13, <1>15, <1>18, <1>19, <1>22 DEF Changed
  <2>2. /\ \A e : e \in Edges(M[at]) <=> e = Upto(A[at].chars, 1)
        /\ \A e : e \in Edges(M[q]) <=> e = Rest(A[at].chars, 1)
        /\ ~M[at].iskey /\ ~M[q].iskey /\ ~A[at].iskey
    BY <1>8, <1>13, <1>15, <1>19, <1>22
  <2> QED BY <2>1, <2>2 DEF Cut
<1>24. /\ Form(M) /\ Cardinality(DOMAIN M) = Cardinality(DOMAIN A) + 1
       /\ \A x \in DOMAIN M : SameKey(A, M, x)
       /\ \A x0 : AllTightBut(A, x0) /\ Tight(A, at) =>
                      \A x \in DOMAIN M : x # at /\ x # x0 => Tight(M, x)
  BY <1>20, <1>23, CutIs
<1>25. \A x \in DOMAIN M : SameKey(nodes, M, x)
  BY <1>5, <1>24, KeyTwice DEF Opened
<1>26. ASSUME \A x \in DOMAIN nodes : Tight(nodes, x)
       PROVE  \A x \in DOMAIN M : x # p /\ x # at => Tight(M, x)
  <2>1. Cut(nodes, p, j, at, A)
    BY <1>4, CutAtIs
  <2>2. \A x0 : AllTightBut(nodes, x0) /\ Tight(nodes, p) =>
                      \A x \in DOMAIN A : x # p /\ x # x0 => Tight(A, x)
    BY <1>2, <2>1, CutIs
  <2>3. AllTightBut(A, p) /\ Tight(A, at)
    BY <1>5, <1>7, <1>26, <2>2 DEF AllTightBut
  <2> QED BY <1>24, <2>3
<1>27. (\A e \in Edges(M[p]) : Join(p, e) = at) /\ (\E e : e \in Edges(M[p]))
  BY <1>5, <1>22 DEF Opened
<1>28. Cardinality(DOMAIN M) = Cardinality(DOMAIN nodes) + 2
  <2>1. Cardinality(DOMAIN nodes) \in Nat
    BY FS_CardinalityType DEF Form
  <2> QED BY <1>5, <1>24, <2>1
<1>29. at \in DOMAIN M /\ \A x \in DOMAIN nodes : x \in DOMAIN M
  BY <1>18, <1>19
<1>30. Opened(nodes, p, at, M)
  BY <1>24, <1>25, <1>26, <1>27, <1>29 DEF Opened
<1> QED BY <1>5, <1>12, <1>22, <1>28, <1>30, <1>h

-----------------------------------------------------------------------------
(***************************************************************************)
(* 5. Insertion, from the place where the walk stopped.                    *)
(***************************************************************************)

(* Where a walk stops: inside an edge at a character that differs or at    *)
(* the end of the word, or at a node with no edge to go on by.             *)
WalkStops(nodes, s, p, i, j) ==
  /\ p \in DOMAIN nodes /\ i \in 0..Len(s) /\ j \in Nat
  /\ nodes[p].iscompr =>
       /\ j < Len(nodes[p].chars)
       /\ Join(p, Upto(nodes[p].chars, j)) = Upto(s, i)
       /\ i < Len(s) => s[i + 1] # nodes[p].chars[j + 1]
  /\ ~nodes[p].iscompr =>
       /\ j = 0 /\ p = Upto(s, i)
       /\ i < Len(s) => \A f \in Edges(nodes[p]) : f[1] # s[i + 1]

(* What an insertion makes of a tree.                                      *)
Inserted(nodes, s, data, N) ==
  /\ Form(N) /\ \A x \in DOMAIN N : Tight(N, x)
  /\ \A x \in DOMAIN nodes : x \in DOMAIN N
  /\ s \in DOMAIN N /\ N[s].iskey /\ N[s].data = data
  /\ \A x \in DOMAIN N : x # s => SameKey(nodes, N, x)

(* Extending a tree at the place where it was cut or split.                *)
LEMMA ExtendOpened ==
  ASSUME NEW nodes, Form(nodes), \A x \in DOMAIN nodes : Tight(nodes, x),
         NEW p \in DOMAIN nodes, NEW at, NEW M, Opened(nodes, p, at, M),
         NEW rest \in W, NEW data \in Int, CanExtend(M[at], rest),
         rest # <<>> => M[at].chars # <<>>, rest = <<>> => Tight(M, at) /\ p # at,
         NEW s, s = Join(at, rest), NEW N, N = Extend(M, at, rest, data)
  PROVE  /\ Inserted(nodes, s, data, N)
         /\ Cardinality(DOMAIN N) = Cardinality(DOMAIN M) + NodesAdded(M[at], rest)
<1>1. /\ Form(M) /\ at \in DOMAIN M
      /\ \A x \in DOMAIN nodes : x \in DOMAIN M
      /\ \A x \in DOMAIN M : SameKey(nodes, M, x)
      /\ \A x \in DOMAIN M : x # p /\ x # at => Tight(M, x)
      /\ p # at => (\A e \in Edges(M[p]) : Join(p, e) = at) /\ (\E e : e \in Edges(M[p]))
  BY DEF Opened
<1>2. /\ Extended(M, at, s, data, N)
      /\ Cardinality(DOMAIN N) = Cardinality(DOMAIN M) + NodesAdded(M[at], rest)
      /\ StillTight(M, at, N)
      /\ rest = <<>> => (Tight(M, at) => Tight(N, at))
      /\ rest # <<>> => Tight(N, at)
      /\ rest # <<>> /\ M[at].chars # <<>> => Branches(N[at])
  BY <1>1, ExtendIs
<1>3. /\ Form(N)
      /\ \A x \in DOMAIN M : x \in DOMAIN N /\ (x # at => N[x] = M[x])
      /\ s \in DOMAIN N /\ N[s].iskey /\ N[s].data = data
      /\ \A x \in DOMAIN N : x # s => SameKey(M, N, x)
      /\ \A x \in DOMAIN N : x \notin DOMAIN M => Tight(N, x)
  BY <1>2 DEF Extended
<1>4. \A x \in DOMAIN N : x # s => SameKey(nodes, N, x)
  BY <1>1, <1>3, KeyTwice
<1>5. Tight(N, at)
  BY <1>2
<1>6. Solid(N[at]) \/ p = at
  <2>1. CASE rest = <<>>
    <3>1. s = at
      <4>1. at \in W
        BY <1>1, FormType
      <4> QED BY <2>1, <4>1, NoChars
    <3> QED BY <1>3, <3>1 DEF Solid
  <2>2. CASE rest # <<>>
    BY <1>2, <2>2 DEF Solid
  <2> QED BY <2>1, <2>2
<1>7. Tight(N, p)
  <2>1. CASE p = at
    BY <1>5, <2>1
  <2>2. CASE p # at
    <3>1. N[p] = M[p] /\ p \in DOMAIN N
      BY <1>1, <1>3, <2>2
    <3>2. (\A e \in Edges(N[p]) : Join(p, e) = at) /\ (\E e : e \in Edges(N[p]))
      BY <1>1, <2>2, <3>1
    <3>3. Solid(N[at])
      BY <1>6, <2>2
    <3> QED BY <3>2, <3>3 DEF Tight
  <2> QED BY <2>1, <2>2
<1>8. \A x \in DOMAIN N : Tight(N, x)
  <2>1. ASSUME NEW x \in DOMAIN N, x \in DOMAIN M, x # at, x # p PROVE Tight(N, x)
    <3>1. Tight(M, x)
      BY <1>1, <2>1
    <3> QED BY <1>2, <2>1, <3>1 DEF StillTight
  <2> QED BY <1>3, <1>5, <1>7, <2>1
<1>9. \A x \in DOMAIN nodes : x \in DOMAIN N
  BY <1>1, <1>3
<1> QED BY <1>2, <1>3, <1>4, <1>8, <1>9 DEF Inserted

(* The three splits together.                                              *)
LEMMA SplitAtIs ==
  ASSUME NEW nodes, Form(nodes), NEW p \in DOMAIN nodes, nodes[p].iscompr, NEW c, c = nodes[p].chars,
         NEW j \in 0..(Len(c) - 1), NEW at, at = Join(p, Upto(c, j)), NEW M, M = SplitAt(nodes, p, j)
  PROVE  /\ Opened(nodes, p, at, M)
         /\ Cardinality(DOMAIN M) = Cardinality(DOMAIN nodes) + (IF j = 0 THEN 0 ELSE 1) + (IF j + 1 = Len(c) THEN 0 ELSE 1)
         /\ M[at] = SplitNode(nodes[p], j)
<1>1. p \in W /\ c \in W /\ Len(c) \in Nat /\ Len(c) > 1
  <2>1. PICK h : h = nodes[p]
    OBVIOUS
  <2>2. c = h.chars
    BY <2>1
  <2> QED BY <2>1, <2>2, CompressedIs
<1>2. Cardinality(DOMAIN nodes) \in Nat
  BY FS_CardinalityType DEF Form
<1>3. CASE j = 0
  <2>1. at = p
    <3>1. Upto(c, 0) \in W /\ Len(Upto(c, 0)) = 0
      <4>1. 0 \in 0..Len(c)
        BY <1>1
      <4> QED BY <1>1, <4>1, UptoType
    <3>2. Upto(c, 0) = <<>>
      BY <3>1, WordType
    <3> QED BY <1>1, <1>3, <3>2, NoChars
  <2>2. M = SplitAt(nodes, p, 0)
    BY <1>3
  <2>3. /\ Opened(nodes, p, p, M)
        /\ Cardinality(DOMAIN M) = Cardinality(DOMAIN nodes) + 1
        /\ M[p] = SplitNode(nodes[p], 0)
    BY <2>2, SplitAtRoot
  <2>4. j + 1 # Len(c)
    <3>1. \A k \in Nat : k > 1 => 0 + 1 # k
      OBVIOUS
    <3> QED BY ONLY <1>1, <1>3, <3>1
  <2> QED BY <1>2, <1>3, <2>1, <2>3, <2>4
<1>4. CASE j # 0
  <2>1. j \in 1..(Len(c) - 1)
    BY <1>1, <1>4
  <2>2. CASE j + 1 = Len(c)
    <3>1. /\ Opened(nodes, p, at, M)
          /\ Cardinality(DOMAIN M) = Cardinality(DOMAIN nodes) + 1
          /\ M[at] = SplitNode(nodes[p], j)
      BY <2>1, <2>2, SplitAtEnd
    <3> QED BY <1>2, <1>4, <2>2, <3>1
  <2>3. CASE j + 1 # Len(c)
    <3>1. /\ Opened(nodes, p, at, M)
          /\ Cardinality(DOMAIN M) = Cardinality(DOMAIN nodes) + 2
          /\ M[at] = SplitNode(nodes[p], j)
      BY <2>1, <2>3, SplitAtMiddle
    <3> QED BY <1>2, <1>4, <2>3, <3>1
  <2> QED BY <2>2, <2>3
<1> QED BY <1>3, <1>4

(* The three places where an insertion can end: at a split, at a cut, at a *)
(* node.                                                                   *)
LEMMA InsertAtSplit ==
  ASSUME NEW nodes, Form(nodes), \A x \in DOMAIN nodes : Tight(nodes, x),
         NEW s \in W, NEW p, NEW i, NEW j, WalkStops(nodes, s, p, i, j), nodes[p].iscompr, i < Len(s),
         NEW data \in Int, NEW rest, rest = Rest(s, i),
         NEW N, N = Extend(SplitAt(nodes, p, j), Join(p, Upto(nodes[p].chars, j)), rest, data)
  PROVE  /\ Inserted(nodes, s, data, N)
         /\ Cardinality(DOMAIN N) = Cardinality(DOMAIN nodes) + (IF j = 0 THEN 0 ELSE 1)
              + (IF j + 1 = Len(nodes[p].chars) THEN 0 ELSE 1) + NodesAdded(SplitNode(nodes[p], j), rest)
<1>h. PICK h : h = nodes[p]
  OBVIOUS
<1>c. PICK c : c = h.chars
  OBVIOUS
<1>1. /\ p \in DOMAIN nodes /\ i \in 0..Len(s) /\ j \in Nat /\ j < Len(c) /\ s[i + 1] # c[j + 1]
      /\ Join(p, Upto(c, j)) = Upto(s, i)
  BY <1>h, <1>c DEF WalkStops
<1>2. p \in W /\ IsNode(h) /\ c \in W /\ Len(c) \in Nat /\ Len(c) > 1 /\ Len(s) \in Nat
  <2>1. p \in DOMAIN nodes /\ nodes[p].iscompr
    BY <1>1
  <2> QED BY <1>h, <1>c, <2>1, CompressedIs, WordType
<1>3. j \in 0..(Len(c) - 1)
  BY <1>1, <1>2
<1>4. PICK at : at = Join(p, Upto(c, j))
  OBVIOUS
<1>5. PICK M : M = SplitAt(nodes, p, j)
  OBVIOUS
<1>6. /\ Opened(nodes, p, at, M)
      /\ Cardinality(DOMAIN M) = Cardinality(DOMAIN nodes) + (IF j = 0 THEN 0 ELSE 1) + (IF j + 1 = Len(c) THEN 0 ELSE 1)
      /\ M[at] = SplitNode(h, j)
  <2>1. p \in DOMAIN nodes /\ nodes[p].iscompr /\ c = nodes[p].chars
    BY <1>1, <1>h, <1>c
  <2> QED BY <1>3, <1>4, <1>5, <1>h, <2>1, SplitAtIs
<1>7. rest \in W /\ Len(rest) = Len(s) - i /\ \A k \in 1..(Len(s) - i) : rest[k] = s[i + k]
  BY <1>1, RestType
<1>8. Len(rest) >= 1 /\ rest[1] = s[i + 1] /\ rest # <<>>
  <2>1. Len(s) - i >= 1 /\ 1 \in 1..(Len(s) - i)
    BY <1>1, <1>2
  <2> QED BY <1>7, <2>1, WordType
<1>9. PICK n : n = SplitNode(h, j)
  OBVIOUS
<1>10. /\ ~n.iscompr /\ n.chars # <<>>
       /\ \A e : e \in Edges(n) <=> e = Upto(Rest(c, j), 1)
  <2>1. j \in 0..(Len(h.chars) - 1)
    BY <1>3, <1>c
  <2> QED BY <1>2, <1>9, <1>c, <2>1, SplitNodeIs
<1>11. \A e \in Edges(n) : e[1] = c[j + 1]
  <2>1. PICK r : r = Rest(c, j)
    OBVIOUS
  <2>2. r \in W /\ Len(r) = Len(c) - j /\ r[1] = c[j + 1]
    <3>1. j \in 0..Len(c) /\ 1 \in 1..(Len(c) - j)
      BY <1>2, <1>3
    <3> QED BY <1>2, <2>1, <3>1, RestType
  <2>3. Upto(r, 1)[1] = r[1]
    <3>1. 1 \in 0..Len(r) /\ 1 \in 1..1
      BY <1>2, <1>3, <2>2
    <3> QED BY <2>2, <3>1, UptoType
  <2> QED BY <1>10, <2>1, <2>2, <2>3
<1>12. CanExtend(n, rest)
  BY <1>1, <1>8, <1>10, <1>11 DEF CanExtend
<1>13. s = Join(at, rest)
  <2>1. Upto(s, i) \in W /\ Len(Upto(s, i)) = i
    BY <1>1, UptoType
  <2>2. PICK u : u = Upto(s, i)
    OBVIOUS
  <2>3. Begins(u, s) /\ Len(u) = i
    <3>1. u \in W /\ Len(u) = i /\ i <= Len(s)
      BY <1>1, <1>2, <2>1, <2>2
    <3> QED BY <2>2, <3>1, UptoBegins
  <2>4. Join(u, Rest(s, Len(u))) = s
    BY <2>1, <2>2, <2>3, JoinRest
  <2> QED BY <1>1, <1>4, <2>2, <2>3, <2>4
<1>14. N = Extend(M, at, rest, data)
  BY <1>4, <1>5, <1>c, <1>h
<1>15. /\ Inserted(nodes, s, data, N)
       /\ Cardinality(DOMAIN N) = Cardinality(DOMAIN M) + NodesAdded(M[at], rest)
  <2>1. CanExtend(M[at], rest) /\ (rest # <<>> => M[at].chars # <<>>) /\ (rest = <<>> => Tight(M, at) /\ p # at)
    BY <1>6, <1>8, <1>9, <1>10, <1>12
  <2> QED BY <1>1, <1>6, <1>7, <1>13, <1>14, <2>1, ExtendOpened
<1> QED BY <1>6, <1>15, <1>c, <1>h

LEMMA InsertAtCut ==
  ASSUME NEW nodes, Form(nodes), \A x \in DOMAIN nodes : Tight(nodes, x),
         NEW s \in W, NEW p, NEW i, NEW j, WalkStops(nodes, s, p, i, j), nodes[p].iscompr, i = Len(s), j # 0,
         NEW data \in Int, NEW rest, rest = Rest(s, i),
         NEW N, N = Extend(CutAt(nodes, p, j), Join(p, Upto(nodes[p].chars, j)), rest, data)
  PROVE  /\ Inserted(nodes, s, data, N)
         /\ Cardinality(DOMAIN N) = Cardinality(DOMAIN nodes) + 1
<1>h. PICK h : h = nodes[p]
  OBVIOUS
<1>c. PICK c : c = h.chars
  OBVIOUS
<1>1. /\ p \in DOMAIN nodes /\ i \in 0..Len(s) /\ j \in Nat /\ j < Len(c)
      /\ Join(p, Upto(c, j)) = Upto(s, i)
  BY <1>h, <1>c DEF WalkStops
<1>2. p \in W /\ IsNode(h) /\ c \in W /\ Len(c) \in Nat /\ Len(c) > 1 /\ Len(s) \in Nat
  <2>1. p \in DOMAIN nodes /\ nodes[p].iscompr
    BY <1>1
  <2> QED BY <1>h, <1>c, <2>1, CompressedIs, WordType
<1>3. j \in 1..(Len(c) - 1)
  BY <1>1, <1>2
<1>4. PICK at : at = Join(p, Upto(c, j))
  OBVIOUS
<1>5. PICK M : M = CutAt(nodes, p, j)
  OBVIOUS
<1>6. /\ Cut(nodes, p, j, at, M)
      /\ Opened(nodes, p, at, M) /\ p # at /\ at \notin DOMAIN nodes
      /\ Cardinality(DOMAIN M) = Cardinality(DOMAIN nodes) + 1
  <2>1. p \in DOMAIN nodes /\ nodes[p].iscompr /\ c = nodes[p].chars
    BY <1>1, <1>h, <1>c
  <2> QED BY <1>3, <1>4, <1>5, <2>1, CutAtIs
<1>7. rest \in W /\ rest = <<>>
  <2>1. rest \in W /\ Len(rest) = Len(s) - i
    BY <1>1, RestType
  <2>2. Len(s) - i = 0
    BY <1>1, <1>2
  <2> QED BY <2>1, <2>2, WordType
<1>8. Tight(M, at)
  <2>1. j \in 1..(Len(nodes[p].chars) - 1) /\ at = Join(p, Upto(nodes[p].chars, j))
    BY <1>3, <1>4, <1>c, <1>h
  <2>2. \A x0 : AllTightBut(nodes, x0) /\ Tight(nodes, p) => \A x \in DOMAIN M : x # p /\ x # x0 => Tight(M, x)
    BY <1>1, <1>6, <2>1, CutIs
  <2>3. AllTightBut(nodes, p) /\ Tight(nodes, p) /\ at \in DOMAIN M /\ at # p
    BY <1>1, <1>6 DEF AllTightBut, Opened
  <2> QED BY <2>2, <2>3
<1>9. s = Join(at, rest)
  <2>1. Upto(s, i) = s
    <3>1. PICK u : u = Upto(s, i)
      OBVIOUS
    <3>2. u \in W /\ Len(u) = Len(s) /\ \A k \in 1..Len(s) : u[k] = s[k]
      BY <1>1, <3>1, UptoType
    <3>3. u = s
      BY <3>2, SameWord
    <3> QED BY <3>1, <3>3
  <2>2. at = s
    BY <1>1, <1>4, <2>1
  <2> QED BY <1>7, <2>2, NoChars
<1>10. N = Extend(M, at, rest, data)
  BY <1>4, <1>5, <1>c, <1>h
<1>11. /\ Inserted(nodes, s, data, N)
       /\ Cardinality(DOMAIN N) = Cardinality(DOMAIN M) + NodesAdded(M[at], rest)
  <2>1. CanExtend(M[at], rest) /\ (rest # <<>> => M[at].chars # <<>>) /\ (rest = <<>> => Tight(M, at) /\ p # at)
    BY <1>6, <1>7, <1>8 DEF CanExtend
  <2> QED BY <1>1, <1>6, <1>7, <1>9, <1>10, <2>1, ExtendOpened
<1>12. NodesAdded(M[at], rest) = 0
  BY <1>7 DEF NodesAdded
<1>13. Cardinality(DOMAIN nodes) \in Nat
  BY FS_CardinalityType DEF Form
<1> QED BY <1>6, <1>11, <1>12, <1>13

LEMMA InsertAtNode ==
  ASSUME NEW nodes, Form(nodes), \A x \in DOMAIN nodes : Tight(nodes, x),
         NEW s \in W, NEW p, NEW i, NEW j, WalkStops(nodes, s, p, i, j),
         nodes[p].iscompr => i = Len(s) /\ j = 0,
         NEW data \in Int, NEW rest, rest = Rest(s, i), NEW N, N = Extend(nodes, p, rest, data)
  PROVE  /\ Inserted(nodes, s, data, N)
         /\ Cardinality(DOMAIN N) = Cardinality(DOMAIN nodes) + NodesAdded(nodes[p], rest)
<1>1. p \in DOMAIN nodes /\ i \in 0..Len(s) /\ p \in W /\ nodes[p].chars \in W /\ Len(s) \in Nat
  BY FormType, WordType DEF WalkStops
<1>2. p = Upto(s, i)
  <2>1. CASE nodes[p].iscompr
    <3>1. Join(p, Upto(nodes[p].chars, 0)) = Upto(s, i)
      BY <2>1 DEF WalkStops
    <3>2. PICK c : c = nodes[p].chars
      OBVIOUS
    <3>3. Upto(c, 0) \in W /\ Len(Upto(c, 0)) = 0
      <4>1. 0 \in 0..Len(c) /\ c \in W
        BY <1>1, <3>2, WordType
      <4> QED BY <4>1, UptoType
    <3>4. Upto(c, 0) = <<>>
      BY <3>3, WordType
    <3> QED BY <1>1, <3>1, <3>2, <3>4, NoChars
  <2>2. CASE ~nodes[p].iscompr
    BY <2>2 DEF WalkStops
  <2> QED BY <2>1, <2>2
<1>3. rest \in W /\ Len(rest) = Len(s) - i /\ \A k \in 1..(Len(s) - i) : rest[k] = s[i + k]
  BY <1>1, RestType
<1>4. s = Join(p, rest)
  <2>1. Len(p) = i
    BY <1>1, <1>2, UptoType
  <2>2. Begins(p, s)
    <3>1. Len(p) <= Len(s)
      BY <1>1, <2>1
    <3> QED BY <1>1, <1>2, <2>1, <3>1, UptoBegins
  <2> QED BY <1>1, <2>1, <2>2, JoinRest
<1>5. CanExtend(nodes[p], rest)
  <2>1. SUFFICES ASSUME rest # <<>> PROVE ~nodes[p].iscompr /\ \A f \in Edges(nodes[p]) : f[1] # rest[1]
    BY DEF CanExtend
  <2>2. i < Len(s) /\ 1 \in 1..(Len(s) - i)
    <3>1. Len(rest) # 0
      BY <1>3, <2>1, WordType
    <3> QED BY <1>1, <1>3, <3>1
  <2>3. rest[1] = s[i + 1] /\ ~nodes[p].iscompr
    BY <1>1, <1>3, <2>2
  <2> QED BY <2>2, <2>3 DEF WalkStops
<1>6. /\ Extended(nodes, p, s, data, N)
      /\ Cardinality(DOMAIN N) = Cardinality(DOMAIN nodes) + NodesAdded(nodes[p], rest)
      /\ StillTight(nodes, p, N)
      /\ rest = <<>> => (Tight(nodes, p) => Tight(N, p))
      /\ rest # <<>> => Tight(N, p)
  BY <1>1, <1>3, <1>4, <1>5, ExtendIs
<1>7. Tight(N, p)
  BY <1>1, <1>6
<1>8. \A x \in DOMAIN N : Tight(N, x)
  BY <1>6, <1>7 DEF Extended, StillTight
<1> QED BY <1>6, <1>8 DEF Inserted, Extended

-----------------------------------------------------------------------------
(***************************************************************************)
(* 6. The walk.                                                            *)
(***************************************************************************)

(* MatchIn finds how far the edge and the word agree.                      *)
Matches(c, r, m) ==
  /\ m \in 0..Len(c) /\ m <= Len(r)
  /\ m = Len(c) \/ m = Len(r) \/ c[m + 1] # r[m + 1]
  /\ \A k \in 1..m : c[k] = r[k]

LEMMA MatchInIs ==
  ASSUME NEW h, h.chars \in W, NEW r \in W
  PROVE  Matches(h.chars, r, MatchIn(h, r))
<1>c. PICK c : c = h.chars
  OBVIOUS
<1>m. PICK m : m = MatchIn(h, r)
  OBVIOUS
<1>0. c \in W
  BY <1>c
<1> DEFINE S == {n \in 0..Len(c) : n <= Len(r) /\ (n = Len(c) \/ n = Len(r) \/ c[n + 1] # r[n + 1])}
<1>1. Len(c) \in Nat /\ Len(r) \in Nat
  BY <1>0, WordType
<1>2. S \subseteq Nat
  BY <1>1
<1>3. S # {}
  <2>1. CASE Len(c) <= Len(r)
    BY <1>1, <2>1
  <2>2. CASE Len(r) <= Len(c)
    BY <1>1, <2>2
  <2> QED BY <1>1, <2>1, <2>2
<1>4. m = Min(S)
  BY <1>c, <1>m DEF MatchIn
<1> HIDE DEF S
<1>5. m \in S /\ \A n \in S : m <= n
  BY <1>2, <1>3, <1>4, MinIs
<1>6. m \in 0..Len(c) /\ m <= Len(r) /\ (m = Len(c) \/ m = Len(r) \/ c[m + 1] # r[m + 1])
  BY <1>5 DEF S
<1>7. ASSUME NEW k \in 1..m PROVE c[k] = r[k]
  <2>1. PICK n : n = k - 1
    OBVIOUS
  <2>2. n \in Nat /\ n + 1 = k /\ n < m /\ m \in Nat /\ n \in 0..Len(c) /\ n <= Len(r) /\ n # Len(c) /\ n # Len(r)
    BY <1>1, <1>6, <2>1
  <2>3. n \notin S
    <3>1. ~(m <= n)
      BY <2>2
    <3> QED BY <1>5, <3>1
  <2>4. c[n + 1] = r[n + 1]
    BY <2>2, <2>3 DEF S
  <2> QED BY <2>2, <2>4
<1> QED BY <1>6, <1>7, <1>c, <1>m DEF Matches

(* The word s goes on under the node at p by the edge e.                   *)
LEMMA GoesOn ==
  ASSUME NEW s \in W, NEW i \in 0..Len(s), NEW p, p = Upto(s, i), NEW e \in W
  PROVE  /\ p \in W /\ Len(p) = i /\ Begins(p, s)
         /\ Begins(Join(p, e), s) <=> i + Len(e) <= Len(s) /\ \A k \in 1..Len(e) : s[i + k] = e[k]
         /\ Begins(Join(p, e), s) => Join(p, e) = Upto(s, i + Len(e))
<1>1. p \in W /\ Len(p) = i /\ Len(s) \in Nat /\ i <= Len(s) /\ Len(e) \in Nat
  BY UptoType, WordType
<1>2. Begins(p, s)
  BY <1>1, UptoBegins
<1>3. Begins(Join(p, e), s) <=> i + Len(e) <= Len(s) /\ \A k \in 1..Len(e) : s[i + k] = e[k]
  <2>1. p \in W /\ s \in W /\ e \in W
    BY <1>1
  <2>2. Begins(Join(p, e), s) <=>
          /\ Begins(p, s) /\ Len(p) + Len(e) <= Len(s)
          /\ \A k \in 1..Len(e) : s[Len(p) + k] = e[k]
    BY ONLY <2>1, JoinBegins
  <2> QED BY ONLY <1>1, <1>2, <2>2
<1>4. ASSUME Begins(Join(p, e), s) PROVE Join(p, e) = Upto(s, i + Len(e))
  <2>1. PICK q : q = Join(p, e)
    OBVIOUS
  <2>2. q \in W /\ Len(q) = i + Len(e) /\ Len(q) <= Len(s)
    BY <1>1, <1>3, <1>4, <2>1, JoinType
  <2>3. q = Upto(s, Len(q))
    BY <1>4, <2>1, <2>2, UptoBegins
  <2> QED BY <2>1, <2>2, <2>3
<1> QED BY <1>1, <1>2, <1>3, <1>4

(* A turn of the walk stays where no edge goes on, or follows the edge     *)
(* that does.                                                              *)
LEMMA TurnIs ==
  ASSUME NEW nodes, Form(nodes), NEW s \in W, NEW i \in 0..Len(s), NEW p, p = Upto(s, i), p \in DOMAIN nodes,
         NEW k, k = WalkTurn(nodes, s, i)
  PROVE  \/ k = i /\ \A e \in Edges(nodes[p]) : ~Begins(Join(p, e), s)
         \/ \E e \in Edges(nodes[p]) : Begins(Join(p, e), s) /\ k = i + Len(e)
<1>h. PICK h : h = nodes[p]
  OBVIOUS
<1>c. PICK c : c = h.chars
  OBVIOUS
<1>r. PICK r : r = Rest(s, i)
  OBVIOUS
<1>1. IsNode(h) /\ Ordered(h) /\ c \in W /\ Len(c) \in Nat /\ Len(s) \in Nat
  BY <1>h, <1>c, FormType, WordType
<1>2. r \in W /\ Len(r) = Len(s) - i /\ \A n \in 1..(Len(s) - i) : r[n] = s[i + n]
  BY <1>r, RestType
<1>3. /\ \A e \in Edges(h) : e \in W /\ Len(e) >= 1 /\ Len(e) \in Nat
      /\ h.iscompr => \A e : e \in Edges(h) <=> e = c
      /\ ~h.iscompr => \A e : e \in Edges(h) <=>
                             e \in W /\ Len(e) = 1 /\ \E n \in 1..Len(c) : e[1] = c[n]
      /\ c = <<>> => \A e : e \notin Edges(h)
  BY <1>1, <1>c, EdgeType, WordType
<1>4. \A e \in W : Begins(Join(p, e), s) <=> i + Len(e) <= Len(s) /\ \A n \in 1..Len(e) : s[i + n] = e[n]
  BY GoesOn
<1>5. k = IF c # <<>> /\ i < Len(s) /\ (IF h.iscompr THEN MatchIn(h, r) = Len(c) ELSE \E n \in 1..Len(c) : c[n] = s[i + 1])
          THEN i + Len(Edge(h, 1)) ELSE i
  BY <1>h, <1>c, <1>r DEF WalkTurn, Contains
<1>6. CASE c = <<>> \/ ~(i < Len(s))
  <2>1. k = i
    BY <1>5, <1>6
  <2>2. ASSUME NEW e \in Edges(h) PROVE ~Begins(Join(p, e), s)
    <3>1. e \in W /\ Len(e) >= 1 /\ Len(e) \in Nat /\ c # <<>>
      BY <1>3
    <3>2. ~(i + Len(e) <= Len(s))
      BY <1>1, <1>6, <3>1
    <3> QED BY <1>4, <3>1, <3>2
  <2> QED BY <1>h, <2>1, <2>2
<1>7. CASE c # <<>> /\ i < Len(s) /\ h.iscompr
  <2>1. PICK m : m = MatchIn(h, r)
    OBVIOUS
  <2>2. /\ m \in 0..Len(c) /\ m <= Len(r)
        /\ m = Len(c) \/ m = Len(r) \/ c[m + 1] # r[m + 1]
        /\ \A n \in 1..m : c[n] = r[n]
    <3>1. Matches(h.chars, r, MatchIn(h, r))
      <4>1. h.chars \in W /\ r \in W
        BY <1>1, <1>2, <1>c
      <4> QED BY ONLY <4>1, MatchInIs
    <3> QED BY <1>c, <2>1, <3>1 DEF Matches
  <2>3. Edge(h, 1) = c /\ \A e : e \in Edges(h) <=> e = c
    BY <1>3, <1>7, <1>c DEF Edge
  <2>4. CASE m = Len(c)
    <3>1. k = i + Len(c)
      BY <1>5, <1>7, <2>1, <2>3, <2>4
    <3>2. i + Len(c) <= Len(s) /\ \A n \in 1..Len(c) : n \in 1..(Len(s) - i)
      BY <1>1, <1>2, <2>2, <2>4
    <3>3. \A n \in 1..Len(c) : s[i + n] = c[n]
      BY <1>2, <2>2, <2>4, <3>2
    <3>4. Begins(Join(p, c), s)
      BY <1>1, <1>4, <3>2, <3>3
    <3> QED BY <1>h, <2>3, <3>1, <3>4
  <2>5. CASE m # Len(c)
    <3>1. k = i
      BY <1>5, <1>7, <2>1, <2>5
    <3>2. ASSUME Begins(Join(p, c), s) PROVE FALSE
      <4>1. i + Len(c) <= Len(s) /\ \A n \in 1..Len(c) : s[i + n] = c[n]
        BY <1>1, <1>4, <3>2
      <4>2. m < Len(c) /\ m # Len(r) /\ m + 1 \in 1..Len(c) /\ m + 1 \in 1..(Len(s) - i)
        BY <1>1, <1>2, <2>2, <2>5, <4>1
      <4>3. r[m + 1] = s[i + (m + 1)] /\ s[i + (m + 1)] = c[m + 1]
        BY <1>2, <4>1, <4>2
      <4> QED BY <2>2, <2>5, <4>2, <4>3
    <3> QED BY <1>h, <2>3, <3>1, <3>2
  <2> QED BY <2>4, <2>5
<1>8. CASE c # <<>> /\ i < Len(s) /\ ~h.iscompr
  <2>1. Len(Edge(h, 1)) = 1
    BY <1>8 DEF Edge
  <2>2. s[i + 1] \in Nat /\ i + 1 \in 1..Len(s) /\ i + 1 <= Len(s)
    <3>1. i + 1 \in 1..Len(s) /\ i + 1 <= Len(s)
      BY <1>1, <1>8
    <3> QED BY <3>1, WordType
  <2>3. PICK e : e = <<s[i + 1]>>
    OBVIOUS
  <2>4. e \in W /\ Len(e) = 1 /\ e[1] = s[i + 1]
    BY <2>2, <2>3 DEF W
  <2>5. CASE \E n \in 1..Len(c) : c[n] = s[i + 1]
    <3>1. k = i + 1
      BY <1>5, <1>8, <2>1, <2>5
    <3>2. e \in Edges(h)
      BY <1>3, <1>8, <2>4, <2>5
    <3>3. \A n \in 1..1 : s[i + n] = e[n]
      BY <2>4
    <3>4. Begins(Join(p, e), s)
      BY <1>4, <2>2, <2>4, <3>3
    <3> QED BY <1>h, <2>4, <3>1, <3>2, <3>4
  <2>6. CASE ~\E n \in 1..Len(c) : c[n] = s[i + 1]
    <3>1. k = i
      BY <1>5, <1>8, <2>6
    <3>2. ASSUME NEW f \in Edges(h), Begins(Join(p, f), s) PROVE FALSE
      <4>1. f \in W /\ Len(f) = 1 /\ \E n \in 1..Len(c) : f[1] = c[n]
        BY <1>3, <1>8
      <4>2. 1 \in 1..Len(f)
        BY <4>1
      <4>3. s[i + 1] = f[1]
        BY <1>4, <3>2, <4>1, <4>2
      <4> QED BY <2>6, <4>1, <4>3
    <3> QED BY <1>h, <3>1, <3>2
  <2> QED BY <2>5, <2>6
<1> QED BY <1>6, <1>7, <1>8

(* A turn goes to the next node whose address begins the word.             *)
LEMMA TurnGoesOn ==
  ASSUME NEW nodes, Form(nodes), NEW s \in W, NEW i \in 0..Len(s), Upto(s, i) \in DOMAIN nodes,
         NEW k, k = WalkTurn(nodes, s, i)
  PROVE  /\ k \in 0..Len(s) /\ k >= i /\ Upto(s, k) \in DOMAIN nodes
         /\ k = i => \A q \in DOMAIN nodes : Begins(q, s) => Len(q) <= i
         /\ \A q \in DOMAIN nodes : Begins(q, s) /\ Len(q) > i => Len(q) >= k
<1>p. PICK p : p = Upto(s, i)
  OBVIOUS
<1>1. /\ p \in W /\ Len(p) = i /\ Begins(p, s) /\ p \in DOMAIN nodes /\ Len(s) \in Nat
  BY <1>p, UptoType, GoesOn, WordType, FormType
<1>2. \/ k = i /\ \A e \in Edges(nodes[p]) : ~Begins(Join(p, e), s)
      \/ \E e \in Edges(nodes[p]) : Begins(Join(p, e), s) /\ k = i + Len(e)
  BY <1>p, <1>1, TurnIs
<1>3. \A e \in Edges(nodes[p]) : e \in W /\ Len(e) >= 1 /\ Len(e) \in Nat /\ Join(p, e) \in DOMAIN nodes
  BY <1>1, FormType, WordType
<1>4. ASSUME NEW q \in DOMAIN nodes, Begins(q, s), Len(q) > i
      PROVE  \E e \in Edges(nodes[p]) : Begins(Join(p, e), q) /\ Begins(Join(p, e), s)
  <2>1. q \in W
    BY FormType
  <2>2. Begins(p, q)
    <3>1. Len(p) <= Len(q)
      BY <1>1, <1>4, <2>1, WordType
    <3> QED BY <1>1, <1>4, <2>1, <3>1, BeginsOrder
  <2>3. Below(p, q)
    <3>1. Len(p) < Len(q)
      BY <1>1, <1>4, <2>1, WordType
    <3> QED BY <2>2, <3>1 DEF Below
  <2>4. PICK e \in Edges(nodes[p]) : Begins(Join(p, e), q)
    BY <1>1, <2>3, FormType
  <2>5. Join(p, e) \in W
    BY <1>3, FormType
  <2>6. Begins(Join(p, e), s)
    BY <1>4, <2>1, <2>4, <2>5, BeginsOrder
  <2> QED BY <2>4, <2>6
<1>5. CASE k = i
  <2>1. \A e \in Edges(nodes[p]) : ~Begins(Join(p, e), s)
    <3>1. ASSUME NEW e \in Edges(nodes[p]), k = i + Len(e) PROVE FALSE
      <4>1. Len(e) \in Nat /\ Len(e) >= 1
        BY <1>3
      <4> QED BY <1>5, <3>1, <4>1
    <3> QED BY <1>2, <3>1
  <2>2. \A q \in DOMAIN nodes : Begins(q, s) => ~(Len(q) > i)
    BY <1>4, <2>1
  <2>3. \A q \in DOMAIN nodes : Len(q) \in Nat
    BY FormType, WordType
  <2> QED BY <1>1, <1>5, <1>p, <2>2, <2>3
<1>6. CASE k # i
  <2>1. PICK e \in Edges(nodes[p]) : Begins(Join(p, e), s) /\ k = i + Len(e)
    BY <1>2, <1>6
  <2>2. e \in W /\ Len(e) >= 1 /\ Len(e) \in Nat /\ Join(p, e) \in DOMAIN nodes
    BY <1>3
  <2>3. i + Len(e) <= Len(s) /\ Join(p, e) = Upto(s, i + Len(e)) /\ \A n \in 1..Len(e) : s[i + n] = e[n]
    BY <1>p, <2>1, <2>2, GoesOn
  <2>4. k \in 0..Len(s) /\ k >= i /\ Upto(s, k) \in DOMAIN nodes
    BY <1>1, <2>1, <2>2, <2>3
  <2>5. ASSUME NEW q \in DOMAIN nodes, Begins(q, s), Len(q) > i PROVE Len(q) >= k
    <3>1. PICK f \in Edges(nodes[p]) : Begins(Join(p, f), q) /\ Begins(Join(p, f), s)
      BY <1>4, <2>5
    <3>2. f \in W /\ Len(f) >= 1 /\ Len(f) \in Nat
      BY <1>3
    <3>3. \A n \in 1..Len(f) : s[i + n] = f[n]
      BY <1>p, <3>1, <3>2, GoesOn
    <3>4. f[1] = e[1]
      <4>1. 1 \in 1..Len(f) /\ 1 \in 1..Len(e)
        BY <2>2, <3>2
      <4> QED BY <2>3, <3>3, <4>1
    <3>5. f = e
      <4>1. IsNode(nodes[p]) /\ Ordered(nodes[p])
        BY <1>1, FormType
      <4> QED BY <3>4, <4>1, EdgeType
    <3>6. Len(Join(p, e)) <= Len(q) /\ Len(Join(p, e)) = i + Len(e)
      <4>1. Len(Join(p, e)) <= Len(q)
        BY <3>1, <3>5 DEF Begins
      <4>2. Len(Join(p, e)) = Len(p) + Len(e)
        BY <1>1, <2>2, JoinType
      <4> QED BY <1>1, <4>1, <4>2
    <3>7. Len(q) \in Nat
      BY FormType, WordType
    <3> QED BY <2>1, <2>2, <3>6, <3>7
  <2> QED BY <1>6, <2>4, <2>5
<1> QED BY <1>5, <1>6

(* The nodes that a walk passes.                                           *)
Walks(nodes, s, at) == at = Iterate([i \in 0..Len(s) |-> WalkTurn(nodes, s, i)], 0)

LEMMA WalkPasses ==
  ASSUME NEW nodes, Form(nodes), NEW s \in W, NEW at, Walks(nodes, s, at)
  PROVE  /\ \A k \in 0..Len(s) : at[k] \in 0..Len(s) /\ Upto(s, at[k]) \in DOMAIN nodes
         /\ \A q \in DOMAIN nodes : Begins(q, s) => Len(q) <= at[Len(s)]
         /\ \A q \in DOMAIN nodes : Begins(q, s) => \E k \in 0..Len(s) : at[k] = Len(q)
<1>1. PICK F : F = [i \in 0..Len(s) |-> WalkTurn(nodes, s, i)]
  OBVIOUS
<1>2. at[0] = 0 /\ \A k \in Nat : at[k + 1] = F[at[k]]
  <2>1. at = Iterate(F, 0)
    BY <1>1 DEF Walks
  <2>2. Iterate(F, 0)[0] = 0 /\ \A k \in Nat : Iterate(F, 0)[k + 1] = F[Iterate(F, 0)[k]]
    BY ONLY IterateDef
  <2> QED BY ONLY <2>1, <2>2
<1>3. Len(s) \in Nat /\ \A q \in DOMAIN nodes : Len(q) \in Nat /\ q \in W
  BY WordType, FormType
<1> DEFINE P(n) ==
      /\ at[n] \in 0..Len(s) /\ Upto(s, at[n]) \in DOMAIN nodes
      /\ at[n] >= n \/ \A q \in DOMAIN nodes : Begins(q, s) => Len(q) <= at[n]
      /\ \A q \in DOMAIN nodes : Begins(q, s) /\ Len(q) <= at[n] => \E k \in 0..n : at[k] = Len(q)
<1> DEFINE S == {n \in Nat : P(n)}
<1>4. P(0)
  <2>1. 0 \in 0..Len(s) /\ 0 \in 0..0
    BY <1>3
  <2>2. Upto(s, 0) = Root
    <3>1. Upto(s, 0) \in W /\ Len(Upto(s, 0)) = 0
      BY <2>1, UptoType
    <3> QED BY <3>1, WordType DEF Root
  <2>3. Root \in DOMAIN nodes
    BY DEF Form
  <2>4. \A q \in DOMAIN nodes : Len(q) <= 0 => Len(q) = 0
    BY <1>3
  <2>5. PICK i : i = at[0]
    OBVIOUS
  <2>6. i = 0
    BY ONLY <1>2, <2>5
  <2>7. i \in 0..Len(s) /\ Upto(s, i) \in DOMAIN nodes /\ i >= 0
    BY ONLY <2>1, <2>2, <2>3, <2>6
  <2>8. \A q \in DOMAIN nodes : Begins(q, s) /\ Len(q) <= i => \E k \in 0..0 : at[k] = Len(q)
    BY ONLY <2>1, <2>4, <2>5, <2>6
  <2> QED BY ONLY <2>5, <2>7, <2>8
<1>5. ASSUME NEW n \in Nat, P(n) PROVE P(n + 1)
  <2>1. PICK i : i = at[n]
    OBVIOUS
  <2>2. PICK k : k = at[n + 1]
    OBVIOUS
  <2>3. i \in 0..Len(s) /\ Upto(s, i) \in DOMAIN nodes
    BY <1>5, <2>1
  <2>4. k = WalkTurn(nodes, s, i)
    BY <1>1, <1>2, <2>1, <2>2, <2>3
  <2>5. /\ k \in 0..Len(s) /\ k >= i /\ Upto(s, k) \in DOMAIN nodes
        /\ k = i => \A q \in DOMAIN nodes : Begins(q, s) => Len(q) <= i
        /\ \A q \in DOMAIN nodes : Begins(q, s) /\ Len(q) > i => Len(q) >= k
    BY <2>3, <2>4, TurnGoesOn
  <2>6. k >= n + 1 \/ \A q \in DOMAIN nodes : Begins(q, s) => Len(q) <= k
    <3>1. CASE k = i
      BY <2>5, <3>1
    <3>2. CASE k # i /\ i >= n
      BY <2>3, <2>5, <3>2
    <3>3. CASE ~(i >= n)
      <4>1. \A q \in DOMAIN nodes : Begins(q, s) => Len(q) <= i
        BY <1>5, <2>1, <3>3
      <4> QED BY <1>3, <2>3, <2>5, <4>1
    <3> QED BY <3>1, <3>2, <3>3
  <2>7. ASSUME NEW q \in DOMAIN nodes, Begins(q, s), Len(q) <= k PROVE \E l \in 0..(n + 1) : at[l] = Len(q)
    <3>1. CASE Len(q) <= i
      <4>1. PICK l \in 0..n : at[l] = Len(q)
        BY <1>5, <2>1, <2>7, <3>1
      <4>2. l \in 0..(n + 1)
        OBVIOUS
      <4> QED BY <4>1, <4>2
    <3>2. CASE ~(Len(q) <= i)
      <4>1. Len(q) > i
        BY <1>3, <2>3, <3>2
      <4>2. Len(q) = k
        BY <1>3, <2>3, <2>5, <2>7, <4>1
      <4>3. n + 1 \in 0..(n + 1)
        OBVIOUS
      <4> QED BY <2>2, <4>2, <4>3
    <3> QED BY <3>1, <3>2
  <2> QED BY <2>2, <2>5, <2>6, <2>7
<1>6. 0 \in S /\ \A n \in Nat : n \in S => n + 1 \in S
  BY <1>4, <1>5
<1>7. \A n \in Nat : P(n)
  <2>1. Nat \subseteq S
    <3> HIDE DEF S
    <3> QED BY <1>6, NaturalInduction
  <2> QED BY <2>1
<1>8. \A k \in 0..Len(s) : at[k] \in 0..Len(s) /\ Upto(s, at[k]) \in DOMAIN nodes
  <2>1. \A k \in 0..Len(s) : k \in Nat
    OBVIOUS
  <2> QED BY <1>7, <2>1
<1>9. \A q \in DOMAIN nodes : Begins(q, s) => Len(q) <= at[Len(s)]
  <2>1. P(Len(s))
    BY <1>3, <1>7
  <2>2. \A q \in DOMAIN nodes : Begins(q, s) => Len(q) <= Len(s)
    BY DEF Begins
  <2> QED BY <1>3, <2>1, <2>2
<1>10. \A q \in DOMAIN nodes : Begins(q, s) => \E k \in 0..Len(s) : at[k] = Len(q)
  BY <1>3, <1>7, <1>9
<1> QED BY <1>8, <1>9, <1>10

(* What raxLowWalk returns: the last node whose address begins the word,   *)
(* how far into its edge the word goes, and on its path every node whose   *)
(* address begins the word.                                                *)
Walked(nodes, s, w) ==
  /\ WalkStops(nodes, s, w.h, w.i, w.j)
  /\ w.h \in DOMAIN nodes /\ Begins(w.h, s) /\ w.i = Len(w.h) + w.j
  /\ \A q \in DOMAIN nodes : Begins(q, s) => Len(q) <= Len(w.h)
  /\ \A q : q \in w.path <=> q \in DOMAIN nodes /\ Begins(q, s)

(* raxLowWalk is what Walked says, for every tree and every word.          *)
LEMMA WalkIs ==
  ASSUME NEW tree, NEW nodes, nodes = tree.nodes, Form(nodes), NEW s \in W, NEW w, w = raxLowWalk(tree, s)
  PROVE  Walked(nodes, s, w)
<1>1. PICK at : at = Iterate([i \in 0..Len(s) |-> WalkTurn(nodes, s, i)], 0)
  OBVIOUS
<1>2. /\ \A k \in 0..Len(s) : at[k] \in 0..Len(s) /\ Upto(s, at[k]) \in DOMAIN nodes
      /\ \A q \in DOMAIN nodes : Begins(q, s) => Len(q) <= at[Len(s)]
      /\ \A q \in DOMAIN nodes : Begins(q, s) => \E k \in 0..Len(s) : at[k] = Len(q)
  <2>1. Walks(nodes, s, at)
    BY <1>1 DEF Walks
  <2> QED BY ONLY Form(nodes), s \in W, <2>1, WalkPasses
<1>3. Len(s) \in Nat /\ Len(s) \in 0..Len(s)
  BY WordType
<1>4. PICK end : end = at[Len(s)]
  OBVIOUS
<1>p. PICK p : p = Upto(s, end)
  OBVIOUS
<1>h. PICK h : h = nodes[p]
  OBVIOUS
<1>c. PICK c : c = h.chars
  OBVIOUS
<1>r. PICK r : r = Rest(s, end)
  OBVIOUS
<1>5. PICK j : j = IF h.iscompr THEN MatchIn(h, r) ELSE 0
  OBVIOUS
<1>6. w = [i |-> end + j, j |-> j, h |-> p, path |-> {Upto(s, at[k]) : k \in 0..Len(s)}]
  BY <1>1, <1>4, <1>5, <1>h, <1>p, <1>r DEF raxLowWalk
<1>7. end \in 0..Len(s) /\ p \in DOMAIN nodes
  BY <1>2, <1>3, <1>4, <1>p
<1>8. p \in W /\ Len(p) = end /\ Begins(p, s) /\ IsNode(h) /\ Ordered(h) /\ c \in W /\ Len(c) \in Nat
  <2>1. p \in W /\ Len(p) = end /\ Begins(p, s)
    <3>1. <<>> \in W
      BY DEF W
    <3> QED BY <1>7, <1>p, <3>1, GoesOn
  <2> QED BY <2>1, <1>7, <1>h, <1>c, FormType, WordType
<1>9. r \in W /\ Len(r) = Len(s) - end /\ \A n \in 1..(Len(s) - end) : r[n] = s[end + n]
  BY <1>7, <1>r, RestType
<1>10. \A q \in DOMAIN nodes : Begins(q, s) => Len(q) <= Len(p)
  BY <1>2, <1>4, <1>8
<1>11. \A e \in Edges(h) : e \in W /\ Len(e) >= 1 /\ Len(e) \in Nat /\ ~Begins(Join(p, e), s)
  <2>1. SUFFICES ASSUME NEW e \in Edges(h) PROVE e \in W /\ Len(e) >= 1 /\ Len(e) \in Nat /\ ~Begins(Join(p, e), s)
    OBVIOUS
  <2>2. e \in W /\ Len(e) >= 1 /\ Len(e) \in Nat /\ Join(p, e) \in DOMAIN nodes
    BY <1>7, <1>h, FormType, WordType
  <2>3. Len(Join(p, e)) = Len(p) + Len(e) /\ Len(p) \in Nat
    BY <1>8, <2>2, JoinType, WordType
  <2>4. ~(Len(Join(p, e)) <= Len(p))
    BY <2>2, <2>3
  <2> QED BY <1>10, <2>2, <2>4
<1>12. WalkStops(nodes, s, p, end + j, j)
  <2>1. CASE h.iscompr
    <3>1. /\ j \in 0..Len(c) /\ j <= Len(r)
          /\ j = Len(c) \/ j = Len(r) \/ c[j + 1] # r[j + 1]
          /\ \A k \in 1..j : c[k] = r[k]
      <4>1. j = MatchIn(h, r)
        BY <1>5, <2>1
      <4>2. h.chars \in W /\ r \in W
        BY <1>8, <1>9, <1>c
      <4>3. Matches(h.chars, r, MatchIn(h, r))
        BY ONLY <4>2, MatchInIs
      <4> QED BY <1>c, <4>1, <4>3 DEF Matches
    <3>2. \A k \in 1..j : s[end + k] = c[k]
      <4>1. \A k \in 1..j : k \in 1..(Len(s) - end)
        BY <1>3, <1>7, <1>9, <3>1
      <4> QED BY <1>9, <3>1, <4>1
    <3>3. end + j <= Len(s)
      BY <1>3, <1>7, <1>9, <3>1
    <3>4. j # Len(c)
      <4>1. SUFFICES ASSUME j = Len(c) PROVE FALSE
        OBVIOUS
      <4>2. c \in Edges(h)
        BY <1>8, <1>c, <2>1, EdgeType
      <4>3. Begins(Join(p, c), s)
        <5>1. end + Len(c) <= Len(s) /\ \A k \in 1..Len(c) : s[end + k] = c[k]
          BY <3>2, <3>3, <4>1
        <5> QED BY <1>7, <1>8, <1>p, <5>1, GoesOn
      <4> QED BY <1>11, <4>2, <4>3
    <3>5. j < Len(c) /\ j \in 0..Len(c) /\ j \in Nat
      BY <1>8, <3>1, <3>4
    <3>6. Join(p, Upto(c, j)) = Upto(s, end + j)
      <4>1. PICK u : u = Upto(c, j)
        OBVIOUS
      <4>2. u \in W /\ Len(u) = j /\ \A k \in 1..j : u[k] = c[k]
        BY <1>8, <3>5, <4>1, UptoType
      <4>3. Begins(Join(p, u), s)
        <5>1. end + Len(u) <= Len(s) /\ \A k \in 1..Len(u) : s[end + k] = u[k]
          BY <3>2, <3>3, <4>2
        <5> QED BY <1>7, <1>p, <4>2, <5>1, GoesOn
      <4>4. Join(p, u) = Upto(s, end + Len(u))
        BY <1>7, <1>p, <4>2, <4>3, GoesOn
      <4> QED BY <4>1, <4>2, <4>4
    <3>7. ASSUME end + j < Len(s) PROVE s[(end + j) + 1] # c[j + 1]
      <4>1. j # Len(r) /\ j + 1 \in 1..(Len(s) - end) /\ end + (j + 1) = (end + j) + 1
        BY <1>3, <1>7, <1>9, <3>5, <3>7
      <4>2. c[j + 1] # r[j + 1] /\ r[j + 1] = s[(end + j) + 1]
        BY <1>9, <3>1, <3>4, <4>1
      <4> QED BY <4>2
    <3>8. end + j \in 0..Len(s)
      BY <1>3, <1>7, <3>3, <3>5
    <3> QED BY <1>7, <1>h, <1>c, <2>1, <3>5, <3>6, <3>7, <3>8 DEF WalkStops
  <2>2. CASE ~h.iscompr
    <3>1. j = 0 /\ end + j = end
      BY <1>5, <1>7, <2>2
    <3>2. ASSUME end < Len(s), NEW f \in Edges(h) PROVE f[1] # s[end + 1]
      <4>1. f \in W /\ Len(f) = 1 /\ ~Begins(Join(p, f), s)
        BY <1>8, <1>11, <2>2, EdgeType
      <4>2. end + Len(f) <= Len(s)
        BY <1>3, <1>7, <3>2, <4>1
      <4>3. ~\A k \in 1..Len(f) : s[end + k] = f[k]
        BY <1>7, <1>p, <4>1, <4>2, GoesOn
      <4> QED BY <4>1, <4>3
    <3> QED BY <1>7, <1>h, <1>p, <2>2, <3>1, <3>2 DEF WalkStops
  <2> QED BY <2>1, <2>2
<1>13. w.i = end + j /\ w.j = j /\ w.h = p /\ w.path = {Upto(s, at[k]) : k \in 0..Len(s)}
  BY <1>6
<1>14. \A q : q \in w.path <=> q \in DOMAIN nodes /\ Begins(q, s)
  <2>1. ASSUME NEW q, q \in w.path PROVE q \in DOMAIN nodes /\ Begins(q, s)
    <3>1. PICK k \in 0..Len(s) : q = Upto(s, at[k])
      BY <1>13, <2>1
    <3>2. at[k] \in 0..Len(s) /\ q \in DOMAIN nodes
      BY <1>2, <3>1
    <3>3. <<>> \in W
      BY DEF W
    <3> QED BY <3>1, <3>2, <3>3, GoesOn
  <2>2. ASSUME NEW q \in DOMAIN nodes, Begins(q, s) PROVE q \in w.path
    <3>1. PICK k \in 0..Len(s) : at[k] = Len(q)
      BY <1>2, <2>2
    <3>2. q \in W
      BY FormType
    <3>3. q = Upto(s, at[k])
      BY <2>2, <3>1, <3>2, UptoBegins
    <3> QED BY <1>13, <3>3
  <2> QED BY <2>1, <2>2
<1> QED BY <1>7, <1>8, <1>10, <1>12, <1>13, <1>14 DEF Walked

-----------------------------------------------------------------------------
(***************************************************************************)
(* 7. The operations of the tree.                                          *)
(***************************************************************************)

(* The walk ends at the word if and only if the word is an address.        *)
LEMMA NodeOf ==
  ASSUME NEW tree, NEW nodes, nodes = tree.nodes, Form(nodes), NEW s \in W, NEW w, Walked(nodes, s, w)
  PROVE  /\ IsNodeOf(tree, w, s) <=> s \in DOMAIN nodes
         /\ s \in DOMAIN nodes => w.h = s
<1>p. PICK p : p = w.h
  OBVIOUS
<1>i. PICK i : i = w.i
  OBVIOUS
<1>j. PICK j : j = w.j
  OBVIOUS
<1>1. /\ WalkStops(nodes, s, p, i, j) /\ p \in DOMAIN nodes /\ Begins(p, s) /\ i = Len(p) + j
      /\ \A q \in DOMAIN nodes : Begins(q, s) => Len(q) <= Len(p)
  BY <1>p, <1>i, <1>j DEF Walked
<1>2. p \in W /\ Len(p) \in Nat /\ Len(s) \in Nat /\ i \in 0..Len(s) /\ j \in Nat /\ (~nodes[p].iscompr => j = 0)
  <2>1. p \in W
    BY <1>1, FormType
  <2>2. i \in 0..Len(s) /\ j \in Nat /\ (~nodes[p].iscompr => j = 0)
    BY <1>1 DEF WalkStops
  <2> QED BY <2>1, <2>2, WordType
<1>3. IsNodeOf(tree, w, s) <=> i = Len(s) /\ (nodes[p].iscompr => j = 0)
  BY <1>p, <1>i, <1>j DEF IsNodeOf
<1>4. ASSUME s \in DOMAIN nodes PROVE p = s
  <2>1. Begins(s, s)
    BY BeginsOrder
  <2>2. Len(s) <= Len(p)
    BY <1>1, <1>4, <2>1
  <2> QED BY <1>1, <1>2, <2>2, BeginsOrder
<1>5. ASSUME s \in DOMAIN nodes PROVE i = Len(s) /\ j = 0
  <2>1. Len(p) = Len(s)
    BY <1>4, <1>5
  <2> QED BY <1>1, <1>2, <2>1
<1>6. ASSUME i = Len(s), nodes[p].iscompr => j = 0 PROVE s \in DOMAIN nodes
  <2>1. j = 0
    BY <1>2, <1>6
  <2>2. Len(s) <= Len(p)
    BY <1>1, <1>2, <1>6, <2>1
  <2>3. p = s
    BY <1>1, <1>2, <2>2, BeginsOrder
  <2> QED BY <1>1, <2>3
<1> QED BY <1>3, <1>4, <1>5, <1>6, <1>p

(* The words of a tree are its keys.                                       *)
LEMMA WordsIs ==
  ASSUME NEW tree
  PROVE  \A x : x \in WordsOf(tree) <=> x \in DOMAIN tree.nodes /\ tree.nodes[x].iskey
BY DEF WordsOf

(* Nothing is left of a word at its end.                                   *)
LEMMA NoRest ==
  ASSUME NEW s \in W, NEW i \in 0..Len(s)
  PROVE  Rest(s, i) = <<>> <=> i = Len(s)
<1>1. PICK r : r = Rest(s, i)
  OBVIOUS
<1>2. r \in W /\ Len(r) = Len(s) - i
  BY <1>1, RestType
<1>3. r = <<>> <=> Len(r) = 0
  BY <1>2, WordType
<1>4. Len(s) \in Nat
  BY WordType
<1> QED BY ONLY <1>1, <1>2, <1>3, <1>4, i \in 0..Len(s)

(* All cases of raxGenericInsert put the word in and count their nodes.    *)
LEMMA InsertedIs ==
  ASSUME NEW tree, NEW nodes, nodes = tree.nodes, Form(nodes), \A x \in DOMAIN nodes : Tight(nodes, x),
         NEW s \in W, NEW data \in Int, NEW w, Walked(nodes, s, w), NEW N, N = InsertedNodes(tree, w, s, data)
  PROVE  /\ Inserted(nodes, s, data, N)
         /\ Cardinality(DOMAIN N) = Cardinality(DOMAIN nodes) + NewNodes(nodes[w.h], w.j, Rest(s, w.i))
<1>p. PICK p : p = w.h
  OBVIOUS
<1>i. PICK i : i = w.i
  OBVIOUS
<1>j. PICK j : j = w.j
  OBVIOUS
<1>r. PICK r : r = Rest(s, i)
  OBVIOUS
<1>1. WalkStops(nodes, s, p, i, j)
  BY <1>p, <1>i, <1>j DEF Walked
<1>2. i \in 0..Len(s) /\ Len(s) \in Nat /\ j \in Nat /\ p \in DOMAIN nodes
  BY <1>1, WordType DEF WalkStops
<1>3. r = <<>> <=> i = Len(s)
  BY <1>2, <1>r, NoRest
<1>4. N = CASE r # <<>> /\ nodes[p].iscompr -> Extend(SplitAt(nodes, p, j), Join(p, Upto(nodes[p].chars, j)), r, data)
            [] r = <<>> /\ nodes[p].iscompr /\ j # 0 -> Extend(CutAt(nodes, p, j), Join(p, Upto(nodes[p].chars, j)), r, data)
            [] OTHER -> Extend(nodes, p, r, data)
  BY <1>p, <1>i, <1>j, <1>r DEF InsertedNodes, Join
<1>5. Cardinality(DOMAIN nodes) \in Nat
  BY FS_CardinalityType DEF Form
<1>6. PICK h : h = nodes[p]
  OBVIOUS
<1>7. CASE r # <<>> /\ nodes[p].iscompr
  <2>1. N = Extend(SplitAt(nodes, p, j), Join(p, Upto(nodes[p].chars, j)), r, data)
    BY <1>4, <1>7
  <2>2. i < Len(s)
    BY <1>2, <1>3, <1>7
  <2>3. /\ Inserted(nodes, s, data, N)
        /\ Cardinality(DOMAIN N) = Cardinality(DOMAIN nodes) + (IF j = 0 THEN 0 ELSE 1)
             + (IF j + 1 = Len(nodes[p].chars) THEN 0 ELSE 1) + NodesAdded(SplitNode(nodes[p], j), r)
    BY <1>1, <1>7, <1>r, <2>1, <2>2, InsertAtSplit
  <2>4. NewNodes(h, j, r) = (IF j = 0 THEN 0 ELSE 1) + (IF j + 1 = Len(h.chars) THEN 0 ELSE 1) + NodesAdded(SplitNode(h, j), r)
    BY <1>6, <1>7 DEF NewNodes
  <2>5. NodesAdded(SplitNode(h, j), r) \in Int
    BY DEF NodesAdded
  <2>6. Cardinality(DOMAIN N) = Cardinality(DOMAIN nodes) + NewNodes(h, j, r)
    BY <1>5, <1>6, <2>3, <2>4, <2>5
  <2> QED BY <1>6, <1>p, <1>i, <1>j, <1>r, <2>3, <2>6
<1>8. CASE r = <<>> /\ nodes[p].iscompr /\ j # 0
  <2>1. N = Extend(CutAt(nodes, p, j), Join(p, Upto(nodes[p].chars, j)), r, data)
    BY <1>4, <1>8
  <2>2. /\ Inserted(nodes, s, data, N)
        /\ Cardinality(DOMAIN N) = Cardinality(DOMAIN nodes) + 1
    BY <1>1, <1>3, <1>8, <1>r, <2>1, InsertAtCut
  <2>3. NewNodes(h, j, r) = 1
    BY <1>6, <1>8 DEF NewNodes
  <2> QED BY <1>6, <1>p, <1>i, <1>j, <1>r, <2>2, <2>3
<1>9. CASE ~(r # <<>> /\ nodes[p].iscompr) /\ ~(r = <<>> /\ nodes[p].iscompr /\ j # 0)
  <2>1. N = Extend(nodes, p, r, data)
    BY <1>4, <1>9
  <2>2. nodes[p].iscompr => i = Len(s) /\ j = 0
    BY <1>3, <1>9
  <2>3. /\ Inserted(nodes, s, data, N)
        /\ Cardinality(DOMAIN N) = Cardinality(DOMAIN nodes) + NodesAdded(nodes[p], r)
    BY <1>1, <1>r, <2>1, <2>2, InsertAtNode
  <2>4. NewNodes(h, j, r) = NodesAdded(h, r)
    BY <1>6, <1>9 DEF NewNodes
  <2> QED BY <1>6, <1>p, <1>i, <1>j, <1>r, <2>3, <2>4
<1> QED BY <1>7, <1>8, <1>9

(* A tree with the form, tight, whose counters are right: it is kept by    *)
(* every insertion.                                                        *)
Sound(tree) ==
  /\ Form(tree.nodes) /\ \A x \in DOMAIN tree.nodes : Tight(tree.nodes, x)
  /\ CountsAgree(tree)

(* raxInsert keeps a tree sound, adds one word or none, sets its data and  *)
(* changes that of no other word (raxGenericInsert).                       *)
THEOREM InsertIs ==
  ASSUME NEW tree, Sound(tree), NEW s \in W, NEW data \in Int
  PROVE  /\ Sound(raxInsert(tree, s, data))
         /\ \A x : x \in WordsOf(raxInsert(tree, s, data)) <=> x \in WordsOf(tree) \/ x = s
         /\ raxInsert(tree, s, data).nodes[s].data = data
         /\ \A x \in WordsOf(tree) : x # s => raxInsert(tree, s, data).nodes[x].data = tree.nodes[x].data
<1>n. PICK nodes : nodes = tree.nodes
  OBVIOUS
<1>w. PICK w : w = raxLowWalk(tree, s)
  OBVIOUS
<1>t. PICK t : t = raxInsert(tree, s, data)
  OBVIOUS
<1>N. PICK N : N = InsertedNodes(tree, w, s, data)
  OBVIOUS
<1>1. /\ Form(nodes) /\ \A x \in DOMAIN nodes : Tight(nodes, x)
      /\ tree.numnodes = Cardinality(DOMAIN nodes) /\ tree.numele = Cardinality(WordsOf(tree))
  BY <1>n DEF Sound, CountsAgree
<1>2. Walked(nodes, s, w)
  BY <1>1, <1>n, <1>w, WalkIs
<1>3. /\ Inserted(nodes, s, data, N)
      /\ Cardinality(DOMAIN N) = Cardinality(DOMAIN nodes) + NewNodes(nodes[w.h], w.j, Rest(s, w.i))
  BY <1>1, <1>2, <1>n, <1>N, InsertedIs
<1>4. t = [nodes |-> N,
           numele |-> tree.numele + (IF IsNodeOf(tree, w, s) /\ nodes[w.h].iskey THEN 0 ELSE 1),
           numnodes |-> tree.numnodes + NewNodes(nodes[w.h], w.j, Rest(s, w.i))]
  BY <1>n, <1>w, <1>t, <1>N DEF raxInsert
<1>5. /\ IsNodeOf(tree, w, s) <=> s \in DOMAIN nodes
      /\ s \in DOMAIN nodes => w.h = s
  BY <1>1, <1>2, <1>n, NodeOf
<1>6. t.nodes = N /\ t.numele = tree.numele + (IF s \in WordsOf(tree) THEN 0 ELSE 1)
        /\ t.numnodes = Cardinality(DOMAIN N)
  <2>1. IsNodeOf(tree, w, s) /\ nodes[w.h].iskey <=> s \in WordsOf(tree)
    BY <1>5, <1>n, WordsIs
  <2>2. t.nodes = N
    BY <1>4
  <2>3. t.numnodes = tree.numnodes + NewNodes(nodes[w.h], w.j, Rest(s, w.i))
    BY <1>4
  <2>4. t.numele = tree.numele + (IF IsNodeOf(tree, w, s) /\ nodes[w.h].iskey THEN 0 ELSE 1)
    BY <1>4
  <2> QED BY <1>1, <1>3, <2>1, <2>2, <2>3, <2>4
<1>7. /\ Form(N) /\ \A x \in DOMAIN N : Tight(N, x)
      /\ \A x \in DOMAIN nodes : x \in DOMAIN N
      /\ s \in DOMAIN N /\ N[s].iskey /\ N[s].data = data
      /\ \A x \in DOMAIN N : x # s => SameKey(nodes, N, x)
  BY <1>3 DEF Inserted
<1>8. \A x : x \in WordsOf(t) <=> x \in WordsOf(tree) \/ x = s
  <2>1. ASSUME NEW x, x # s PROVE x \in WordsOf(t) <=> x \in WordsOf(tree)
    <3>1. x \in WordsOf(tree) <=> x \in DOMAIN nodes /\ nodes[x].iskey
      BY <1>n, WordsIs
    <3>2. x \in WordsOf(t) <=> x \in DOMAIN N /\ N[x].iskey
      BY <1>6, WordsIs
    <3>3. x \in DOMAIN N => (N[x].iskey <=> x \in DOMAIN nodes /\ nodes[x].iskey)
      BY <1>7, <2>1 DEF SameKey
    <3> QED BY <1>7, <3>1, <3>2, <3>3
  <2>2. s \in WordsOf(t)
    BY <1>6, <1>7, WordsIs
  <2> QED BY <2>1, <2>2
<1>9. t.numele = Cardinality(WordsOf(t))
  <2>1. IsFiniteSet(WordsOf(tree))
    <3>1. WordsOf(tree) \subseteq DOMAIN nodes /\ IsFiniteSet(DOMAIN nodes)
      BY <1>1, <1>n, WordsIs DEF Form
    <3> QED BY <3>1, FS_Subset
  <2>2. CASE s \in WordsOf(tree)
    <3>1. WordsOf(t) = WordsOf(tree)
      BY <1>8, <2>2
    <3>2. Cardinality(WordsOf(tree)) \in Nat
      BY <2>1, FS_CardinalityType
    <3> QED BY <1>1, <1>6, <2>2, <3>1, <3>2
  <2>3. CASE s \notin WordsOf(tree)
    <3>1. Cardinality(WordsOf(t)) = Cardinality(WordsOf(tree)) + 1
      BY <1>8, <2>1, <2>3, OneMore
    <3> QED BY <1>1, <1>6, <2>3, <3>1
  <2> QED BY <2>2, <2>3
<1>10. Sound(t)
  BY <1>6, <1>7, <1>9 DEF Sound, CountsAgree
<1>11. ASSUME NEW x \in WordsOf(tree), x # s PROVE N[x].data = nodes[x].data
  <2>1. x \in DOMAIN nodes /\ nodes[x].iskey
    BY <1>n, WordsIs
  <2>2. x \in DOMAIN N /\ SameKey(nodes, N, x)
    BY <1>7, <1>11, <2>1
  <2> QED BY <2>1, <2>2 DEF SameKey
<1> QED BY <1>6, <1>7, <1>8, <1>10, <1>11, <1>n, <1>t

(* A new tree is sound and holds nothing.                                  *)
LEMMA NewIs ==
  /\ Sound(raxNew) /\ \A x : x \notin WordsOf(raxNew)
<1>1. PICK nodes : nodes = [p \in {Root} |-> NewNode]
  OBVIOUS
<1>2. raxNew.nodes = nodes /\ raxNew.numele = 0 /\ raxNew.numnodes = 1
  BY <1>1 DEF raxNew
<1>3. DOMAIN nodes = {Root} /\ nodes[Root] = NewNode /\ IsFcn(nodes)
  BY <1>1 DEF IsFcn
<1>4. IsNode(NewNode) /\ Ordered(NewNode) /\ ~NewNode.iskey /\ NewNode.chars = <<>> /\ \A e : e \notin Edges(NewNode)
  BY LeafIs
<1>5. Root \in W /\ Len(Root) = 0
  BY DEF Root, W
<1>6. IsFiniteSet({Root}) /\ Cardinality({Root}) = 1
  BY FS_Singleton
<1>7. \A p \in DOMAIN nodes : Linked(nodes, p)
  <2>1. \A q \in DOMAIN nodes : ~Below(Root, q)
    BY <1>3, <1>5 DEF Below
  <2> QED BY <1>3, <1>4, <2>1 DEF Linked
<1>8. Form(nodes)
  BY <1>3, <1>4, <1>5, <1>6, <1>7 DEF Form
<1>9. \A p \in DOMAIN nodes : Tight(nodes, p)
  BY <1>3, <1>4 DEF Tight
<1>10. \A x : x \notin WordsOf(raxNew)
  BY <1>2, <1>3, <1>4, WordsIs
<1>11. Cardinality(WordsOf(raxNew)) = 0
  <2>1. WordsOf(raxNew) = {}
    BY <1>10
  <2> QED BY <2>1, FS_EmptySet
<1> QED BY <1>2, <1>3, <1>6, <1>8, <1>9, <1>10, <1>11 DEF Sound, CountsAgree

(* A sound tree is as the comments of rax.c describe it.                   *)
LEMMA SoundIsTree ==
  ASSUME NEW tree, Sound(tree)
  PROVE  IsTree(tree)
<1>n. PICK nodes : nodes = tree.nodes
  OBVIOUS
<1>1. Form(nodes) /\ \A x \in DOMAIN nodes : Tight(nodes, x)
  BY <1>n DEF Sound
<1>2. ASSUME NEW p \in DOMAIN nodes PROVE WellFormed(nodes, p)
  <2>n. PICK n : n = nodes[p]
    OBVIOUS
  <2>1. /\ p \in W /\ IsNode(n) /\ n.chars \in W /\ Ordered(n)
        /\ \A e \in Edges(n) : e \in W /\ Len(e) >= 1 /\ Join(p, e) \in DOMAIN nodes /\ Join(p, e) \in W
        /\ \A q \in DOMAIN nodes : Below(p, q) => \E e \in Edges(n) : Begins(Join(p, e), q)
    BY <1>1, <2>n, FormType
  <2>2. \A e : e \in Edges(n) <=> \E k \in 1..Degree(n) : e = Edge(n, k)
    BY DEF Edges
  <2>3. \A k : Child(nodes, p, k) = Join(p, Edge(n, k))
    BY <2>n DEF Child, Join
  <2>4. \A k \in 1..Degree(n) : Child(nodes, p, k) \in DOMAIN nodes
    BY <2>1, <2>2, <2>3
  <2>5. ASSUME NEW q \in DOMAIN nodes, IsStrictPrefix(p, q)
        PROVE  \E k \in 1..Degree(n) : IsPrefix(Child(nodes, p, k), q)
    <3>1. q \in W
      BY <1>1, FormType
    <3>2. Below(p, q)
      BY <2>1, <2>5, <3>1, PrefixIs DEF Below
    <3>3. PICK e \in Edges(n) : Begins(Join(p, e), q)
      BY <2>1, <3>2
    <3>4. IsPrefix(Join(p, e), q)
      BY <2>1, <3>1, <3>3, PrefixIs
    <3>5. PICK k \in 1..Degree(n) : e = Edge(n, k)
      BY <2>2
    <3> QED BY <2>3, <3>4, <3>5
  <2>6. Tight(nodes, p)
    BY <1>1
  <2>7. n.chars = <<>> => n.iskey \/ p = Root
    <3>1. n.chars = <<>> => \A e : e \notin Edges(n)
      BY <2>1, EdgesOrNone
    <3> QED BY <2>6, <2>n, <3>1 DEF Tight
  <2>8. ASSUME Degree(n) = 1
        PROVE  nodes[Child(nodes, p, 1)].iskey \/ Degree(nodes[Child(nodes, p, 1)]) > 1
    <3>1. \A e : e \in Edges(n) <=> e = Edge(n, 1)
      <4>1. \A k : k \in 1..1 <=> k = 1
        OBVIOUS
      <4> QED BY <2>2, <2>8, <4>1
    <3>2. PICK m : m = nodes[Child(nodes, p, 1)]
      OBVIOUS
    <3>3. Solid(m)
      BY <2>3, <2>6, <2>n, <3>1, <3>2 DEF Tight
    <3>4. Degree(m) \in Nat
      <4>1. IsNode(m)
        BY <1>1, <2>4, <2>8, <3>2 DEF Form
      <4> QED BY <4>1, WordType DEF IsNode, Degree
    <3>5. ASSUME Branches(m) PROVE Degree(m) > 1
      <4>1. PICK e \in Edges(m), f \in Edges(m) : e # f
        BY <3>5 DEF Branches
      <4>2. PICK k \in 1..Degree(m) : e = Edge(m, k)
        BY DEF Edges
      <4>3. PICK l \in 1..Degree(m) : f = Edge(m, l)
        BY DEF Edges
      <4>4. k # l
        BY <4>1, <4>2, <4>3
      <4> QED BY <3>4, <4>4
    <3> QED BY <3>2, <3>3, <3>5 DEF Solid
  <2>9. IF n.iscompr THEN Len(n.chars) > 1
        ELSE \A k, l \in DOMAIN n.chars : k < l => n.chars[k] < n.chars[l]
    BY <2>1 DEF Ordered
  <2> QED BY <2>4, <2>5, <2>7, <2>8, <2>9, <2>n DEF WellFormed
<1> QED BY <1>1, <1>2, <1>n DEF IsTree, Form
=============================================================================
