------------------------- MODULE RaxIterator_proofs -------------------------
(***************************************************************************)
(* The iterator of the radix tree, for every sound tree and every word: a  *)
(* seek with "<=" finds the last word that is not after the one sought,    *)
(* and raxNext goes through the words in order.                            *)
(*                                                                         *)
(* The order of the words is that of their bytes. Each loop of the         *)
(* iterator is followed by induction over its turns, with a measure that   *)
(* shows why it needs no more of them than the tree is deep.               *)
(***************************************************************************)
EXTENDS Rax_proofs

(***************************************************************************)
(* 1. The order of the words.                                              *)
(***************************************************************************)

(* The order of the words: one comes before another that it begins, or     *)
(* that has a greater character where they part.                           *)
PartAt(s, t, k) ==
  /\ k >= 1 /\ k <= Len(s) /\ k <= Len(t)
  /\ \A l \in 1..(k - 1) : s[l] = t[l]
  /\ s[k] < t[k]

Apart(s, t) == \E k \in Nat : PartAt(s, t, k)

(* This is the order of the model.                                         *)
LEMMA BeforeIs ==
  ASSUME NEW s \in W, NEW t \in W
  PROVE  Before(s, t) <=> Below(s, t) \/ Apart(s, t)
<1>1. Len(s) \in Nat /\ Len(t) \in Nat
  BY WordType
<1>2. ASSUME Before(s, t) PROVE Below(s, t) \/ Apart(s, t)
  <2>1. PICK k \in 1..Len(t) : /\ k <= Len(s) + 1 /\ \A l \in 1..(k - 1) : s[l] = t[l]
                               /\ k <= Len(s) => s[k] < t[k]
    BY <1>2 DEF Before
  <2>2. CASE k <= Len(s)
    <3>1. k \in Nat /\ PartAt(s, t, k)
      BY <1>1, <2>1, <2>2 DEF PartAt
    <3> QED BY <3>1 DEF Apart
  <2>3. CASE ~(k <= Len(s))
    <3>1. k - 1 = Len(s) /\ Len(s) < Len(t)
      BY <1>1, <2>1, <2>3
    <3>2. \A l \in 1..Len(s) : s[l] = t[l]
      BY <2>1, <3>1
    <3> QED BY <1>1, <3>1, <3>2 DEF Below, Begins
  <2> QED BY <2>2, <2>3
<1>3. ASSUME Below(s, t) PROVE Before(s, t)
  <2>1. PICK k : k = Len(s) + 1
    OBVIOUS
  <2>2. k \in 1..Len(t) /\ k - 1 = Len(s) /\ ~(k <= Len(s)) /\ k <= Len(s) + 1
    BY <1>1, <1>3, <2>1 DEF Below
  <2>3. \A l \in 1..(k - 1) : s[l] = t[l]
    BY <1>3, <2>2 DEF Below, Begins
  <2> QED BY <2>2, <2>3 DEF Before
<1>4. ASSUME Apart(s, t) PROVE Before(s, t)
  <2>1. PICK k \in Nat : PartAt(s, t, k)
    BY <1>4 DEF Apart
  <2>2. k \in 1..Len(t) /\ k <= Len(s) + 1
    BY <1>1, <2>1 DEF PartAt
  <2> QED BY <2>1, <2>2 DEF PartAt, Before
<1> QED BY <1>2, <1>3, <1>4

(* Words part once.                                                        *)
LEMMA PartOnce ==
  ASSUME NEW s \in W, NEW t \in W, NEW k \in Nat, PartAt(s, t, k)
  PROVE  /\ \A l \in Nat : ~PartAt(t, s, l)
         /\ ~Begins(s, t) /\ ~Begins(t, s)
<1>1. /\ k >= 1 /\ k <= Len(s) /\ k <= Len(t) /\ s[k] < t[k]
      /\ \A l \in 1..(k - 1) : s[l] = t[l]
  BY DEF PartAt
<1>2. Len(s) \in Nat /\ Len(t) \in Nat /\ k \in 1..Len(s) /\ k \in 1..Len(t) /\ s[k] \in Nat /\ t[k] \in Nat
  <2>1. Len(s) \in Nat /\ Len(t) \in Nat
    BY WordType
  <2>2. k \in 1..Len(s) /\ k \in 1..Len(t)
    BY <1>1, <2>1
  <2> QED BY <2>1, <2>2, WordType
<1>3. s[k] # t[k]
  BY <1>1, <1>2
<1>4. ASSUME NEW l \in Nat, PartAt(t, s, l) PROVE FALSE
  <2>1. /\ l >= 1 /\ l <= Len(s) /\ l <= Len(t) /\ t[l] < s[l]
        /\ \A m \in 1..(l - 1) : t[m] = s[m]
    BY <1>4 DEF PartAt
  <2>2. CASE k = l
    BY <1>1, <1>2, <2>1, <2>2
  <2>3. CASE k < l
    <3>1. k \in 1..(l - 1)
      BY <1>1, <2>3
    <3> QED BY <1>3, <2>1, <3>1
  <2>4. CASE l < k
    <3>1. l \in 1..(k - 1) /\ l \in 1..Len(s)
      BY <1>2, <2>1, <2>4
    <3>2. t[l] = s[l] /\ s[l] \in Nat
      BY <1>1, <3>1, WordType
    <3> QED BY <2>1, <3>2
  <2> QED BY <2>2, <2>3, <2>4
<1>5. ~Begins(s, t) /\ ~Begins(t, s)
  BY <1>2, <1>3 DEF Begins
<1> QED BY <1>4, <1>5

LEMMA ApartOnce ==
  ASSUME NEW s \in W, NEW t \in W, Apart(s, t)
  PROVE  ~Apart(t, s) /\ ~Begins(s, t) /\ ~Begins(t, s) /\ ~Below(s, t) /\ ~Below(t, s)
BY PartOnce DEF Apart, Below

(* It is an order, in which of two words one comes first.                  *)
LEMMA NotBefore ==
  ASSUME NEW s \in W, NEW t \in W
  PROVE  /\ Begins(s, t) => ~Before(t, s)
         /\ Before(s, t) => ~Before(t, s)
         /\ ~Before(s, s)
         /\ Below(s, t) => Before(s, t)
         /\ Apart(s, t) => Before(s, t) /\ ~Before(t, s)
<1>1. ASSUME Begins(s, t) PROVE ~Before(t, s)
  <2>1. ~Apart(t, s)
    BY <1>1, ApartOnce
  <2>2. ~Below(t, s)
    <3>1. Len(s) <= Len(t) /\ Len(s) \in Nat /\ Len(t) \in Nat
      BY <1>1, WordType DEF Begins
    <3> QED BY <3>1 DEF Below
  <2> QED BY <2>1, <2>2, BeforeIs
<1>2. Begins(s, s)
  BY BeginsOrder
<1>3. Apart(s, t) => Before(s, t) /\ ~Before(t, s)
  BY BeforeIs, ApartOnce
<1>4. Below(s, t) => Before(s, t) /\ Begins(s, t)
  BY BeforeIs DEF Below
<1>5. Before(s, t) => ~Before(t, s)
  BY <1>1, <1>3, <1>4, BeforeIs
<1>6. ~Before(s, s)
  BY <1>2, BeforeIs, ApartOnce DEF Below
<1> QED BY <1>1, <1>3, <1>4, <1>5, <1>6

LEMMA OneIsBefore ==
  ASSUME NEW s \in W, NEW t \in W
  PROVE  s = t \/ Before(s, t) \/ Before(t, s)
<1>1. Len(s) \in Nat /\ Len(t) \in Nat
  BY WordType
<1> DEFINE D == {k \in Nat : k >= 1 /\ k <= Len(s) /\ k <= Len(t) /\ s[k] # t[k]}
<1>2. CASE D = {}
  <2>1. CASE Len(s) = Len(t)
    <3>1. \A k \in 1..Len(s) : s[k] = t[k]
      BY <1>1, <1>2, <2>1
    <3> HIDE DEF D
    <3> QED BY <2>1, <3>1, SameWord
  <2>2. CASE Len(s) < Len(t)
    <3>1. \A k \in 1..Len(s) : s[k] = t[k]
      BY <1>1, <1>2, <2>2
    <3>2. Below(s, t)
      BY <1>1, <2>2, <3>1 DEF Below, Begins
    <3> HIDE DEF D
    <3> QED BY <3>2, BeforeIs
  <2>3. CASE Len(t) < Len(s)
    <3>1. \A k \in 1..Len(t) : t[k] = s[k]
      BY <1>1, <1>2, <2>3
    <3>2. Below(t, s)
      BY <1>1, <2>3, <3>1 DEF Below, Begins
    <3> HIDE DEF D
    <3> QED BY <3>2, BeforeIs
  <2> QED BY <1>1, <2>1, <2>2, <2>3
<1>3. CASE D # {}
  <2>1. PICK k \in D : \A m \in D : k <= m
    <3>1. D \subseteq Nat
      OBVIOUS
    <3> HIDE DEF D
    <3> QED BY <1>3, <3>1, LeastNatural
  <2>2. k \in Nat /\ k >= 1 /\ k <= Len(s) /\ k <= Len(t) /\ s[k] # t[k] /\ k \in 1..Len(s) /\ k \in 1..Len(t)
    BY <1>1, <2>1
  <2>3. \A l \in 1..(k - 1) : s[l] = t[l]
    <3>1. \A l \in 1..(k - 1) : l \in Nat /\ l >= 1 /\ l <= Len(s) /\ l <= Len(t) /\ ~(k <= l)
      BY <1>1, <2>2
    <3> QED BY <2>1, <3>1
  <2> HIDE DEF D
  <2>4. s[k] \in Nat /\ t[k] \in Nat
    BY <2>2, WordType
  <2>5. PartAt(s, t, k) \/ PartAt(t, s, k)
    BY <2>2, <2>3, <2>4 DEF PartAt
  <2>6. Apart(s, t) \/ Apart(t, s)
    BY <2>2, <2>5 DEF Apart
  <2> QED BY <2>6, BeforeIs
<1> QED BY <1>2, <1>3

(* Words that part stay apart when they are extended.                      *)
LEMMA ApartBelow ==
  ASSUME NEW s \in W, NEW t \in W, Apart(s, t)
  PROVE  /\ \A x \in W : Begins(s, x) => Apart(x, t)
         /\ \A x \in W : Begins(t, x) => Apart(s, x)
         /\ \A r \in W : Begins(r, s) => Apart(r, t) \/ Begins(r, t)
         /\ \A r \in W : Begins(r, t) => Apart(s, r) \/ Begins(r, s)
<1>1. PICK k \in Nat : PartAt(s, t, k)
  BY DEF Apart
<1>2. /\ k >= 1 /\ k <= Len(s) /\ k <= Len(t) /\ s[k] < t[k]
      /\ \A l \in 1..(k - 1) : s[l] = t[l]
  BY <1>1 DEF PartAt
<1>3. Len(s) \in Nat /\ Len(t) \in Nat /\ k \in 1..Len(s) /\ k \in 1..Len(t)
      /\ (\A l \in 1..(k - 1) : l \in 1..Len(s) /\ l \in 1..Len(t))
  <2>1. Len(s) \in Nat /\ Len(t) \in Nat
    BY WordType
  <2> QED BY <1>2, <2>1
<1>4. ASSUME NEW x \in W, Begins(s, x) PROVE Apart(x, t)
  <2>1. Len(s) <= Len(x) /\ Len(x) \in Nat /\ \A l \in 1..Len(s) : x[l] = s[l]
    BY <1>4, WordType DEF Begins
  <2>2. k <= Len(x)
    BY <1>2, <1>3, <2>1
  <2>3. \A l \in 1..(k - 1) : x[l] = t[l]
    BY <1>2, <1>3, <2>1
  <2>4. x[k] = s[k]
    BY <1>3, <2>1
  <2>5. PartAt(x, t, k)
    BY <1>2, <2>2, <2>3, <2>4 DEF PartAt
  <2> QED BY <2>5 DEF Apart
<1>5. ASSUME NEW x \in W, Begins(t, x) PROVE Apart(s, x)
  <2>1. Len(t) <= Len(x) /\ Len(x) \in Nat /\ \A l \in 1..Len(t) : x[l] = t[l]
    BY <1>5, WordType DEF Begins
  <2>2. k <= Len(x)
    BY <1>2, <1>3, <2>1
  <2>3. \A l \in 1..(k - 1) : s[l] = x[l]
    BY <1>2, <1>3, <2>1
  <2>4. x[k] = t[k]
    BY <1>3, <2>1
  <2>5. PartAt(s, x, k)
    BY <1>2, <2>2, <2>3, <2>4 DEF PartAt
  <2> QED BY <2>5 DEF Apart
<1>6. ASSUME NEW r \in W, Begins(r, s) PROVE Apart(r, t) \/ Begins(r, t)
  <2>1. Len(r) <= Len(s) /\ Len(r) \in Nat /\ \A l \in 1..Len(r) : s[l] = r[l]
    BY <1>6, WordType DEF Begins
  <2>2. CASE k <= Len(r)
    <3>1. \A l \in 1..(k - 1) : l \in 1..Len(r)
      BY <2>1, <2>2
    <3>2. \A l \in 1..(k - 1) : r[l] = t[l]
      BY <1>2, <2>1, <3>1
    <3>3. k \in 1..Len(r)
      BY <1>2, <2>1, <2>2
    <3>4. PartAt(r, t, k)
      BY <1>2, <2>1, <2>2, <3>2, <3>3 DEF PartAt
    <3> QED BY <3>4 DEF Apart
  <2>3. CASE Len(r) < k
    <3>1. \A l \in 1..Len(r) : l \in 1..(k - 1)
      BY <2>1, <2>3
    <3>2. \A l \in 1..Len(r) : r[l] = t[l]
      BY <1>2, <2>1, <3>1
    <3>3. Len(r) <= Len(t)
      BY <1>2, <1>3, <2>1, <2>3
    <3> QED BY <3>2, <3>3 DEF Begins
  <2> QED BY <2>1, <2>2, <2>3
<1>7. ASSUME NEW r \in W, Begins(r, t) PROVE Apart(s, r) \/ Begins(r, s)
  <2>1. Len(r) <= Len(t) /\ Len(r) \in Nat /\ \A l \in 1..Len(r) : t[l] = r[l]
    BY <1>7, WordType DEF Begins
  <2>2. CASE k <= Len(r)
    <3>1. \A l \in 1..(k - 1) : l \in 1..Len(r)
      BY <2>1, <2>2
    <3>2. \A l \in 1..(k - 1) : s[l] = r[l]
      BY <1>2, <2>1, <3>1
    <3>3. k \in 1..Len(r)
      BY <1>2, <2>1, <2>2
    <3>4. PartAt(s, r, k)
      BY <1>2, <2>1, <2>2, <3>2, <3>3 DEF PartAt
    <3> QED BY <3>4 DEF Apart
  <2>3. CASE Len(r) < k
    <3>1. \A l \in 1..Len(r) : l \in 1..(k - 1)
      BY <2>1, <2>3
    <3>2. \A l \in 1..Len(r) : r[l] = s[l]
      BY <1>2, <2>1, <3>1
    <3>3. Len(r) <= Len(s)
      BY <1>2, <1>3, <2>1, <2>3
    <3> QED BY <3>2, <3>3 DEF Begins
  <2> QED BY <2>1, <2>2, <2>3
<1> QED BY <1>4, <1>5, <1>6, <1>7

(* The order is transitive.                                                *)
LEMMA BeforeTwice ==
  ASSUME NEW s \in W, NEW t \in W, NEW u \in W, Before(s, t), Before(t, u)
  PROVE  Before(s, u)
<1>1. CASE Below(s, t)
  <2>1. Begins(s, t)
    BY <1>1 DEF Below
  <2>2. CASE Below(t, u)
    <3>1. Begins(s, u)
      BY <2>1, <2>2, BeginsOrder DEF Below
    <3>2. Len(s) < Len(u)
      <4>1. Len(s) < Len(t) /\ Len(t) < Len(u) /\ Len(s) \in Nat /\ Len(t) \in Nat /\ Len(u) \in Nat
        BY <1>1, <2>2, WordType DEF Below
      <4> QED BY ONLY <4>1
    <3> QED BY <3>1, <3>2, BeforeIs DEF Below
  <2>3. CASE Apart(t, u)
    <3>1. Apart(s, u) \/ Begins(s, u)
      BY <2>1, <2>3, ApartBelow
    <3>2. ASSUME Begins(s, u) PROVE Below(s, u)
      <4>1. Len(s) <= Len(u) /\ Len(s) < Len(t) /\ Len(s) \in Nat /\ Len(u) \in Nat /\ Len(t) \in Nat
        BY <1>1, <3>2, WordType DEF Below, Begins
      <4>2. ASSUME Len(s) = Len(u) PROVE FALSE
        <5>1. s = u
          BY <3>2, <4>1, <4>2, BeginsOrder
        <5> QED BY <2>1, <2>3, <5>1, ApartOnce
      <4> QED BY <3>2, <4>1, <4>2 DEF Below
    <3> QED BY <3>1, <3>2, BeforeIs
  <2> QED BY <2>2, <2>3, BeforeIs
<1>2. CASE Apart(s, t)
  <2>1. CASE Below(t, u)
    <3>1. Apart(s, u)
      BY <1>2, <2>1, ApartBelow DEF Below
    <3> QED BY <3>1, BeforeIs
  <2>2. CASE Apart(t, u)
    <3>1. PICK k \in Nat : PartAt(s, t, k)
      BY <1>2 DEF Apart
    <3>2. PICK l \in Nat : PartAt(t, u, l)
      BY <2>2 DEF Apart
    <3>3. /\ k >= 1 /\ k <= Len(s) /\ k <= Len(t) /\ s[k] < t[k] /\ \A m \in 1..(k - 1) : s[m] = t[m]
          /\ l >= 1 /\ l <= Len(t) /\ l <= Len(u) /\ t[l] < u[l] /\ \A m \in 1..(l - 1) : t[m] = u[m]
      BY <3>1, <3>2 DEF PartAt
    <3>4. Len(s) \in Nat /\ Len(t) \in Nat /\ Len(u) \in Nat
      BY WordType
    <3>5. CASE k < l
      <4>1. k \in 1..(l - 1) /\ k <= Len(u) /\ \A m \in 1..(k - 1) : m \in 1..(l - 1)
        BY <3>3, <3>4, <3>5
      <4>2. PartAt(s, u, k)
        BY <3>3, <4>1 DEF PartAt
      <4> QED BY <4>2, BeforeIs DEF Apart
    <3>6. CASE l < k
      <4>1. l \in 1..(k - 1) /\ l <= Len(s) /\ \A m \in 1..(l - 1) : m \in 1..(k - 1)
        BY <3>3, <3>4, <3>6
      <4>2. PartAt(s, u, l)
        BY <3>3, <4>1 DEF PartAt
      <4> QED BY <4>2, BeforeIs DEF Apart
    <3>7. CASE k = l
      <4>1. k \in 1..Len(s) /\ k \in 1..Len(t) /\ k \in 1..Len(u)
        BY <3>3, <3>4, <3>7
      <4>2. s[k] \in Nat /\ t[k] \in Nat /\ u[k] \in Nat
        BY <4>1, WordType
      <4>3. s[k] < u[k]
        BY <3>3, <3>7, <4>2
      <4>4. PartAt(s, u, k)
        BY <3>3, <3>7, <4>3 DEF PartAt
      <4> QED BY <4>4, BeforeIs DEF Apart
    <3> QED BY <3>5, <3>6, <3>7
  <2> QED BY <2>1, <2>2, BeforeIs
<1> QED BY <1>1, <1>2, BeforeIs

(* Words below two edges of a node are in the order of the edges.          *)
LEMMA TwoEdges ==
  ASSUME NEW r \in W, NEW e \in W, NEW f \in W, Len(e) >= 1, Len(f) >= 1, e[1] < f[1],
         NEW x \in W, NEW y \in W, Begins(Join(r, e), x), Begins(Join(r, f), y)
  PROVE  Apart(x, y)
<1>1. Len(r) \in Nat /\ Len(x) \in Nat /\ Len(y) \in Nat
  BY WordType
<1>2. x[Len(r) + 1] = e[1] /\ Begins(r, x) /\ Len(r) + 1 <= Len(x)
  BY NextChar
<1>3. y[Len(r) + 1] = f[1] /\ Begins(r, y) /\ Len(r) + 1 <= Len(y)
  BY NextChar
<1>4. PICK k : k = Len(r) + 1
  OBVIOUS
<1>5. k \in Nat /\ k >= 1 /\ k - 1 = Len(r)
  BY <1>1, <1>4
<1>6. \A l \in 1..(k - 1) : x[l] = y[l]
  BY <1>2, <1>3, <1>5 DEF Begins
<1>7. PartAt(x, y, k)
  BY <1>2, <1>3, <1>4, <1>5, <1>6 DEF PartAt
<1> QED BY <1>5, <1>7 DEF Apart

-----------------------------------------------------------------------------
(***************************************************************************)
(* 2. The iterator and the tree: down, up, and the key that goes with it.  *)
(***************************************************************************)

(* No address is longer than the depth.                                    *)
LEMMA DepthIs ==
  ASSUME NEW nodes, Form(nodes)
  PROVE  Depth(nodes) \in Nat /\ \A p \in DOMAIN nodes : Len(p) <= Depth(nodes)
<1>1. PICK S : S = {Len(p) : p \in DOMAIN nodes}
  OBVIOUS
<1>2. \A p \in DOMAIN nodes : Len(p) \in Nat /\ Len(p) \in S
  BY <1>1, FormType, WordType
<1>3. S \subseteq Nat /\ S # {}
  BY <1>1, <1>2 DEF Form
<1>4. PICK b \in Nat : \A p \in DOMAIN nodes : Len(p) <= b
  BY DEF Form
<1>5. \A n \in S : n <= b
  BY <1>1, <1>4
<1>6. Max(S) \in S /\ \A n \in S : n <= Max(S)
  BY <1>3, <1>5, MaxIs
<1>7. Depth(nodes) = Max(S)
  BY <1>1 DEF Depth
<1> QED BY <1>2, <1>3, <1>6, <1>7

(* The edges of a node by their positions.                                 *)
LEMMA EdgeAt ==
  ASSUME NEW n, IsNode(n), Ordered(n)
  PROVE  /\ Degree(n) \in Nat /\ (n.chars # <<>> <=> Degree(n) >= 1)
         /\ \A k \in 1..Degree(n) : Edge(n, k) \in Edges(n)
         /\ \A e \in Edges(n) : \E k \in 1..Degree(n) : e = Edge(n, k)
         /\ \A k, l \in 1..Degree(n) : k < l => Edge(n, k)[1] < Edge(n, l)[1]
         /\ \A e \in Edges(n) : EdgeLen(n) = Len(e)
         /\ ~n.iscompr => /\ DOMAIN n.chars = 1..Degree(n)
                          /\ \A k \in 1..Degree(n) : Edge(n, k)[1] = n.chars[k] /\ Len(Edge(n, k)) = 1
         /\ n.iscompr => \A e, f \in Edges(n) : e = f
<1>1. n.chars \in W /\ Len(n.chars) \in Nat /\ DOMAIN n.chars = 1..Len(n.chars)
  BY WordType DEF IsNode
<1>2. \A e : e \in Edges(n) <=> \E k \in 1..Degree(n) : e = Edge(n, k)
  BY DEF Edges
<1>3. CASE n.iscompr
  <2>1. Degree(n) = 1 /\ (\A k : Edge(n, k) = n.chars) /\ Len(n.chars) > 1 /\ EdgeLen(n) = Len(n.chars)
    BY <1>3 DEF Degree, Edge, Ordered, EdgeLen
  <2>2. n.chars # <<>>
    BY <1>1, <2>1, WordType
  <2>3. \A k, l \in 1..1 : ~(k < l)
    OBVIOUS
  <2> QED BY <1>2, <1>3, <2>1, <2>2, <2>3
<1>4. CASE ~n.iscompr
  <2>1. Degree(n) = Len(n.chars) /\ (\A k : Edge(n, k) = <<n.chars[k]>>) /\ EdgeLen(n) = 1
    BY <1>4 DEF Degree, Edge, EdgeLen
  <2>2. n.chars # <<>> <=> Len(n.chars) >= 1
    BY <1>1, WordType
  <2>3. \A k : Edge(n, k)[1] = n.chars[k] /\ Len(Edge(n, k)) = 1
    BY <2>1
  <2>4. \A k, l \in 1..Len(n.chars) : k < l => n.chars[k] < n.chars[l]
    BY <1>1, <1>4 DEF Ordered
  <2>5. \A k, l \in 1..Degree(n) : k < l => Edge(n, k)[1] < Edge(n, l)[1]
    BY <2>1, <2>3, <2>4
  <2> QED BY <1>1, <1>2, <1>4, <2>1, <2>2, <2>3, <2>5
<1> QED BY <1>3, <1>4

(* The first characters of the edges of a node.                            *)
LEMMA EdgeOrder ==
  ASSUME NEW nodes, Form(nodes), NEW p \in DOMAIN nodes
  PROVE  \A e, f \in Edges(nodes[p]) : /\ e[1] \in Nat /\ (e[1] = f[1] => e = f)
                                       /\ (e # f => ~nodes[p].iscompr)
<1>1. IsNode(nodes[p]) /\ Ordered(nodes[p])
  BY FormType
<1>2. \A e, f \in Edges(nodes[p]) : (e[1] = f[1] => e = f) /\ e \in W /\ Len(e) >= 1 /\ Len(e) \in Nat
  BY <1>1, EdgeType, WordType
<1>3. \A e \in Edges(nodes[p]) : e[1] \in Nat
  <2>1. SUFFICES ASSUME NEW e \in Edges(nodes[p]) PROVE e[1] \in Nat
    OBVIOUS
  <2>2. 1 \in 1..Len(e) /\ e \in W
    BY <1>2
  <2> QED BY <2>2, WordType
<1>4. \A e, f \in Edges(nodes[p]) : e # f => ~nodes[p].iscompr
  BY <1>1, EdgeAt
<1> QED BY <1>2, <1>3, <1>4

(* The node at the end of an edge.                                         *)
LEMMA EdgeWord ==
  ASSUME NEW nodes, Form(nodes), NEW p \in DOMAIN nodes, NEW e \in Edges(nodes[p])
  PROVE  /\ p \in W /\ e \in W /\ Len(e) >= 1 /\ Join(p, e) \in W /\ Join(p, e) \in DOMAIN nodes
         /\ Below(p, Join(p, e)) /\ Begins(p, Join(p, e)) /\ Len(Join(p, e)) >= Len(p) + 1
<1>1. p \in W /\ e \in W /\ Len(e) >= 1 /\ Join(p, e) \in W /\ Join(p, e) \in DOMAIN nodes
  BY FormType
<1>2. Len(Join(p, e)) = Len(p) + Len(e) /\ Begins(p, Join(p, e)) /\ Len(p) \in Nat /\ Len(e) \in Nat
  BY <1>1, JoinType, JoinBegins, WordType
<1>3. Len(p) < Len(Join(p, e)) /\ Len(Join(p, e)) >= Len(p) + 1
  BY <1>1, <1>2
<1> QED BY <1>1, <1>2, <1>3 DEF Below

(* A node whose address begins an edge's end begins its start.             *)
LEMMA NoneBetween ==
  ASSUME NEW nodes, Form(nodes), NEW p \in DOMAIN nodes, NEW e \in Edges(nodes[p]),
         NEW v \in DOMAIN nodes, Below(v, Join(p, e))
  PROVE  Begins(v, p)
<1>1. /\ p \in W /\ e \in W /\ Join(p, e) \in W /\ Begins(p, Join(p, e)) /\ v \in W
  BY EdgeWord, FormType
<1>2. Begins(v, Join(p, e)) /\ Len(v) < Len(Join(p, e)) /\ Len(v) \in Nat /\ Len(p) \in Nat /\ Len(Join(p, e)) \in Nat
  BY <1>1, WordType DEF Below
<1>3. CASE Len(v) <= Len(p)
  BY <1>1, <1>2, <1>3, BeginsOrder
<1>4. CASE Len(p) < Len(v)
  <2>1. Begins(p, v)
    <3>1. Len(p) <= Len(v)
      BY <1>2, <1>4
    <3> QED BY <1>1, <1>2, <3>1, BeginsOrder
  <2>2. PICK f \in Edges(nodes[p]) : Begins(Join(p, f), v)
    BY <1>4, <2>1, FormType DEF Below
  <2>3. Join(p, f) \in W /\ f \in W /\ Len(f) >= 1 /\ Len(e) >= 1
    BY EdgeWord
  <2>4. Begins(Join(p, f), Join(p, e))
    BY <1>1, <1>2, <2>2, <2>3, BeginsOrder
  <2>5. f = e
    <3>1. Join(p, e)[Len(p) + 1] = f[1]
      BY <1>1, <2>3, <2>4, NextChar
    <3>2. Begins(Join(p, e), Join(p, e))
      BY <1>1, BeginsOrder
    <3>3. Join(p, e)[Len(p) + 1] = e[1]
      BY <1>1, <2>3, <3>2, NextChar
    <3>4. e[1] = f[1]
      BY ONLY <3>1, <3>3
    <3>5. \A c, d \in Edges(nodes[p]) : c[1] = d[1] => c = d
      BY EdgeOrder
    <3> QED BY ONLY <2>2, <3>4, <3>5, e \in Edges(nodes[p])
  <2>6. Len(Join(p, e)) <= Len(v)
    BY <2>2, <2>5 DEF Begins
  <2> QED BY <1>2, <2>6
<1> QED BY <1>2, <1>3, <1>4

(* What is below a node is under an edge of it.                            *)
LEMMA UnderEdge ==
  ASSUME NEW nodes, Form(nodes), NEW p \in DOMAIN nodes, NEW v \in DOMAIN nodes, Begins(p, v)
  PROVE  v = p \/ \E f \in Edges(nodes[p]) : Begins(Join(p, f), v)
<1>1. p \in W /\ v \in W
  BY FormType
<1>2. Len(p) <= Len(v) /\ Len(p) \in Nat /\ Len(v) \in Nat
  BY <1>1, WordType DEF Begins
<1>3. CASE Len(v) <= Len(p)
  BY <1>1, <1>3, BeginsOrder
<1>4. CASE Len(p) < Len(v)
  BY <1>4, FormType DEF Below
<1> QED BY <1>2, <1>3, <1>4

(* A node that comes after an edge's end, or before it, comes after or     *)
(* before its start, or is below an edge with a greater or a smaller       *)
(* character.                                                              *)
LEMMA AfterEdge ==
  ASSUME NEW nodes, Form(nodes), NEW p \in DOMAIN nodes, NEW e \in Edges(nodes[p]),
         NEW v \in DOMAIN nodes, Apart(Join(p, e), v)
  PROVE  Apart(p, v) \/ \E f \in Edges(nodes[p]) : Begins(Join(p, f), v) /\ e[1] < f[1]
<1>1. PICK x : x = Join(p, e)
  OBVIOUS
<1>2. p \in W /\ e \in W /\ Len(e) >= 1 /\ x \in W /\ Begins(p, x) /\ v \in W
  BY <1>1, EdgeWord, FormType
<1>3. Apart(p, v) \/ Begins(p, v)
  BY <1>1, <1>2, ApartBelow
<1>4. ~Begins(v, x) /\ ~Begins(x, v) /\ ~Apart(v, x)
  BY <1>1, <1>2, ApartOnce
<1>5. ASSUME Begins(p, v) PROVE \E f \in Edges(nodes[p]) : Begins(Join(p, f), v) /\ e[1] < f[1]
  <2>1. v # p
    BY <1>2, <1>4
  <2>2. PICK f \in Edges(nodes[p]) : Begins(Join(p, f), v)
    BY <1>5, <2>1, UnderEdge
  <2>3. f # e
    BY <1>1, <1>4, <2>2
  <2>4. f[1] # e[1] /\ f[1] \in Nat /\ e[1] \in Nat
    BY <2>3, EdgeOrder
  <2>5. ~(f[1] < e[1])
    <3>1. SUFFICES ASSUME f[1] < e[1] PROVE FALSE
      OBVIOUS
    <3>2. f \in W /\ Len(f) >= 1 /\ Begins(x, x)
      BY <1>2, EdgeWord, BeginsOrder
    <3>3. Apart(v, x)
      BY <1>1, <1>2, <2>2, <3>1, <3>2, TwoEdges
    <3> QED BY <1>4, <3>3
  <2> QED BY <2>2, <2>4, <2>5
<1> QED BY <1>3, <1>5

LEMMA BeforeEdge ==
  ASSUME NEW nodes, Form(nodes), NEW p \in DOMAIN nodes, NEW e \in Edges(nodes[p]),
         NEW v \in DOMAIN nodes, Apart(v, Join(p, e))
  PROVE  Apart(v, p) \/ \E f \in Edges(nodes[p]) : Begins(Join(p, f), v) /\ f[1] < e[1]
<1>1. PICK x : x = Join(p, e)
  OBVIOUS
<1>2. p \in W /\ e \in W /\ Len(e) >= 1 /\ x \in W /\ Begins(p, x) /\ v \in W
  BY <1>1, EdgeWord, FormType
<1>3. Apart(v, p) \/ Begins(p, v)
  BY <1>1, <1>2, ApartBelow
<1>4. ~Begins(v, x) /\ ~Begins(x, v) /\ ~Apart(x, v)
  BY <1>1, <1>2, ApartOnce
<1>5. ASSUME Begins(p, v) PROVE \E f \in Edges(nodes[p]) : Begins(Join(p, f), v) /\ f[1] < e[1]
  <2>1. v # p
    BY <1>2, <1>4
  <2>2. PICK f \in Edges(nodes[p]) : Begins(Join(p, f), v)
    BY <1>5, <2>1, UnderEdge
  <2>3. f # e
    BY <1>1, <1>4, <2>2
  <2>4. f[1] # e[1] /\ f[1] \in Nat /\ e[1] \in Nat
    BY <2>3, EdgeOrder
  <2>5. ~(e[1] < f[1])
    <3>1. SUFFICES ASSUME e[1] < f[1] PROVE FALSE
      OBVIOUS
    <3>2. f \in W /\ Len(f) >= 1 /\ Begins(x, x)
      BY <1>2, EdgeWord, BeginsOrder
    <3>3. Apart(x, v)
      BY <1>1, <1>2, <2>2, <3>1, <3>2, TwoEdges
    <3> QED BY <1>4, <3>3
  <2> QED BY <2>2, <2>4, <2>5
<1> QED BY <1>3, <1>5
-----------------------------------------------------------------------------
(* An iterator that is on its way, and one that stands on a node.          *)
Place(k, n, d) == [key |-> k, node |-> n, data |-> d, eof |-> FALSE, seeked |-> FALSE]
Stand(q, d) == Place(q, q, d)

(* The fields of an iterator, and what an assignment to one makes of it.   *)
LEMMA PlaceIs ==
  ASSUME NEW k, NEW n, NEW d
  PROVE  /\ Place(k, n, d).key = k /\ Place(k, n, d).node = n /\ Place(k, n, d).data = d
BY DEF Place

LEMMA KeyMoved ==
  ASSUME NEW k, NEW n, NEW d, NEW x, NEW it, it = Place(k, n, d)
  PROVE  [it EXCEPT !.key = x] = Place(x, n, d)
<1>1. PICK f : f = FALSE
  OBVIOUS
<1>2. it = [key |-> k, node |-> n, data |-> d, eof |-> f, seeked |-> f]
  BY <1>1 DEF Place
<1>3. [it EXCEPT !.key = x] = [key |-> x, node |-> n, data |-> d, eof |-> f, seeked |-> f]
  BY ONLY <1>2
<1> QED BY <1>1, <1>3 DEF Place

LEMMA NodeMoved ==
  ASSUME NEW k, NEW n, NEW d, NEW x, NEW it, it = Place(k, n, d)
  PROVE  [it EXCEPT !.node = x] = Place(k, x, d)
<1>1. PICK f : f = FALSE
  OBVIOUS
<1>2. it = [key |-> k, node |-> n, data |-> d, eof |-> f, seeked |-> f]
  BY <1>1 DEF Place
<1>3. [it EXCEPT !.node = x] = [key |-> k, node |-> x, data |-> d, eof |-> f, seeked |-> f]
  BY ONLY <1>2
<1> QED BY <1>1, <1>3 DEF Place

LEMMA DataMoved ==
  ASSUME NEW k, NEW n, NEW d, NEW x, NEW it, it = Place(k, n, d)
  PROVE  [it EXCEPT !.data = x] = Place(k, n, x)
<1>1. PICK f : f = FALSE
  OBVIOUS
<1>2. it = [key |-> k, node |-> n, data |-> d, eof |-> f, seeked |-> f]
  BY <1>1 DEF Place
<1>3. [it EXCEPT !.data = x] = [key |-> k, node |-> n, data |-> x, eof |-> f, seeked |-> f]
  BY ONLY <1>2
<1> QED BY <1>1, <1>3 DEF Place

LEMMA StandIs ==
  ASSUME NEW q, NEW d
  PROVE  Stand(q, d).key = q /\ Stand(q, d).node = q /\ Stand(q, d).data = d
BY PlaceIs DEF Stand

LEMMA StandGoes ==
  ASSUME NEW q, NEW d
  PROVE  Stand(q, d).eof = FALSE /\ Stand(q, d).seeked = FALSE
BY DEF Stand, Place

LEMMA StandType ==
  ASSUME NEW nodes, NEW q \in DOMAIN nodes, q \in W, NEW d \in Int
  PROVE  Stand(q, d) \in Iterators(nodes)
<1>1. PICK f \in BOOLEAN : f = FALSE
  OBVIOUS
<1>2. q \in Seq(Nat)
  BY DEF W
<1>3. [key |-> q, node |-> q, data |-> d, eof |-> f, seeked |-> f]
        \in [key : Seq(Nat), node : DOMAIN nodes, data : Int, eof : BOOLEAN, seeked : BOOLEAN]
  BY ONLY <1>2, q \in DOMAIN nodes, d \in Int
<1> QED BY <1>1, <1>3 DEF Stand, Place, Iterators

(* Down an edge, up to the parent, and the key that goes with it.          *)
LEMMA GoDownIs ==
  ASSUME NEW nodes, NEW q, NEW d, NEW at
  PROVE  GoDown(nodes, Stand(q, d), at) = Stand(Join(q, Edge(nodes[q], at)), d)
<1>1. PICK e : e = Edge(nodes[q], at)
  OBVIOUS
<1>2. Child(nodes, q, at) = Join(q, e)
  BY <1>1 DEF Child, Join
<1>3. PICK it : it = Stand(q, d)
  OBVIOUS
<1>4. it.key = q /\ it.node = q
  BY <1>3, StandIs
<1>5. PICK x : x = Join(q, e)
  OBVIOUS
<1>6. it.key \o Edge(nodes[it.node], at) = x /\ Child(nodes, it.node, at) = x
  BY <1>1, <1>2, <1>4, <1>5 DEF Join
<1>7. PICK y : y = [it EXCEPT !.key = x]
  OBVIOUS
<1>8. GoDown(nodes, it, at) = [y EXCEPT !.node = x]
  BY ONLY <1>6, <1>7 DEF GoDown
<1>9. y = Place(x, q, d)
  <2>1. it = Place(q, q, d)
    BY ONLY <1>3 DEF Stand
  <2> QED BY ONLY <2>1, <1>7, KeyMoved
<1>10. [y EXCEPT !.node = x] = Place(x, x, d)
  BY ONLY <1>9, NodeMoved
<1> QED BY ONLY <1>1, <1>3, <1>5, <1>8, <1>10 DEF Stand

(* The parent of a node is the node it hangs on.                           *)
LEMMA ParentIs ==
  ASSUME NEW nodes, Form(nodes), NEW q \in DOMAIN nodes, q # Root
  PROVE  /\ Parent(nodes, q) \in DOMAIN nodes /\ Len(Parent(nodes, q)) < Len(q)
         /\ \E e \in Edges(nodes[Parent(nodes, q)]) : q = Join(Parent(nodes, q), e)
<1>1. PICK S : S = {k \in 0..(Len(q) - 1) : Upto(q, k) \in DOMAIN nodes}
  OBVIOUS
<1>2. q \in W /\ Len(q) \in Nat /\ Len(q) >= 1
  <2>1. q \in W /\ Len(q) \in Nat
    BY FormType, WordType
  <2>2. Len(q) # 0
    BY <2>1, WordType DEF Root
  <2> QED BY <2>1, <2>2
<1>3. 0 \in S
  <2>1. 0 \in 0..Len(q) /\ 0 \in 0..(Len(q) - 1)
    BY <1>2
  <2>2. Upto(q, 0) \in W /\ Len(Upto(q, 0)) = 0
    BY <1>2, <2>1, UptoType
  <2>3. Upto(q, 0) = Root
    BY <2>2, WordType DEF Root
  <2> QED BY <1>1, <2>1, <2>3 DEF Form
<1>4. PICK m : m = Max(S)
  OBVIOUS
<1>5. m \in S /\ \A n \in S : n <= m
  <2>1. S \subseteq Nat /\ S # {} /\ \A n \in S : n <= Len(q)
    BY <1>1, <1>2, <1>3
  <2> QED BY <1>2, <1>4, <2>1, MaxIs
<1>6. m \in 0..(Len(q) - 1) /\ m \in 0..Len(q) /\ m < Len(q)
  BY <1>1, <1>2, <1>5
<1>7. PICK r : r = Upto(q, m)
  OBVIOUS
<1>8. r \in DOMAIN nodes /\ r \in W /\ Len(r) = m /\ Begins(r, q)
  <2>1. r \in DOMAIN nodes
    BY <1>1, <1>5, <1>7
  <2>2. <<>> \in W
    BY DEF W
  <2> QED BY <1>2, <1>6, <1>7, <2>1, <2>2, GoesOn
<1>9. r = Parent(nodes, q)
  BY <1>1, <1>4, <1>7 DEF Parent
<1>10. PICK e \in Edges(nodes[r]) : Begins(Join(r, e), q)
  BY <1>6, <1>8, FormType DEF Below
<1>11. PICK x : x = Join(r, e)
  OBVIOUS
<1>12. x \in W /\ x \in DOMAIN nodes /\ Len(x) >= Len(r) + 1 /\ Len(x) \in Nat /\ Begins(x, q) /\ Len(x) <= Len(q)
  BY <1>8, <1>10, <1>11, EdgeWord, WordType DEF Begins
<1>13. Len(x) = Len(q)
  <2>1. SUFFICES ASSUME Len(x) # Len(q) PROVE FALSE
    OBVIOUS
  <2>2. x = Upto(q, Len(x))
    BY <1>2, <1>12, UptoBegins
  <2>3. Len(x) \in 0..(Len(q) - 1)
    BY <1>2, <1>12, <2>1
  <2>4. Len(x) \in S
    BY <1>1, <1>12, <2>2, <2>3
  <2>5. Len(x) <= m
    BY <1>5, <2>4
  <2> QED BY <1>6, <1>8, <1>12, <2>5
<1>14. x = q
  BY <1>2, <1>12, <1>13, BeginsOrder
<1> QED BY <1>6, <1>8, <1>9, <1>10, <1>11, <1>14

(* Cutting an edge off the key.                                            *)
LEMMA CutKeyIs ==
  ASSUME NEW nodes, Form(nodes), NEW r \in DOMAIN nodes, NEW e \in W, EdgeLen(nodes[r]) = Len(e), NEW d
  PROVE  CutKey(nodes, Place(Join(r, e), r, d)) = Stand(r, d)
<1>1. PICK q : q = Join(r, e)
  OBVIOUS
<1>2. PICK it : it = Place(q, r, d)
  OBVIOUS
<1>4. it.key = q /\ it.node = r
  BY ONLY <1>2, PlaceIs
<1>5. r \in W /\ q \in W /\ Len(q) = Len(r) + Len(e) /\ Len(r) \in Nat /\ Len(e) \in Nat
  BY <1>1, FormType, JoinType, WordType
<1>6. Len(q) - Len(e) = Len(r)
  BY <1>5
<1>7. Upto(q, Len(r)) = r
  <2>1. Begins(r, q) /\ Len(r) <= Len(q)
    BY <1>1, <1>5, JoinBegins
  <2> QED BY <1>5, <2>1, UptoBegins
<1>8. CutKey(nodes, it) = [it EXCEPT !.key = r]
  <2>1. Len(it.key) - EdgeLen(nodes[it.node]) = Len(r)
    BY <1>4, <1>6
  <2>2. Upto(it.key, Len(it.key) - EdgeLen(nodes[it.node])) = r
    BY ONLY <1>4, <1>7, <2>1
  <2> QED BY ONLY <2>2 DEF CutKey
<1>9. [it EXCEPT !.key = r] = Stand(r, d)
  BY ONLY <1>2, KeyMoved DEF Stand
<1> QED BY ONLY <1>1, <1>2, <1>8, <1>9

LEMMA GoUpIs ==
  ASSUME NEW nodes, Form(nodes), NEW q \in DOMAIN nodes, q # Root, NEW d
  PROVE  GoUp(nodes, Stand(q, d)) = Stand(Parent(nodes, q), d)
<1>1. PICK r : r = Parent(nodes, q)
  OBVIOUS
<1>2. r \in DOMAIN nodes /\ \E e \in Edges(nodes[r]) : q = Join(r, e)
  BY <1>1, ParentIs
<1>3. PICK e \in Edges(nodes[r]) : q = Join(r, e)
  BY <1>2
<1>4. e \in W /\ EdgeLen(nodes[r]) = Len(e)
  <2>1. IsNode(nodes[r]) /\ Ordered(nodes[r]) /\ e \in W
    BY <1>2, <1>3, FormType
  <2> QED BY <2>1, EdgeAt
<1>5. PICK it : it = [Stand(q, d) EXCEPT !.node = r]
  OBVIOUS
<1>6. it = Place(q, r, d)
  <2>1. PICK at : at = Stand(q, d)
    OBVIOUS
  <2>2. at = Place(q, q, d) /\ it = [at EXCEPT !.node = r]
    BY ONLY <1>5, <2>1 DEF Stand
  <2> QED BY ONLY <2>2, NodeMoved
<1>7. GoUp(nodes, Stand(q, d)) = CutKey(nodes, it)
  <2>1. Stand(q, d).node = q
    BY StandIs
  <2> QED BY ONLY <1>1, <1>5, <2>1 DEF GoUp
<1>8. it = Place(Join(r, e), r, d)
  BY ONLY <1>3, <1>6
<1>9. CutKey(nodes, Place(Join(r, e), r, d)) = Stand(r, d)
  BY ONLY Form(nodes), <1>2, <1>4, CutKeyIs
<1> QED BY ONLY <1>1, <1>7, <1>8, <1>9

-----------------------------------------------------------------------------
(***************************************************************************)
(* 3. The node before.                                                     *)
(***************************************************************************)

(* The last edge of a node and the first.                                  *)
LEMMA LastEdge ==
  ASSUME NEW nodes, Form(nodes), NEW p \in DOMAIN nodes, nodes[p].chars # <<>>
  PROVE  /\ Edge(nodes[p], Degree(nodes[p])) \in Edges(nodes[p])
         /\ \A f \in Edges(nodes[p]) : ~(Edge(nodes[p], Degree(nodes[p]))[1] < f[1])
         /\ Edge(nodes[p], 1) \in Edges(nodes[p])
         /\ \A f \in Edges(nodes[p]) : ~(f[1] < Edge(nodes[p], 1)[1])
<1>1. PICK n : n = nodes[p]
  OBVIOUS
<1>2. IsNode(n) /\ Ordered(n)
  BY <1>1, FormType
<1>3. PICK d : d = Degree(n)
  OBVIOUS
<1>4. /\ d \in Nat /\ d >= 1
      /\ \A k \in 1..d : Edge(n, k) \in Edges(n)
      /\ \A e \in Edges(n) : \E k \in 1..d : e = Edge(n, k)
      /\ \A k, l \in 1..d : k < l => Edge(n, k)[1] < Edge(n, l)[1]
  BY <1>1, <1>2, <1>3, EdgeAt
<1>5. d \in 1..d /\ 1 \in 1..d
  BY <1>4
<1>6. \A e, f \in Edges(n) : e[1] \in Nat
  BY <1>1, EdgeOrder
<1>7. ASSUME NEW f \in Edges(n)
      PROVE  ~(Edge(n, d)[1] < f[1]) /\ ~(f[1] < Edge(n, 1)[1])
  <2>1. PICK k \in 1..d : f = Edge(n, k)
    BY <1>4
  <2>2. Edge(n, d) \in Edges(n) /\ Edge(n, 1) \in Edges(n)
    BY <1>4, <1>5
  <2>3. Edge(n, d)[1] \in Nat /\ f[1] \in Nat /\ Edge(n, 1)[1] \in Nat
    BY <1>6, <2>2
  <2>4. k = d \/ k < d
    BY <1>4
  <2>5. k = 1 \/ 1 < k
    BY <1>4
  <2>6. f[1] = Edge(n, d)[1] \/ f[1] < Edge(n, d)[1]
    BY <1>4, <1>5, <2>1, <2>4
  <2>7. f[1] = Edge(n, 1)[1] \/ Edge(n, 1)[1] < f[1]
    BY <1>4, <1>5, <2>1, <2>5
  <2> QED BY ONLY <2>3, <2>6, <2>7
<1> QED BY ONLY <1>1, <1>3, <1>4, <1>5, <1>7

(* After some turns down the last edges from q the loop is at g.           *)
Descended(nodes, q, g, k) ==
  /\ g \in DOMAIN nodes /\ Begins(q, g)
  /\ \A v \in DOMAIN nodes : Begins(q, v) => ~Apart(g, v)
  /\ nodes[g].chars # <<>> => Len(g) >= k

(* One turn further down.                                                  *)
LEMMA Descends ==
  ASSUME NEW nodes, Form(nodes), NEW q \in DOMAIN nodes, NEW g, NEW k \in Nat, Descended(nodes, q, g, k),
         nodes[g].chars # <<>>, NEW x, x = Join(g, Edge(nodes[g], Degree(nodes[g])))
  PROVE  Descended(nodes, q, x, k + 1) /\ Len(x) >= k + 1
<1>1. PICK e : e = Edge(nodes[g], Degree(nodes[g]))
  OBVIOUS
<1>2. /\ g \in DOMAIN nodes /\ Begins(q, g) /\ Len(g) >= k
      /\ \A v \in DOMAIN nodes : Begins(q, v) => ~Apart(g, v)
  BY DEF Descended
<1>3. e \in Edges(nodes[g]) /\ \A f \in Edges(nodes[g]) : ~(e[1] < f[1])
  BY <1>1, <1>2, LastEdge
<1>4. x = Join(g, e)
  BY <1>1
<1>5. x \in W /\ x \in DOMAIN nodes /\ Begins(g, x) /\ Len(x) >= Len(g) + 1 /\ g \in W /\ q \in W
  BY <1>2, <1>3, <1>4, EdgeWord, FormType
<1>6. Begins(q, x)
  BY <1>2, <1>5, BeginsOrder
<1>7. ASSUME NEW v \in DOMAIN nodes, Begins(q, v) PROVE ~Apart(x, v)
  <2>1. SUFFICES ASSUME Apart(x, v) PROVE FALSE
    OBVIOUS
  <2>2. Apart(Join(g, e), v)
    BY <1>4, <2>1
  <2>3. Apart(g, v) \/ \E f \in Edges(nodes[g]) : Begins(Join(g, f), v) /\ e[1] < f[1]
    BY <1>2, <1>3, <2>2, AfterEdge
  <2> QED BY <1>2, <1>3, <1>7, <2>3
<1>8. Len(x) >= k + 1
  <2>1. Len(x) \in Nat /\ Len(g) \in Nat
    BY <1>5, WordType
  <2> QED BY ONLY <1>2, <1>5, <2>1, k \in Nat
<1> QED BY ONLY <1>5, <1>6, <1>7, <1>8 DEF Descended

(* The last of the nodes below q.                                          *)
LastBelow(nodes, q, g) ==
  /\ g \in DOMAIN nodes /\ g \in W /\ Begins(q, g) /\ nodes[g].chars = <<>>
  /\ \A v \in DOMAIN nodes : Begins(q, v) => ~Before(g, v)

(* raxSeekGreatest goes to the last of the nodes below q.                  *)
LEMMA SeekGreatestIs ==
  ASSUME NEW nodes, Form(nodes), NEW q \in DOMAIN nodes, NEW d \in Int
  PROVE  \E g : LastBelow(nodes, q, g) /\ raxSeekGreatest(nodes, Stand(q, d)) = Stand(g, d)
<1>1. PICK F : F = [x \in Iterators(nodes) |->
                      IF nodes[x.node].chars = <<>> THEN x ELSE GoDown(nodes, x, Degree(nodes[x.node]))]
  OBVIOUS
<1>2. PICK at : at = Iterate(F, Stand(q, d))
  OBVIOUS
<1>3. at[0] = Stand(q, d) /\ \A k \in Nat : at[k + 1] = F[at[k]]
  BY <1>2, IterateDef
<1>4. raxSeekGreatest(nodes, Stand(q, d)) = at[Depth(nodes)]
  BY <1>1, <1>2 DEF raxSeekGreatest
<1>5. q \in W
  BY FormType
<1>6. ASSUME NEW k \in Nat, NEW g, at[k] = Stand(g, d), Descended(nodes, q, g, k)
      PROVE  \E h : at[k + 1] = Stand(h, d) /\ Descended(nodes, q, h, k + 1)
  <2>1. g \in DOMAIN nodes /\ g \in W
    BY <1>6, FormType DEF Descended
  <2>2. Stand(g, d) \in Iterators(nodes) /\ Stand(g, d).node = g
    BY <2>1, StandType, StandIs
  <2>3. at[k + 1] = F[Stand(g, d)]
    BY <1>3, <1>6
  <2>4. CASE nodes[g].chars = <<>>
    <3>1. at[k + 1] = Stand(g, d)
      BY ONLY <1>1, <2>2, <2>3, <2>4
    <3>2. Descended(nodes, q, g, k + 1)
      BY ONLY <1>6, <2>4 DEF Descended
    <3> QED BY <3>1, <3>2
  <2>5. CASE nodes[g].chars # <<>>
    <3>1. PICK x : x = Join(g, Edge(nodes[g], Degree(nodes[g])))
      OBVIOUS
    <3>2. F[Stand(g, d)] = GoDown(nodes, Stand(g, d), Degree(nodes[g]))
      BY ONLY <1>1, <2>2, <2>5
    <3>3. at[k + 1] = Stand(x, d)
      BY <2>3, <3>1, <3>2, GoDownIs
    <3>4. Descended(nodes, q, x, k + 1)
      BY <1>6, <2>5, <3>1, Descends
    <3> QED BY <3>3, <3>4
  <2> QED BY <2>4, <2>5
<1>7. Descended(nodes, q, q, 0)
  <2>1. Begins(q, q) /\ Len(q) >= 0
    BY <1>5, BeginsOrder, WordType
  <2>2. \A v \in DOMAIN nodes : Begins(q, v) => ~Apart(q, v)
    BY <1>5, FormType, ApartOnce
  <2> QED BY <2>1, <2>2 DEF Descended
<1>8. \A k \in Nat : \E g : at[k] = Stand(g, d) /\ Descended(nodes, q, g, k)
  <2> DEFINE S == {k \in Nat : \E g : at[k] = Stand(g, d) /\ Descended(nodes, q, g, k)}
  <2>1. 0 \in S
    BY <1>3, <1>7
  <2>2. \A k \in Nat : k \in S => k + 1 \in S
    BY <1>6
  <2>3. \A k \in S : \E g : at[k] = Stand(g, d) /\ Descended(nodes, q, g, k)
    OBVIOUS
  <2> HIDE DEF S
  <2>4. Nat \subseteq S
    BY ONLY <2>1, <2>2, NaturalInduction
  <2> QED BY <2>3, <2>4
<1>9. Depth(nodes) \in Nat /\ \A p \in DOMAIN nodes : Len(p) <= Depth(nodes)
  BY DepthIs
<1>10. PICK g : at[Depth(nodes)] = Stand(g, d) /\ Descended(nodes, q, g, Depth(nodes))
  BY <1>8, <1>9
<1>11. g \in DOMAIN nodes /\ Begins(q, g) /\ \A v \in DOMAIN nodes : Begins(q, v) => ~Apart(g, v)
  BY <1>10 DEF Descended
<1>12. nodes[g].chars = <<>>
  <2>1. SUFFICES ASSUME nodes[g].chars # <<>> PROVE FALSE
    OBVIOUS
  <2>2. PICK x : x = Join(g, Edge(nodes[g], Degree(nodes[g])))
    OBVIOUS
  <2>3. Descended(nodes, q, x, Depth(nodes) + 1) /\ Len(x) >= Depth(nodes) + 1
    BY <1>9, <1>10, <2>1, <2>2, Descends
  <2>4. x \in DOMAIN nodes
    BY <2>3 DEF Descended
  <2>5. Len(x) \in Nat /\ Len(x) <= Depth(nodes)
    BY <1>9, <2>4, FormType, WordType
  <2> QED BY ONLY <1>9, <2>3, <2>5
<1>13. ASSUME NEW v \in DOMAIN nodes, Begins(q, v) PROVE ~Before(g, v)
  <2>1. g \in W /\ v \in W /\ IsNode(nodes[g]) /\ Ordered(nodes[g])
    BY <1>11, FormType
  <2>2. \A e : e \notin Edges(nodes[g])
    BY <1>12, <2>1, EdgeType
  <2>3. ~Below(g, v)
    BY <1>11, <2>2, FormType
  <2> QED BY <1>11, <1>13, <2>1, <2>3, BeforeIs
<1>14. g \in W
  BY <1>11, FormType
<1> QED BY <1>4, <1>10, <1>11, <1>12, <1>13, <1>14 DEF LastBelow

(* The last character of a key.                                            *)
LEMMA LastIs ==
  ASSUME NEW p \in W, NEW e \in W, Len(e) >= 1
  PROVE  /\ Last(Join(p, e)) \in Nat
         /\ Len(e) = 1 => Last(Join(p, e)) = e[1]
<1>1. PICK q : q = Join(p, e)
  OBVIOUS
<1>2. q \in W /\ Len(q) = Len(p) + Len(e) /\ \A i \in 1..Len(e) : q[Len(p) + i] = e[i]
  BY <1>1, JoinType
<1>3. Len(p) \in Nat /\ Len(e) \in Nat /\ Len(q) \in Nat /\ \A i \in 1..Len(q) : q[i] \in Nat
  BY <1>2, WordType
<1>4. Len(q) \in 1..Len(q)
  BY ONLY <1>2, <1>3, Len(e) >= 1
<1>5. Last(q) = q[Len(q)]
  BY DEF Last
<1>6. ASSUME Len(e) = 1 PROVE Last(q) = e[1]
  <2>1. 1 \in 1..Len(e) /\ Len(q) = Len(p) + 1
    BY ONLY <1>2, <1>6
  <2> QED BY ONLY <1>2, <1>5, <2>1
<1> QED BY ONLY <1>1, <1>3, <1>4, <1>5, <1>6

(* Back from r to what comes before the character c in it.                 *)
Back(nodes, r, c, z) ==
  \/ z = r /\ \A f \in Edges(nodes[r]) : nodes[r].iscompr \/ ~(f[1] < c)
  \/ \E e \in Edges(nodes[r]) :
       /\ ~nodes[r].iscompr /\ e[1] < c
       /\ \A f \in Edges(nodes[r]) : f[1] < c => ~(e[1] < f[1])
       /\ LastBelow(nodes, Join(r, e), z)

(* The step back within a node, or to the last node below an earlier edge. *)
LEMMA BackFromIs ==
  ASSUME NEW nodes, Form(nodes), NEW r \in DOMAIN nodes, NEW d \in Int, NEW c
  PROVE  \E z : BackFrom(nodes, Stand(r, d), c) = Stand(z, d) /\ Back(nodes, r, c, z)
<1>1. PICK n : n = nodes[r]
  OBVIOUS
<1>2. PICK S : S = {at \in DOMAIN n.chars : ~n.iscompr /\ n.chars[at] < c}
  OBVIOUS
<1>3. BackFrom(nodes, Stand(r, d), c)
        = IF S = {} THEN Stand(r, d) ELSE raxSeekGreatest(nodes, GoDown(nodes, Stand(r, d), Max(S)))
  <2>1. Stand(r, d).node = r
    BY StandIs
  <2> QED BY ONLY <1>1, <1>2, <2>1 DEF BackFrom
<1>4. /\ Degree(n) \in Nat
      /\ \A k \in 1..Degree(n) : Edge(n, k) \in Edges(n)
      /\ \A e \in Edges(n) : \E k \in 1..Degree(n) : e = Edge(n, k)
      /\ \A k, l \in 1..Degree(n) : k < l => Edge(n, k)[1] < Edge(n, l)[1]
      /\ ~n.iscompr => /\ DOMAIN n.chars = 1..Degree(n)
                       /\ \A k \in 1..Degree(n) : Edge(n, k)[1] = n.chars[k]
  <2>1. IsNode(n) /\ Ordered(n)
    BY <1>1, FormType
  <2> QED BY ONLY <2>1, EdgeAt
<1>5. CASE S = {}
  <2>1. \A f \in Edges(n) : n.iscompr \/ ~(f[1] < c)
    BY ONLY <1>2, <1>4, <1>5
  <2>2. Back(nodes, r, c, r)
    BY ONLY <1>1, <2>1 DEF Back
  <2> QED BY ONLY <1>3, <1>5, <2>2
<1>6. CASE S # {}
  <2>1. ~n.iscompr /\ \A k : k \in S <=> k \in 1..Degree(n) /\ n.chars[k] < c
    BY ONLY <1>2, <1>4, <1>6
  <2>2. S \subseteq Nat /\ \A k \in S : k <= Degree(n)
    BY ONLY <1>4, <2>1
  <2>3. PICK m : m = Max(S)
    OBVIOUS
  <2>4. m \in S /\ \A k \in S : k <= m
    BY ONLY <1>4, <1>6, <2>2, <2>3, MaxIs
  <2>5. PICK e : e = Edge(n, m)
    OBVIOUS
  <2>6. m \in 1..Degree(n) /\ e \in Edges(n) /\ e[1] < c
    BY ONLY <1>4, <2>1, <2>4, <2>5
  <2>7. ASSUME NEW f \in Edges(n), f[1] < c PROVE ~(e[1] < f[1])
    <3>1. PICK k \in 1..Degree(n) : f = Edge(n, k)
      BY ONLY <1>4, <2>7
    <3>2. k \in S
      BY ONLY <1>4, <2>1, <2>7, <3>1
    <3>3. k = m \/ k < m
      BY ONLY <1>4, <2>4, <2>6, <3>1, <3>2
    <3>4. f[1] = e[1] \/ f[1] < e[1]
      BY ONLY <1>4, <2>5, <2>6, <3>1, <3>3
    <3>5. f[1] \in Nat /\ e[1] \in Nat
      BY <1>1, <2>6, EdgeOrder
    <3> QED BY ONLY <3>4, <3>5
  <2>8. PICK q : q = Join(r, e)
    OBVIOUS
  <2>9. q \in DOMAIN nodes
    BY <1>1, <2>6, <2>8, EdgeWord
  <2>10. PICK z : LastBelow(nodes, q, z) /\ raxSeekGreatest(nodes, Stand(q, d)) = Stand(z, d)
    BY <2>9, SeekGreatestIs
  <2>11. GoDown(nodes, Stand(r, d), Max(S)) = Stand(q, d)
    BY ONLY <1>1, <2>3, <2>5, <2>8, GoDownIs
  <2>12. BackFrom(nodes, Stand(r, d), c) = Stand(z, d)
    BY ONLY <1>3, <1>6, <2>10, <2>11
  <2>13. Back(nodes, r, c, z)
    BY ONLY <1>1, <2>1, <2>6, <2>7, <2>8, <2>10 DEF Back
  <2> QED BY <2>12, <2>13
<1> QED BY <1>5, <1>6

(* The node before y.                                                      *)
Pred(nodes, y, z) ==
  /\ z \in DOMAIN nodes /\ Before(z, y)
  /\ \A v \in DOMAIN nodes : Before(v, y) => ~Before(z, v)
  /\ nodes[z].chars = <<>> \/ Len(z) < Len(y)

(* The step back from y is to the node before it.                          *)
LEMMA BackIsPred ==
  ASSUME NEW nodes, Form(nodes), NEW r \in DOMAIN nodes, NEW e \in Edges(nodes[r]),
         NEW y, y = Join(r, e), NEW c, ~nodes[r].iscompr => c = e[1], NEW z, Back(nodes, r, c, z)
  PROVE  Pred(nodes, y, z)
<1>1. /\ r \in W /\ e \in W /\ y \in W /\ y \in DOMAIN nodes /\ Len(e) >= 1
      /\ Below(r, y) /\ Begins(r, y) /\ \A v \in DOMAIN nodes : v \in W
  BY EdgeWord, FormType
<1>2. \A v \in DOMAIN nodes : Below(v, y) => Begins(v, r)
  BY NoneBetween
<1>3. \A v \in DOMAIN nodes : Apart(v, y) =>
         Apart(v, r) \/ \E f \in Edges(nodes[r]) : Begins(Join(r, f), v) /\ f[1] < e[1]
  BY BeforeEdge
<1>4. \A f, g \in Edges(nodes[r]) : f[1] \in Nat /\ (f[1] = g[1] => f = g) /\ (f # g => ~nodes[r].iscompr)
  BY EdgeOrder
<1>5. CASE z = r /\ \A f \in Edges(nodes[r]) : nodes[r].iscompr \/ ~(f[1] < c)
  <2>1. \A f \in Edges(nodes[r]) : ~(f[1] < e[1])
    <3>1. SUFFICES ASSUME NEW f \in Edges(nodes[r]), f[1] < e[1] PROVE FALSE
      OBVIOUS
    <3>2. f # e
      BY ONLY <1>4, <3>1, e \in Edges(nodes[r])
    <3>3. ~nodes[r].iscompr
      BY ONLY <1>4, <3>2, e \in Edges(nodes[r])
    <3> QED BY <1>5, <3>1, <3>3
  <2>2. ASSUME NEW v \in DOMAIN nodes, Before(v, y) PROVE ~Before(z, v)
    <3>1. Below(v, y) \/ Apart(v, y)
      BY <1>1, <2>2, BeforeIs
    <3>2. Begins(v, r) \/ Apart(v, r)
      BY ONLY <1>2, <1>3, <2>1, <2>2, <3>1
    <3>3. ~Before(r, v)
      BY <1>1, <2>2, <3>2, NotBefore
    <3> QED BY <1>5, <3>3
  <2>3. Before(r, y) /\ Len(r) < Len(y)
    BY <1>1, NotBefore DEF Below
  <2> QED BY ONLY <1>5, <2>2, <2>3, r \in DOMAIN nodes DEF Pred
<1>6. ASSUME NEW f \in Edges(nodes[r]), ~nodes[r].iscompr, f[1] < c,
             \A g \in Edges(nodes[r]) : g[1] < c => ~(f[1] < g[1]), LastBelow(nodes, Join(r, f), z)
      PROVE  Pred(nodes, y, z)
  <2>1. PICK x : x = Join(r, f)
    OBVIOUS
  <2>2. f \in W /\ Len(f) >= 1 /\ x \in W /\ x \in DOMAIN nodes /\ Begins(r, x)
    BY <2>1, EdgeWord
  <2>3. /\ z \in DOMAIN nodes /\ z \in W /\ Begins(x, z) /\ nodes[z].chars = <<>>
        /\ \A v \in DOMAIN nodes : Begins(x, v) => ~Before(z, v)
    BY ONLY <1>6, <2>1 DEF LastBelow
  <2>4. Begins(r, z)
    BY <1>1, <2>2, <2>3, BeginsOrder
  <2>5. c = e[1]
    BY <1>6
  <2>6. Before(z, y)
    <3>1. Begins(y, y)
      BY <1>1, BeginsOrder
    <3>2. Begins(Join(r, f), z) /\ Begins(Join(r, e), y) /\ f[1] < e[1]
      BY <1>6, <2>1, <2>3, <2>5, <3>1
    <3>3. Apart(z, y)
      BY ONLY <1>1, <2>2, <2>3, <3>2, TwoEdges
    <3> QED BY ONLY <1>1, <2>3, <3>3, NotBefore
  <2>7. ASSUME NEW v \in DOMAIN nodes, Before(v, y) PROVE ~Before(z, v)
    <3>1. Below(v, y) \/ Apart(v, y)
      BY <1>1, <2>7, BeforeIs
    <3>2. CASE Below(v, y)
      <4>1. Begins(v, r)
        BY <1>2, <3>2
      <4>2. Begins(v, z)
        BY <1>1, <2>3, <2>4, <4>1, BeginsOrder
      <4> QED BY <1>1, <2>3, <4>2, NotBefore
    <3>3. CASE Apart(v, r)
      <4>1. Apart(v, z)
        BY ONLY <1>1, <2>3, <2>4, <2>7, <3>3, ApartBelow
      <4> QED BY <1>1, <2>3, <4>1, NotBefore
    <3>4. ASSUME NEW g \in Edges(nodes[r]), Begins(Join(r, g), v), g[1] < e[1] PROVE ~Before(z, v)
      <4>1. ~(f[1] < g[1]) /\ f[1] \in Nat /\ g[1] \in Nat
        BY ONLY <1>4, <1>6, <2>5, <3>4
      <4>2. CASE g[1] = f[1]
        <5>1. g = f
          BY ONLY <1>4, <3>4, <4>2, f \in Edges(nodes[r])
        <5> QED BY ONLY <2>1, <2>3, <2>7, <3>4, <5>1
      <4>3. CASE g[1] < f[1]
        <5>1. g \in W /\ Len(g) >= 1
          BY EdgeWord
        <5>2. Begins(Join(r, f), z)
          BY <2>1, <2>3
        <5>3. Apart(v, z)
          BY ONLY <1>1, <2>2, <2>3, <3>4, <4>3, <5>1, <5>2, TwoEdges
        <5> QED BY <1>1, <2>3, <5>3, NotBefore
      <4> QED BY ONLY <4>1, <4>2, <4>3
    <3> QED BY <1>3, <3>1, <3>2, <3>3, <3>4
  <2> QED BY <2>3, <2>6, <2>7 DEF Pred
<1> QED BY <1>5, <1>6 DEF Back

(* The turn of the loop in raxIteratorPrevStep goes to the node before.    *)
LEMMA PredIs ==
  ASSUME NEW nodes, Form(nodes), NEW y \in DOMAIN nodes, y # Root, NEW d \in Int
  PROVE  \E z : BackFrom(nodes, GoUp(nodes, Stand(y, d)), Last(y)) = Stand(z, d) /\ Pred(nodes, y, z)
<1>1. PICK r : r = Parent(nodes, y)
  OBVIOUS
<1>2. r \in DOMAIN nodes /\ \E e \in Edges(nodes[r]) : y = Join(r, e)
  BY <1>1, ParentIs
<1>3. PICK e \in Edges(nodes[r]) : y = Join(r, e)
  BY <1>2
<1>4. PICK c : c = Last(y)
  OBVIOUS
<1>5. ~nodes[r].iscompr => c = e[1]
  <2>1. r \in W /\ e \in W /\ Len(e) >= 1
    BY <1>2, EdgeWord
  <2>2. ~nodes[r].iscompr => Len(e) = 1
    <3>1. PICK n : n = nodes[r]
      OBVIOUS
    <3>2. IsNode(n) /\ Ordered(n) /\ e \in Edges(n)
      BY <1>2, <1>3, <3>1, FormType
    <3>3. ~n.iscompr => Len(e) = 1
      BY ONLY <3>2, EdgeAt
    <3> QED BY <3>1, <3>3
  <2> QED BY <1>3, <1>4, <2>1, <2>2, LastIs
<1>6. GoUp(nodes, Stand(y, d)) = Stand(r, d)
  BY <1>1, GoUpIs
<1>7. PICK z : BackFrom(nodes, Stand(r, d), c) = Stand(z, d) /\ Back(nodes, r, c, z)
  BY <1>2, BackFromIs
<1>8. Pred(nodes, y, z)
  BY ONLY Form(nodes), <1>2, <1>3, <1>5, <1>7, BackIsPred
<1> QED BY <1>4, <1>6, <1>7, <1>8

-----------------------------------------------------------------------------
(***************************************************************************)
(* 4. The node after.                                                      *)
(***************************************************************************)

(* The node after p.                                                       *)
Succ(nodes, p, x) ==
  /\ x \in DOMAIN nodes /\ Before(p, x)
  /\ \A v \in DOMAIN nodes : Before(p, v) => ~Before(v, x)

(* The node after one with edges is the first below it.                    *)
LEMMA FirstIsSucc ==
  ASSUME NEW nodes, Form(nodes), NEW p \in DOMAIN nodes, nodes[p].chars # <<>>,
         NEW x, x = Join(p, Edge(nodes[p], 1))
  PROVE  Succ(nodes, p, x) /\ Len(x) >= Len(p) + 1
<1>1. PICK e : e = Edge(nodes[p], 1)
  OBVIOUS
<1>2. e \in Edges(nodes[p]) /\ \A f \in Edges(nodes[p]) : ~(f[1] < e[1])
  BY <1>1, LastEdge
<1>3. x = Join(p, e)
  BY <1>1
<1>4. /\ p \in W /\ e \in W /\ Len(e) >= 1 /\ x \in W /\ x \in DOMAIN nodes /\ Below(p, x)
      /\ Len(x) >= Len(p) + 1 /\ Begins(x, x)
  BY <1>2, <1>3, EdgeWord, BeginsOrder
<1>5. Before(p, x)
  BY <1>4, NotBefore
<1>6. ASSUME NEW v \in DOMAIN nodes, Before(p, v) PROVE ~Before(v, x)
  <2>1. v \in W
    BY FormType
  <2>2. Below(p, v) \/ Apart(p, v)
    BY <1>4, <1>6, <2>1, BeforeIs
  <2>3. CASE Apart(p, v)
    <3>1. Begins(p, x)
      BY <1>4 DEF Below
    <3>2. Apart(x, v)
      BY ONLY <1>4, <2>1, <2>3, <3>1, ApartBelow
    <3> QED BY <1>4, <2>1, <3>2, NotBefore
  <2>4. CASE Below(p, v)
    <3>1. PICK f \in Edges(nodes[p]) : Begins(Join(p, f), v)
      BY <2>4, FormType
    <3>2. CASE f = e
      <4>1. Begins(x, v)
        BY <1>3, <3>1, <3>2
      <4> QED BY <1>4, <2>1, <4>1, NotBefore
    <3>3. CASE f # e
      <4>1. f[1] \in Nat /\ e[1] \in Nat /\ f[1] # e[1] /\ ~(f[1] < e[1])
        BY <1>2, <3>3, EdgeOrder
      <4>2. e[1] < f[1]
        BY ONLY <4>1
      <4>3. f \in W /\ Len(f) >= 1
        BY EdgeWord
      <4>4. Begins(Join(p, e), x)
        BY ONLY <1>3, <1>4
      <4>5. Apart(x, v)
        BY ONLY <1>4, <2>1, <3>1, <4>2, <4>3, <4>4, TwoEdges
      <4> QED BY <1>4, <2>1, <4>5, NotBefore
    <3> QED BY <3>2, <3>3
  <2> QED BY <2>2, <2>3, <2>4
<1> QED BY <1>4, <1>5, <1>6 DEF Succ

(* Nothing under q comes after p, and p is under q.                        *)
Past(nodes, p, q) ==
  /\ q \in DOMAIN nodes /\ q \in W /\ Begins(q, p)
  /\ \A v \in DOMAIN nodes : Begins(q, v) => ~Before(p, v)

(* A leaf has nothing below.                                               *)
LEMMA LeafIsPast ==
  ASSUME NEW nodes, Form(nodes), NEW p \in DOMAIN nodes, nodes[p].chars = <<>>
  PROVE  Past(nodes, p, p)
<1>1. p \in W /\ IsNode(nodes[p]) /\ Ordered(nodes[p]) /\ Begins(p, p)
  BY FormType, BeginsOrder
<1>2. \A e : e \notin Edges(nodes[p])
  BY <1>1, EdgeType
<1>3. ASSUME NEW v \in DOMAIN nodes, Begins(p, v) PROVE ~Before(p, v)
  <2>1. v = p
    BY <1>2, <1>3, UnderEdge
  <2> QED BY <1>1, <2>1, NotBefore
<1> QED BY <1>1, <1>3 DEF Past

(* The step up from q to its parent r, when it has no later edge.          *)
LEMMA PastParent ==
  ASSUME NEW nodes, Form(nodes), NEW p \in W, NEW r \in DOMAIN nodes, NEW e \in Edges(nodes[r]),
         NEW q, q = Join(r, e), Past(nodes, p, q), \A f \in Edges(nodes[r]) : ~(e[1] < f[1])
  PROVE  Past(nodes, p, r)
<1>1. r \in W /\ e \in W /\ Len(e) >= 1 /\ q \in W /\ Begins(r, q)
  BY EdgeWord
<1>2. Begins(q, p) /\ \A v \in DOMAIN nodes : Begins(q, v) => ~Before(p, v)
  BY DEF Past
<1>3. Begins(r, p)
  BY <1>1, <1>2, BeginsOrder
<1>4. ASSUME NEW v \in DOMAIN nodes, Begins(r, v) PROVE ~Before(p, v)
  <2>1. v \in W
    BY FormType
  <2>2. CASE v = r
    BY <1>1, <1>3, <2>2, NotBefore
  <2>3. ASSUME NEW f \in Edges(nodes[r]), Begins(Join(r, f), v) PROVE ~Before(p, v)
    <3>1. CASE f = e
      BY <1>2, <2>3, <3>1
    <3>2. CASE f # e
      <4>1. f[1] \in Nat /\ e[1] \in Nat /\ f[1] # e[1] /\ ~(e[1] < f[1])
        BY <3>2, EdgeOrder
      <4>2. f[1] < e[1]
        BY ONLY <4>1
      <4>3. f \in W /\ Len(f) >= 1
        BY EdgeWord
      <4>4. Begins(Join(r, e), p)
        BY <1>2
      <4>5. Apart(v, p)
        BY ONLY <1>1, <2>1, <2>3, <4>2, <4>3, <4>4, p \in W, TwoEdges
      <4> QED BY <2>1, <4>5, NotBefore
    <3> QED BY <3>1, <3>2
  <2> QED BY <1>4, <2>2, <2>3, UnderEdge
<1> QED BY <1>1, <1>3, <1>4 DEF Past

(* The step over, to the next edge of r.                                   *)
LEMMA OverIsSucc ==
  ASSUME NEW nodes, Form(nodes), NEW p \in W, NEW r \in DOMAIN nodes, NEW e \in Edges(nodes[r]),
         NEW q, q = Join(r, e), Past(nodes, p, q),
         NEW f \in Edges(nodes[r]), e[1] < f[1],
         \A g \in Edges(nodes[r]) : e[1] < g[1] => ~(g[1] < f[1]), NEW x, x = Join(r, f)
  PROVE  Succ(nodes, p, x)
<1>1. r \in W /\ e \in W /\ Len(e) >= 1 /\ q \in W /\ Begins(r, q)
  BY EdgeWord
<1>2. f \in W /\ Len(f) >= 1 /\ x \in W /\ x \in DOMAIN nodes /\ Begins(x, x)
  BY EdgeWord, BeginsOrder
<1>3. Begins(q, p) /\ \A v \in DOMAIN nodes : Begins(q, v) => ~Before(p, v)
  BY DEF Past
<1>4. Begins(r, p)
  BY <1>1, <1>3, BeginsOrder
<1>5. Begins(Join(r, e), p) /\ Begins(Join(r, f), x)
  BY <1>2, <1>3
<1>6. Before(p, x)
  <2>1. Apart(p, x)
    BY ONLY <1>1, <1>2, <1>5, e[1] < f[1], p \in W, TwoEdges
  <2> QED BY <1>2, <2>1, NotBefore
<1>7. ASSUME NEW v \in DOMAIN nodes, Before(p, v) PROVE ~Before(v, x)
  <2>1. SUFFICES ASSUME Before(v, x) PROVE FALSE
    OBVIOUS
  <2>2. v \in W
    BY FormType
  <2>3. Below(v, x) \/ Apart(v, x)
    BY <1>2, <2>1, <2>2, BeforeIs
  <2>4. ~Begins(v, p) /\ ~Apart(v, p)
    BY <1>7, <2>2, NotBefore
  <2>5. CASE Below(v, x)
    <3>1. Begins(v, r)
      BY <2>5, NoneBetween
    <3> QED BY <1>1, <1>4, <2>2, <2>4, <3>1, BeginsOrder
  <2>6. CASE Apart(v, r)
    BY ONLY <1>1, <1>4, <2>2, <2>4, <2>6, p \in W, ApartBelow
  <2>7. ASSUME NEW g \in Edges(nodes[r]), Begins(Join(r, g), v), g[1] < f[1] PROVE FALSE
    <3>1. g[1] \in Nat /\ e[1] \in Nat /\ (g[1] = e[1] => g = e)
      BY EdgeOrder
    <3>2. ~(e[1] < g[1])
      BY ONLY <2>7, \A h \in Edges(nodes[r]) : e[1] < h[1] => ~(h[1] < f[1])
    <3>3. CASE g = e
      BY <1>3, <1>7, <2>7, <3>3
    <3>4. CASE g[1] < e[1]
      <4>1. g \in W /\ Len(g) >= 1
        BY EdgeWord
      <4> QED BY ONLY <1>1, <1>5, <2>2, <2>4, <2>7, <3>4, <4>1, p \in W, TwoEdges
    <3> QED BY ONLY <3>1, <3>2, <3>3, <3>4
  <2>8. Apart(v, x) => Apart(v, r) \/ \E g \in Edges(nodes[r]) : Begins(Join(r, g), v) /\ g[1] < f[1]
    BY BeforeEdge
  <2> QED BY ONLY <2>3, <2>5, <2>6, <2>7, <2>8
<1> QED BY <1>2, <1>6, <1>7 DEF Succ

(* The iterator that has come to the end.                                  *)
Ended(q, d) == [key |-> q, node |-> q, data |-> d, eof |-> TRUE, seeked |-> FALSE]

LEMMA EndedIs ==
  ASSUME NEW q, NEW d
  PROVE  AtEnd(Stand(q, d)) = Ended(q, d)
<1>1. PICK f : f = FALSE
  OBVIOUS
<1>2. PICK t : t = TRUE
  OBVIOUS
<1>3. PICK it : it = Stand(q, d)
  OBVIOUS
<1>4. it = [key |-> q, node |-> q, data |-> d, eof |-> f, seeked |-> f]
  BY <1>1, <1>3 DEF Stand, Place
<1>5. [it EXCEPT !.eof = t] = [key |-> q, node |-> q, data |-> d, eof |-> t, seeked |-> f]
  BY ONLY <1>4
<1>6. AtEnd(it) = [it EXCEPT !.eof = t]
  BY ONLY <1>2 DEF AtEnd
<1>7. Ended(q, d) = [key |-> q, node |-> q, data |-> d, eof |-> t, seeked |-> f]
  BY <1>1, <1>2 DEF Ended
<1> QED BY ONLY <1>3, <1>5, <1>6, <1>7

LEMMA EndedType ==
  ASSUME NEW nodes, NEW q \in DOMAIN nodes, q \in W, NEW d \in Int
  PROVE  Ended(q, d) \in Iterators(nodes) /\ Ended(q, d).eof = TRUE
<1>1. PICK f \in BOOLEAN : f = FALSE
  OBVIOUS
<1>2. PICK t \in BOOLEAN : t = TRUE
  OBVIOUS
<1>3. q \in Seq(Nat)
  BY DEF W
<1>4. [key |-> q, node |-> q, data |-> d, eof |-> t, seeked |-> f]
        \in [key : Seq(Nat), node : DOMAIN nodes, data : Int, eof : BOOLEAN, seeked : BOOLEAN]
  BY ONLY <1>3, q \in DOMAIN nodes, d \in Int
<1>5. Ended(q, d).eof = TRUE
  BY DEF Ended
<1> QED BY <1>1, <1>2, <1>4, <1>5 DEF Ended, Iterators

(* The next edge after the one by which q hangs on r, and the step to it.  *)
Over(nodes, q, d, x) ==
  \E r \in DOMAIN nodes : \E e, f \in Edges(nodes[r]) :
    /\ q = Join(r, e) /\ x = Join(r, f) /\ e[1] < f[1]
    /\ \A g \in Edges(nodes[r]) : e[1] < g[1] => ~(g[1] < f[1])

(* Later edges of the parent are looked for as the code does, and GoDown   *)
(* takes the next.                                                         *)
LEMMA LaterIs ==
  ASSUME NEW nodes, Form(nodes), NEW q \in DOMAIN nodes, q # Root, NEW d \in Int
  PROVE  /\ Later(nodes, Stand(q, d)) = {} =>
              \E e \in Edges(nodes[Parent(nodes, q)]) :
                q = Join(Parent(nodes, q), e) /\ \A f \in Edges(nodes[Parent(nodes, q)]) : ~(e[1] < f[1])
         /\ Later(nodes, Stand(q, d)) # {} =>
              \E x : /\ GoDown(nodes, GoUp(nodes, Stand(q, d)), Min(Later(nodes, Stand(q, d)))) = Stand(x, d)
                     /\ Over(nodes, q, d, x)
<1>1. PICK r : r = Parent(nodes, q)
  OBVIOUS
<1>2. r \in DOMAIN nodes /\ \E e \in Edges(nodes[r]) : q = Join(r, e)
  BY <1>1, ParentIs
<1>3. PICK e \in Edges(nodes[r]) : q = Join(r, e)
  BY <1>2
<1>4. PICK n : n = nodes[r]
  OBVIOUS
<1>5. PICK S : S = Later(nodes, Stand(q, d))
  OBVIOUS
<1>6. GoUp(nodes, Stand(q, d)) = Stand(r, d)
  BY <1>1, GoUpIs
<1>7. S = {at \in DOMAIN n.chars : ~n.iscompr /\ n.chars[at] > Last(q)}
  <2>1. PICK it : it = Stand(q, d)
    OBVIOUS
  <2>2. it.key = q /\ GoUp(nodes, it).node = r
    BY <1>6, <2>1, StandIs
  <2>3. S = Later(nodes, it)
    BY <1>5, <2>1
  <2> QED BY ONLY <1>4, <2>2, <2>3 DEF Later
<1>8. r \in W /\ e \in W /\ Len(e) >= 1
  BY <1>2, EdgeWord
<1>9. /\ Degree(n) \in Nat
      /\ \A k \in 1..Degree(n) : Edge(n, k) \in Edges(n)
      /\ \A g \in Edges(n) : \E k \in 1..Degree(n) : g = Edge(n, k)
      /\ \A k, l \in 1..Degree(n) : k < l => Edge(n, k)[1] < Edge(n, l)[1]
      /\ \A g \in Edges(n) : EdgeLen(n) = Len(g)
      /\ ~n.iscompr => /\ DOMAIN n.chars = 1..Degree(n)
                       /\ \A k \in 1..Degree(n) : Edge(n, k)[1] = n.chars[k] /\ Len(Edge(n, k)) = 1
      /\ n.iscompr => \A g, h \in Edges(n) : g = h
  <2>1. IsNode(n) /\ Ordered(n)
    BY <1>2, <1>4, FormType
  <2> QED BY ONLY <2>1, EdgeAt
<1>10. \A g \in Edges(n) : g[1] \in Nat
  BY <1>2, <1>4, EdgeOrder
<1>11. e \in Edges(n)
  BY <1>3, <1>4
<1>12. ~n.iscompr => Last(q) = e[1]
  <2>1. SUFFICES ASSUME ~n.iscompr PROVE Last(q) = e[1]
    OBVIOUS
  <2>2. Len(e) = 1
    BY ONLY <1>9, <1>11, <2>1
  <2> QED BY <1>3, <1>8, <2>2, LastIs
<1>13. \A k : k \in S <=> ~n.iscompr /\ k \in 1..Degree(n) /\ e[1] < Edge(n, k)[1]
  <2>1. SUFFICES ASSUME NEW k PROVE k \in S <=> ~n.iscompr /\ k \in 1..Degree(n) /\ e[1] < Edge(n, k)[1]
    OBVIOUS
  <2>2. k \in S <=> ~n.iscompr /\ k \in DOMAIN n.chars /\ n.chars[k] > Last(q)
    BY ONLY <1>7
  <2>3. ASSUME ~n.iscompr, k \in 1..Degree(n) PROVE n.chars[k] > Last(q) <=> e[1] < Edge(n, k)[1]
    <3>1. n.chars[k] = Edge(n, k)[1] /\ Last(q) = e[1]
      BY ONLY <1>9, <1>12, <2>3
    <3>2. Edge(n, k)[1] \in Nat /\ e[1] \in Nat
      BY ONLY <1>9, <1>10, <1>11, <2>3
    <3> QED BY ONLY <3>1, <3>2
  <2> QED BY ONLY <1>9, <2>2, <2>3
<1>14. ASSUME S = {} PROVE \A f \in Edges(n) : ~(e[1] < f[1])
  <2>1. SUFFICES ASSUME NEW f \in Edges(n), e[1] < f[1] PROVE FALSE
    OBVIOUS
  <2>2. f # e
    BY ONLY <1>10, <1>11, <2>1
  <2>3. ~n.iscompr
    BY ONLY <1>9, <1>11, <2>2
  <2>4. PICK k \in 1..Degree(n) : f = Edge(n, k)
    BY ONLY <1>9
  <2> QED BY ONLY <1>13, <1>14, <2>1, <2>3, <2>4
<1>15. ASSUME S # {}
       PROVE  \E x : GoDown(nodes, Stand(r, d), Min(S)) = Stand(x, d) /\ Over(nodes, q, d, x)
  <2>1. S \subseteq Nat
    BY ONLY <1>9, <1>13
  <2>2. PICK m : m = Min(S)
    OBVIOUS
  <2>3. m \in S /\ \A k \in S : m <= k
    BY ONLY <1>15, <2>1, <2>2, MinIs
  <2>4. PICK f : f = Edge(n, m)
    OBVIOUS
  <2>5. m \in 1..Degree(n) /\ f \in Edges(n) /\ e[1] < f[1] /\ ~n.iscompr
    BY ONLY <1>9, <1>13, <2>3, <2>4
  <2>6. ASSUME NEW g \in Edges(n), e[1] < g[1] PROVE ~(g[1] < f[1])
    <3>1. PICK k \in 1..Degree(n) : g = Edge(n, k)
      BY ONLY <1>9
    <3>2. k \in S
      BY ONLY <1>13, <2>5, <2>6, <3>1
    <3>3. k = m \/ m < k
      BY ONLY <1>9, <2>3, <2>5, <3>1, <3>2
    <3>4. f[1] = g[1] \/ f[1] < g[1]
      BY ONLY <1>9, <2>4, <2>5, <3>1, <3>3
    <3>5. g[1] \in Nat /\ f[1] \in Nat
      BY ONLY <1>10, <2>5, <2>6
    <3> QED BY ONLY <3>4, <3>5
  <2>7. PICK x : x = Join(r, f)
    OBVIOUS
  <2>8. GoDown(nodes, Stand(r, d), Min(S)) = Stand(x, d)
    BY ONLY <1>4, <2>2, <2>4, <2>7, GoDownIs
  <2>9. Over(nodes, q, d, x)
    BY ONLY <1>2, <1>3, <1>4, <1>11, <2>5, <2>6, <2>7 DEF Over
  <2> QED BY <2>8, <2>9
<1>16. Later(nodes, Stand(q, d)) = {} =>
         \E g \in Edges(nodes[r]) : q = Join(r, g) /\ \A f \in Edges(nodes[r]) : ~(g[1] < f[1])
  BY ONLY <1>3, <1>4, <1>5, <1>11, <1>14
<1>17. Later(nodes, Stand(q, d)) # {} =>
         \E x : /\ GoDown(nodes, GoUp(nodes, Stand(q, d)), Min(Later(nodes, Stand(q, d)))) = Stand(x, d)
                /\ Over(nodes, q, d, x)
  BY ONLY <1>5, <1>6, <1>15
<1> QED BY ONLY <1>1, <1>16, <1>17

(* After some turns up from p the loop is at q.                            *)
Climbed(nodes, p, d, q, k) ==
  /\ Past(nodes, p, q)
  /\ \/ q = Root \/ Later(nodes, Stand(q, d)) # {}
     \/ Len(q) + k <= Depth(nodes)

(* One turn further up.                                                    *)
LEMMA Climbs ==
  ASSUME NEW nodes, Form(nodes), NEW p \in W, NEW d \in Int, NEW q, NEW k \in Nat, Climbed(nodes, p, d, q, k),
         q # Root, Later(nodes, Stand(q, d)) = {}, NEW r, r = Parent(nodes, q)
  PROVE  GoUp(nodes, Stand(q, d)) = Stand(r, d) /\ Climbed(nodes, p, d, r, k + 1)
<1>1. Past(nodes, p, q) /\ q \in DOMAIN nodes /\ Len(q) + k <= Depth(nodes)
  BY DEF Climbed, Past
<1>2. GoUp(nodes, Stand(q, d)) = Stand(r, d)
  BY <1>1, GoUpIs
<1>3. r \in DOMAIN nodes /\ Len(r) < Len(q)
  BY <1>1, ParentIs
<1>4. PICK e \in Edges(nodes[r]) : q = Join(r, e) /\ \A f \in Edges(nodes[r]) : ~(e[1] < f[1])
  BY <1>1, LaterIs
<1>5. Past(nodes, p, r)
  BY ONLY Form(nodes), p \in W, <1>1, <1>3, <1>4, PastParent
<1>6. Len(r) + (k + 1) <= Depth(nodes)
  <2>1. Len(r) \in Nat /\ Len(q) \in Nat /\ Depth(nodes) \in Nat
    BY <1>1, <1>3, FormType, WordType, DepthIs
  <2> QED BY ONLY <1>1, <1>3, <2>1, k \in Nat
<1> QED BY <1>2, <1>5, <1>6 DEF Climbed

(* The iterator is at the node after p, or at the end and p is the last.   *)
SteppedTo(nodes, p, d, it) ==
  \/ \E x \in DOMAIN nodes : it = Stand(x, d) /\ Succ(nodes, p, x)
  \/ \E x \in DOMAIN nodes : it = Ended(x, d) /\ \A v \in DOMAIN nodes : ~Before(p, v)

(* From a leaf the loop goes to the node after it, or to the end.          *)
LEMMA UpAndOverIs ==
  ASSUME NEW nodes, Form(nodes), NEW p \in DOMAIN nodes, nodes[p].chars = <<>>, NEW d \in Int
  PROVE  SteppedTo(nodes, p, d, UpAndOver(nodes, Stand(p, d)))
<1>1. PICK F : F = [x \in Iterators(nodes) |->
                      IF x.node = Root THEN x ELSE IF Later(nodes, x) # {} THEN x ELSE GoUp(nodes, x)]
  OBVIOUS
<1>2. PICK at : at = Iterate(F, Stand(p, d))
  OBVIOUS
<1>3. at[0] = Stand(p, d) /\ \A k \in Nat : at[k + 1] = F[at[k]]
  BY <1>2, IterateDef
<1>4. p \in W /\ \A q \in DOMAIN nodes : q \in W
  BY FormType
<1>5. Depth(nodes) \in Nat /\ \A q \in DOMAIN nodes : Len(q) <= Depth(nodes)
  BY DepthIs
<1>6. ASSUME NEW k \in Nat, NEW q, at[k] = Stand(q, d), Climbed(nodes, p, d, q, k)
      PROVE  \E h : at[k + 1] = Stand(h, d) /\ Climbed(nodes, p, d, h, k + 1)
  <2>1. q \in DOMAIN nodes /\ q \in W
    BY <1>6 DEF Climbed, Past
  <2>2. Stand(q, d) \in Iterators(nodes) /\ Stand(q, d).node = q
    BY <2>1, StandType, StandIs
  <2>3. at[k + 1] = F[Stand(q, d)]
    BY <1>3, <1>6
  <2>4. CASE q = Root \/ Later(nodes, Stand(q, d)) # {}
    <3>1. at[k + 1] = Stand(q, d)
      BY ONLY <1>1, <2>2, <2>3, <2>4
    <3>2. Climbed(nodes, p, d, q, k + 1)
      BY ONLY <1>6, <2>4 DEF Climbed
    <3> QED BY <3>1, <3>2
  <2>5. CASE q # Root /\ Later(nodes, Stand(q, d)) = {}
    <3>1. PICK r : r = Parent(nodes, q)
      OBVIOUS
    <3>2. F[Stand(q, d)] = GoUp(nodes, Stand(q, d))
      BY ONLY <1>1, <2>2, <2>5
    <3>3. GoUp(nodes, Stand(q, d)) = Stand(r, d) /\ Climbed(nodes, p, d, r, k + 1)
      BY ONLY Form(nodes), d \in Int, <1>4, <1>6, <2>5, <3>1, Climbs
    <3> QED BY <2>3, <3>2, <3>3
  <2> QED BY <2>4, <2>5
<1>7. Climbed(nodes, p, d, p, 0)
  <2>1. Len(p) \in Nat /\ Len(p) + 0 <= Depth(nodes)
    BY <1>4, <1>5, WordType
  <2> QED BY <2>1, LeafIsPast DEF Climbed
<1>8. \A k \in Nat : \E g : at[k] = Stand(g, d) /\ Climbed(nodes, p, d, g, k)
  <2> DEFINE S == {k \in Nat : \E g : at[k] = Stand(g, d) /\ Climbed(nodes, p, d, g, k)}
  <2>1. 0 \in S
    BY <1>3, <1>7
  <2>2. \A k \in Nat : k \in S => k + 1 \in S
    BY <1>6
  <2>3. \A k \in S : \E g : at[k] = Stand(g, d) /\ Climbed(nodes, p, d, g, k)
    OBVIOUS
  <2> HIDE DEF S
  <2>4. Nat \subseteq S
    BY ONLY <2>1, <2>2, NaturalInduction
  <2> QED BY <2>3, <2>4
<1>9. PICK q : at[Depth(nodes)] = Stand(q, d) /\ Climbed(nodes, p, d, q, Depth(nodes))
  BY <1>5, <1>8
<1>10. Past(nodes, p, q) /\ q \in DOMAIN nodes /\ q \in W
  BY <1>9 DEF Climbed, Past
<1>11. q = Root \/ Later(nodes, Stand(q, d)) # {}
  <2>1. ASSUME Len(q) + Depth(nodes) <= Depth(nodes) PROVE q = Root
    <3>1. Len(q) \in Nat
      BY <1>10, WordType
    <3>2. Len(q) = 0
      BY ONLY <1>5, <2>1, <3>1
    <3> QED BY <1>10, <3>2, WordType DEF Root
  <2> QED BY <1>9, <2>1 DEF Climbed
<1>12. UpAndOver(nodes, Stand(p, d))
         = IF q = Root THEN AtEnd(Stand(q, d))
           ELSE GoDown(nodes, GoUp(nodes, Stand(q, d)), Min(Later(nodes, Stand(q, d))))
  <2>1. Stand(q, d).node = q
    BY StandIs
  <2>2. PICK end : end = at[Depth(nodes)]
    OBVIOUS
  <2>3. UpAndOver(nodes, Stand(p, d))
          = IF end.node = Root THEN AtEnd(end) ELSE GoDown(nodes, GoUp(nodes, end), Min(Later(nodes, end)))
    BY ONLY <1>1, <1>2, <2>2 DEF UpAndOver
  <2> QED BY ONLY <1>9, <2>1, <2>2, <2>3
<1>13. CASE q = Root
  <2>1. \A v \in DOMAIN nodes : ~Before(p, v)
    <3>1. SUFFICES ASSUME NEW v \in DOMAIN nodes PROVE Begins(q, v)
      BY <1>10 DEF Past
    <3>2. Len(q) = 0
      BY <1>10, <1>13, WordType DEF Root
    <3>3. Len(v) \in Nat
      BY <1>4, WordType
    <3> QED BY ONLY <3>2, <3>3 DEF Begins
  <2>2. UpAndOver(nodes, Stand(p, d)) = Ended(q, d)
    BY ONLY <1>12, <1>13, EndedIs
  <2> QED BY <1>10, <2>1, <2>2 DEF SteppedTo
<1>14. CASE q # Root
  <2>1. PICK x : /\ GoDown(nodes, GoUp(nodes, Stand(q, d)), Min(Later(nodes, Stand(q, d)))) = Stand(x, d)
                 /\ Over(nodes, q, d, x)
    BY <1>10, <1>11, <1>14, LaterIs
  <2>2. UpAndOver(nodes, Stand(p, d)) = Stand(x, d)
    BY ONLY <1>12, <1>14, <2>1
  <2>3. Succ(nodes, p, x)
    <3>1. PICK r \in DOMAIN nodes : \E e, f \in Edges(nodes[r]) :
            /\ q = Join(r, e) /\ x = Join(r, f) /\ e[1] < f[1]
            /\ \A g \in Edges(nodes[r]) : e[1] < g[1] => ~(g[1] < f[1])
      BY <2>1 DEF Over
    <3>2. PICK e \in Edges(nodes[r]), f \in Edges(nodes[r]) :
            /\ q = Join(r, e) /\ x = Join(r, f) /\ e[1] < f[1]
            /\ \A g \in Edges(nodes[r]) : e[1] < g[1] => ~(g[1] < f[1])
      BY <3>1
    <3> QED BY ONLY Form(nodes), <1>4, <1>10, <3>2, OverIsSucc
  <2>4. x \in DOMAIN nodes
    BY <2>3 DEF Succ
  <2> QED BY <2>2, <2>3, <2>4 DEF SteppedTo
<1> QED BY <1>13, <1>14

-----------------------------------------------------------------------------
(***************************************************************************)
(* 5. From key to key.                                                     *)
(***************************************************************************)

(* NextNode goes to the node after, and down when there is a way.          *)
LEMMA NextNodeIs ==
  ASSUME NEW nodes, Form(nodes), NEW p \in DOMAIN nodes, NEW d \in Int
  PROVE  /\ SteppedTo(nodes, p, d, NextNode(nodes, Stand(p, d)))
         /\ nodes[p].chars # <<>> =>
              \E x : NextNode(nodes, Stand(p, d)) = Stand(x, d) /\ Succ(nodes, p, x) /\ Len(x) >= Len(p) + 1
<1>1. Stand(p, d).node = p
  BY StandIs
<1>2. NextNode(nodes, Stand(p, d))
        = IF nodes[p].chars # <<>> THEN GoDown(nodes, Stand(p, d), 1) ELSE UpAndOver(nodes, Stand(p, d))
  BY ONLY <1>1 DEF NextNode
<1>3. CASE nodes[p].chars # <<>>
  <2>1. PICK x : x = Join(p, Edge(nodes[p], 1))
    OBVIOUS
  <2>2. NextNode(nodes, Stand(p, d)) = Stand(x, d)
    BY ONLY <1>2, <1>3, <2>1, GoDownIs
  <2>3. Succ(nodes, p, x) /\ Len(x) >= Len(p) + 1
    BY <1>3, <2>1, FirstIsSucc
  <2>4. x \in DOMAIN nodes
    BY <2>3 DEF Succ
  <2> QED BY ONLY <2>2, <2>3, <2>4 DEF SteppedTo
<1>4. CASE nodes[p].chars = <<>>
  <2>1. SteppedTo(nodes, p, d, UpAndOver(nodes, Stand(p, d)))
    BY <1>4, UpAndOverIs
  <2> QED BY ONLY <1>2, <1>4, <2>1
<1> QED BY <1>3, <1>4

(* The first of the keys after p, and the last that is not after s.        *)
FirstKey(nodes, p, y) ==
  /\ y \in DOMAIN nodes /\ y \in W /\ nodes[y].iskey /\ Before(p, y)
  /\ \A v \in DOMAIN nodes : nodes[v].iskey /\ Before(p, v) => ~Before(v, y)

LastKey(nodes, s, y) ==
  /\ y \in DOMAIN nodes /\ y \in W /\ nodes[y].iskey /\ ~Before(s, y)
  /\ \A v \in DOMAIN nodes : nodes[v].iskey /\ ~Before(s, v) => ~Before(y, v)

(* In a tight tree a node that is no key has edges, so a way down ends at  *)
(* a key: no loop of the iterator runs out of turns.                       *)
LEMMA NoKeyHasEdges ==
  ASSUME NEW nodes, Form(nodes), \A x \in DOMAIN nodes : Tight(nodes, x),
         NEW y \in DOMAIN nodes, ~nodes[y].iskey, y # Root
  PROVE  nodes[y].chars # <<>>
BY FormType, EdgeType DEF Tight

(* Nothing comes before the root.                                          *)
LEMMA BeforeRoot ==
  ASSUME NEW v \in W
  PROVE  ~Before(v, Root)
BY DEF Before, Root, W

(* The loop from p on is at the node y after k turns.                      *)
Advanced(nodes, p, y, k) ==
  /\ y \in DOMAIN nodes /\ Before(p, y)
  /\ \A v \in DOMAIN nodes : nodes[v].iskey /\ Before(p, v) => ~Before(v, y)
  /\ nodes[y].iskey \/ Len(y) >= k

(* One turn further on.                                                    *)
LEMMA Advances ==
  ASSUME NEW nodes, Form(nodes), \A x \in DOMAIN nodes : Tight(nodes, x), NEW p \in W, NEW d \in Int,
         NEW y, NEW k \in Nat, Advanced(nodes, p, y, k), ~nodes[y].iskey
  PROVE  \E x : NextNode(nodes, Stand(y, d)) = Stand(x, d) /\ Advanced(nodes, p, x, k + 1) /\ Len(x) >= k + 1
<1>1. /\ y \in DOMAIN nodes /\ Before(p, y) /\ Len(y) >= k
      /\ \A v \in DOMAIN nodes : nodes[v].iskey /\ Before(p, v) => ~Before(v, y)
  BY DEF Advanced
<1>2. y \in W /\ \A v \in DOMAIN nodes : v \in W
  BY <1>1, FormType
<1>3. y # Root
  BY <1>1, BeforeRoot
<1>4. nodes[y].chars # <<>>
  BY <1>1, <1>3, NoKeyHasEdges
<1>5. PICK x : NextNode(nodes, Stand(y, d)) = Stand(x, d) /\ Succ(nodes, y, x) /\ Len(x) >= Len(y) + 1
  BY <1>1, <1>4, NextNodeIs
<1>6. x \in DOMAIN nodes /\ Before(y, x) /\ \A v \in DOMAIN nodes : Before(y, v) => ~Before(v, x)
  BY <1>5 DEF Succ
<1>7. Before(p, x)
  BY <1>1, <1>2, <1>6, BeforeTwice
<1>8. ASSUME NEW v \in DOMAIN nodes, nodes[v].iskey, Before(p, v) PROVE ~Before(v, x)
  <2>1. ~Before(v, y)
    BY <1>1, <1>8
  <2>2. v # y
    BY <1>8
  <2>3. Before(y, v)
    BY <1>2, <2>1, <2>2, OneIsBefore
  <2> QED BY <1>6, <2>3
<1>9. Len(x) >= k + 1
  <2>1. Len(x) \in Nat /\ Len(y) \in Nat
    BY <1>2, <1>6, WordType
  <2> QED BY ONLY <1>1, <1>5, <2>1, k \in Nat
<1> QED BY <1>5, <1>6, <1>7, <1>8, <1>9 DEF Advanced

(* One step of the iterator.                                               *)
NextKey(nodes, p, d, it) ==
  \/ \E y : it = Stand(y, nodes[y].data) /\ FirstKey(nodes, p, y)
  \/ it = Ended(p, d) /\ \A v \in DOMAIN nodes : ~Before(p, v)

(* raxIteratorNextStep goes to the key after, or comes to the end and      *)
(* stays on its key.                                                       *)
LEMMA NextStepIs ==
  ASSUME NEW nodes, Form(nodes), \A x \in DOMAIN nodes : Tight(nodes, x), NEW p \in DOMAIN nodes, NEW d \in Int
  PROVE  NextKey(nodes, p, d, raxIteratorNextStep(nodes, Stand(p, d)))
<1>1. PICK F : F = [x \in Iterators(nodes) |-> IF x.eof \/ nodes[x.node].iskey THEN x ELSE NextNode(nodes, x)]
  OBVIOUS
<1>2. PICK at : at = Iterate(F, NextNode(nodes, Stand(p, d)))
  OBVIOUS
<1>3. at[0] = NextNode(nodes, Stand(p, d)) /\ \A k \in Nat : at[k + 1] = F[at[k]]
  BY <1>2, IterateDef
<1>4. p \in W /\ \A q \in DOMAIN nodes : q \in W
  BY FormType
<1>5. Depth(nodes) \in Nat /\ \A q \in DOMAIN nodes : Len(q) <= Depth(nodes)
  BY DepthIs
<1>6. PICK end : end = at[Depth(nodes)]
  OBVIOUS
<1>7. raxIteratorNextStep(nodes, Stand(p, d)) = IF end.eof THEN AtEnd(Stand(p, d)) ELSE AtKey(nodes, end)
  BY ONLY <1>1, <1>2, <1>6 DEF raxIteratorNextStep
<1>8. SteppedTo(nodes, p, d, at[0])
  BY <1>3, NextNodeIs
<1>9. ASSUME NEW x \in DOMAIN nodes, at[0] = Ended(x, d), \A v \in DOMAIN nodes : ~Before(p, v)
      PROVE  NextKey(nodes, p, d, raxIteratorNextStep(nodes, Stand(p, d)))
  <2>1. Ended(x, d) \in Iterators(nodes) /\ Ended(x, d).eof = TRUE
    BY <1>4, EndedType
  <2>2. F[Ended(x, d)] = Ended(x, d)
    BY ONLY <1>1, <2>1
  <2>3. \A k \in Nat : at[k] = Ended(x, d)
    <3> DEFINE S == {k \in Nat : at[k] = Ended(x, d)}
    <3>1. 0 \in S
      BY <1>9
    <3>2. \A k \in Nat : k \in S => k + 1 \in S
      BY <1>3, <2>2
    <3>3. \A k \in S : at[k] = Ended(x, d)
      OBVIOUS
    <3> HIDE DEF S
    <3>4. Nat \subseteq S
      BY ONLY <3>1, <3>2, NaturalInduction
    <3> QED BY <3>3, <3>4
  <2>4. end = Ended(x, d)
    BY ONLY <1>5, <1>6, <2>3
  <2>5. raxIteratorNextStep(nodes, Stand(p, d)) = AtEnd(Stand(p, d))
    BY ONLY <1>7, <2>1, <2>4
  <2>6. raxIteratorNextStep(nodes, Stand(p, d)) = Ended(p, d)
    BY ONLY <2>5, EndedIs
  <2> QED BY ONLY <1>9, <2>6 DEF NextKey
<1>10. ASSUME NEW x0 \in DOMAIN nodes, at[0] = Stand(x0, d), Succ(nodes, p, x0)
       PROVE  NextKey(nodes, p, d, raxIteratorNextStep(nodes, Stand(p, d)))
  <2>1. Advanced(nodes, p, x0, 0)
    <3>1. Len(x0) \in Nat
      BY <1>4, WordType
    <3>2. Len(x0) >= 0
      BY ONLY <3>1
    <3> QED BY <1>10, <3>2 DEF Succ, Advanced
  <2>2. ASSUME NEW k \in Nat, NEW y, at[k] = Stand(y, d), Advanced(nodes, p, y, k)
        PROVE  \E x : at[k + 1] = Stand(x, d) /\ Advanced(nodes, p, x, k + 1)
    <3>1. y \in DOMAIN nodes
      BY <2>2 DEF Advanced
    <3>2. Stand(y, d) \in Iterators(nodes) /\ Stand(y, d).node = y /\ Stand(y, d).eof = FALSE
      BY <1>4, <3>1, StandType, StandIs, StandGoes
    <3>3. at[k + 1] = F[Stand(y, d)]
      BY <1>3, <2>2
    <3>4. CASE nodes[y].iskey
      <4>1. at[k + 1] = Stand(y, d)
        BY ONLY <1>1, <3>2, <3>3, <3>4
      <4>2. Advanced(nodes, p, y, k + 1)
        BY ONLY <2>2, <3>4 DEF Advanced
      <4> QED BY <4>1, <4>2
    <3>5. CASE ~nodes[y].iskey
      <4>1. at[k + 1] = NextNode(nodes, Stand(y, d))
        BY ONLY <1>1, <3>2, <3>3, <3>5
      <4>2. \E x : NextNode(nodes, Stand(y, d)) = Stand(x, d) /\ Advanced(nodes, p, x, k + 1)
        BY <1>4, <2>2, <3>5, Advances
      <4> QED BY <4>1, <4>2
    <3> QED BY <3>4, <3>5
  <2>3. \A k \in Nat : \E y : at[k] = Stand(y, d) /\ Advanced(nodes, p, y, k)
    <3> DEFINE S == {k \in Nat : \E y : at[k] = Stand(y, d) /\ Advanced(nodes, p, y, k)}
    <3>1. 0 \in S
      BY <1>10, <2>1
    <3>2. \A k \in Nat : k \in S => k + 1 \in S
      BY <2>2
    <3>3. \A k \in S : \E y : at[k] = Stand(y, d) /\ Advanced(nodes, p, y, k)
      OBVIOUS
    <3> HIDE DEF S
    <3>4. Nat \subseteq S
      BY ONLY <3>1, <3>2, NaturalInduction
    <3> QED BY <3>3, <3>4
  <2>4. PICK y : end = Stand(y, d) /\ Advanced(nodes, p, y, Depth(nodes))
    BY <1>5, <1>6, <2>3
  <2>5. /\ y \in DOMAIN nodes /\ Before(p, y)
        /\ \A v \in DOMAIN nodes : nodes[v].iskey /\ Before(p, v) => ~Before(v, y)
    BY <2>4 DEF Advanced
  <2>6. nodes[y].iskey
    <3>1. SUFFICES ASSUME ~nodes[y].iskey PROVE FALSE
      OBVIOUS
    <3>2. PICK x : Advanced(nodes, p, x, Depth(nodes) + 1) /\ Len(x) >= Depth(nodes) + 1
      BY <1>4, <1>5, <2>4, <3>1, Advances
    <3>3. x \in DOMAIN nodes
      BY <3>2 DEF Advanced
    <3>4. Len(x) \in Nat /\ Len(x) <= Depth(nodes)
      BY <1>4, <1>5, <3>3, WordType
    <3> QED BY ONLY <1>5, <3>2, <3>4
  <2>7. FirstKey(nodes, p, y)
    BY <1>4, <2>5, <2>6 DEF FirstKey
  <2>8. Stand(y, d).eof = FALSE
    BY StandGoes
  <2>9. raxIteratorNextStep(nodes, Stand(p, d)) = AtKey(nodes, Stand(y, d))
    BY ONLY <1>7, <2>4, <2>8
  <2>10. AtKey(nodes, Stand(y, d)) = Stand(y, nodes[y].data)
    <3>1. PICK it : it = Stand(y, d)
      OBVIOUS
    <3>2. it = Place(y, y, d) /\ it.node = y
      BY <3>1, StandIs DEF Stand
    <3>3. AtKey(nodes, it) = [it EXCEPT !.data = nodes[y].data]
      BY ONLY <3>2 DEF AtKey
    <3>4. PICK b : b = nodes[y].data
      OBVIOUS
    <3>5. [it EXCEPT !.data = b] = Place(y, y, b)
      BY ONLY <3>2, DataMoved
    <3> QED BY ONLY <3>1, <3>3, <3>4, <3>5 DEF Stand
  <2> QED BY ONLY <2>7, <2>9, <2>10 DEF NextKey
<1> QED BY <1>8, <1>9, <1>10 DEF SteppedTo

(* An iterator that reads its data.                                        *)
LEMMA AtKeyIs ==
  ASSUME NEW nodes, NEW q, NEW d
  PROVE  AtKey(nodes, Stand(q, d)) = Stand(q, nodes[q].data)
<1>1. PICK it : it = Stand(q, d)
  OBVIOUS
<1>2. it = Place(q, q, d) /\ it.node = q
  BY <1>1, StandIs DEF Stand
<1>3. AtKey(nodes, it) = [it EXCEPT !.data = nodes[q].data]
  BY ONLY <1>2 DEF AtKey
<1>4. PICK b : b = nodes[q].data
  OBVIOUS
<1>5. [it EXCEPT !.data = b] = Place(q, q, b)
  BY ONLY <1>2, DataMoved
<1> QED BY ONLY <1>1, <1>3, <1>4, <1>5 DEF Stand

(* The loop back from s is at the node y after k turns.                    *)
Retreated(nodes, s, y, k) ==
  /\ y \in DOMAIN nodes /\ ~Before(s, y)
  /\ \A v \in DOMAIN nodes : nodes[v].iskey /\ ~Before(s, v) => ~Before(y, v)
  /\ nodes[y].iskey \/ y = Root \/ Len(y) + k <= Depth(nodes)

(* One turn further back.                                                  *)
LEMMA Retreats ==
  ASSUME NEW nodes, Form(nodes), \A x \in DOMAIN nodes : Tight(nodes, x), NEW s \in W,
         NEW y, NEW k \in Nat, Retreated(nodes, s, y, k), ~nodes[y].iskey, y # Root, NEW z, Pred(nodes, y, z)
  PROVE  Retreated(nodes, s, z, k + 1)
<1>1. /\ y \in DOMAIN nodes /\ ~Before(s, y) /\ Len(y) + k <= Depth(nodes)
      /\ \A v \in DOMAIN nodes : nodes[v].iskey /\ ~Before(s, v) => ~Before(y, v)
  BY DEF Retreated
<1>2. /\ z \in DOMAIN nodes /\ Before(z, y) /\ (nodes[z].chars = <<>> \/ Len(z) < Len(y))
      /\ \A v \in DOMAIN nodes : Before(v, y) => ~Before(z, v)
  BY DEF Pred
<1>3. y \in W /\ z \in W /\ \A v \in DOMAIN nodes : v \in W
  BY <1>1, <1>2, FormType
<1>4. ~Before(s, z)
  BY <1>1, <1>2, <1>3, BeforeTwice
<1>5. ASSUME NEW v \in DOMAIN nodes, nodes[v].iskey, ~Before(s, v) PROVE ~Before(z, v)
  <2>1. ~Before(y, v) /\ v # y
    BY <1>1, <1>5
  <2>2. Before(v, y)
    BY <1>3, <2>1, OneIsBefore
  <2> QED BY <1>2, <2>2
<1>6. nodes[z].iskey \/ z = Root \/ Len(z) + (k + 1) <= Depth(nodes)
  <2>1. CASE nodes[z].chars = <<>>
    BY <1>2, <2>1, NoKeyHasEdges
  <2>2. CASE Len(z) < Len(y)
    <3>1. Len(z) \in Nat /\ Len(y) \in Nat /\ Depth(nodes) \in Nat
      BY <1>3, WordType, DepthIs
    <3> QED BY ONLY <1>1, <2>2, <3>1, k \in Nat
  <2> QED BY <1>2, <2>1, <2>2
<1> QED BY <1>2, <1>4, <1>5, <1>6 DEF Retreated

(* Where the loop of the step back ends.                                   *)
PrevEnd(nodes, first) ==
  LET turn == [x \in Iterators(nodes) |->
                 IF nodes[x.node].iskey \/ x.node = Root THEN x
                 ELSE BackFrom(nodes, GoUp(nodes, x), Last(x.key))]
  IN  Iterate(turn, first)[Depth(nodes)]

(* It ends at the last key that is not after s, or at the root when there  *)
(* is none.                                                                *)
LEMMA PrevEndIs ==
  ASSUME NEW nodes, Form(nodes), \A x \in DOMAIN nodes : Tight(nodes, x), NEW s \in W, NEW d \in Int,
         NEW y0, Retreated(nodes, s, y0, 0)
  PROVE  \E y \in DOMAIN nodes :
           /\ PrevEnd(nodes, Stand(y0, d)) = Stand(y, d)
           /\ nodes[y].iskey => LastKey(nodes, s, y)
           /\ ~nodes[y].iskey => \A v \in DOMAIN nodes : nodes[v].iskey => Before(s, v)
<1>1. PICK F : F = [x \in Iterators(nodes) |->
                      IF nodes[x.node].iskey \/ x.node = Root THEN x
                      ELSE BackFrom(nodes, GoUp(nodes, x), Last(x.key))]
  OBVIOUS
<1>2. PICK at : at = Iterate(F, Stand(y0, d))
  OBVIOUS
<1>3. at[0] = Stand(y0, d) /\ \A k \in Nat : at[k + 1] = F[at[k]]
  BY <1>2, IterateDef
<1>4. \A q \in DOMAIN nodes : q \in W
  BY FormType
<1>5. Depth(nodes) \in Nat /\ \A q \in DOMAIN nodes : Len(q) <= Depth(nodes)
  BY DepthIs
<1>6. PrevEnd(nodes, Stand(y0, d)) = at[Depth(nodes)]
  BY ONLY <1>1, <1>2 DEF PrevEnd
<1>7. ASSUME NEW k \in Nat, NEW y, at[k] = Stand(y, d), Retreated(nodes, s, y, k)
      PROVE  \E x : at[k + 1] = Stand(x, d) /\ Retreated(nodes, s, x, k + 1)
  <2>1. y \in DOMAIN nodes
    BY <1>7 DEF Retreated
  <2>2. Stand(y, d) \in Iterators(nodes) /\ Stand(y, d).node = y /\ Stand(y, d).key = y
    BY <1>4, <2>1, StandType, StandIs
  <2>3. at[k + 1] = F[Stand(y, d)]
    BY <1>3, <1>7
  <2>4. CASE nodes[y].iskey \/ y = Root
    <3>1. at[k + 1] = Stand(y, d)
      BY ONLY <1>1, <2>2, <2>3, <2>4
    <3>2. Retreated(nodes, s, y, k + 1)
      BY ONLY <1>7, <2>4 DEF Retreated
    <3> QED BY <3>1, <3>2
  <2>5. CASE ~nodes[y].iskey /\ y # Root
    <3>1. at[k + 1] = BackFrom(nodes, GoUp(nodes, Stand(y, d)), Last(y))
      BY ONLY <1>1, <2>2, <2>3, <2>5
    <3>2. PICK z : BackFrom(nodes, GoUp(nodes, Stand(y, d)), Last(y)) = Stand(z, d) /\ Pred(nodes, y, z)
      BY <2>1, <2>5, PredIs
    <3>3. Retreated(nodes, s, z, k + 1)
      BY <1>7, <2>5, <3>2, Retreats
    <3> QED BY <3>1, <3>2, <3>3
  <2> QED BY <2>4, <2>5
<1>8. \A k \in Nat : \E y : at[k] = Stand(y, d) /\ Retreated(nodes, s, y, k)
  <2> DEFINE S == {k \in Nat : \E y : at[k] = Stand(y, d) /\ Retreated(nodes, s, y, k)}
  <2>1. 0 \in S
    BY <1>3
  <2>2. \A k \in Nat : k \in S => k + 1 \in S
    BY <1>7
  <2>3. \A k \in S : \E y : at[k] = Stand(y, d) /\ Retreated(nodes, s, y, k)
    OBVIOUS
  <2> HIDE DEF S
  <2>4. Nat \subseteq S
    BY ONLY <2>1, <2>2, NaturalInduction
  <2> QED BY <2>3, <2>4
<1>9. PICK y : at[Depth(nodes)] = Stand(y, d) /\ Retreated(nodes, s, y, Depth(nodes))
  BY <1>5, <1>8
<1>10. /\ y \in DOMAIN nodes /\ ~Before(s, y) /\ y \in W
       /\ \A v \in DOMAIN nodes : nodes[v].iskey /\ ~Before(s, v) => ~Before(y, v)
  BY <1>4, <1>9 DEF Retreated
<1>11. nodes[y].iskey => LastKey(nodes, s, y)
  BY <1>10 DEF LastKey
<1>12. ASSUME ~nodes[y].iskey PROVE \A v \in DOMAIN nodes : nodes[v].iskey => Before(s, v)
  <2>1. y = Root
    <3>1. ASSUME Len(y) + Depth(nodes) <= Depth(nodes) PROVE y = Root
      <4>1. Len(y) \in Nat
        BY <1>10, WordType
      <4>2. Len(y) = 0
        BY ONLY <1>5, <3>1, <4>1
      <4> QED BY <1>10, <4>2, WordType DEF Root
    <3> QED BY <1>9, <1>12, <3>1 DEF Retreated
  <2>2. ASSUME NEW v \in DOMAIN nodes, nodes[v].iskey PROVE Before(s, v)
    <3>1. v # y /\ ~Before(v, y) /\ v \in W
      BY <1>4, <1>12, <2>1, <2>2, BeforeRoot
    <3>2. Before(y, v)
      BY <1>10, <3>1, OneIsBefore
    <3> QED BY <1>10, <2>2, <3>2
  <2> QED BY <2>2
<1> QED BY <1>6, <1>9, <1>10, <1>11, <1>12

(* What a seek finds: the last key that is not after s, if there is one.   *)
Sought(nodes, s, it) ==
  \/ \E y, d : it = Stand(y, d) /\ LastKey(nodes, s, y) /\ d \in {NoData, nodes[y].data}
  \/ /\ \E k, h : it = AtEnd(Place(k, h, NoData))
     /\ \A v \in DOMAIN nodes : nodes[v].iskey => Before(s, v)

(* raxIteratorPrevStep finds what was sought, with noup or without.        *)
LEMMA PrevStepIs ==
  ASSUME NEW nodes, Form(nodes), \A x \in DOMAIN nodes : Tight(nodes, x), NEW s \in W,
         NEW y, Retreated(nodes, s, y, 0), NEW k, NEW h
  PROVE  /\ Sought(nodes, s, raxIteratorPrevStep(nodes, Stand(y, NoData), FALSE))
         /\ BackFrom(nodes, CutKey(nodes, Place(k, h, NoData)), Last(k)) = Stand(y, NoData) =>
              Sought(nodes, s, raxIteratorPrevStep(nodes, Place(k, h, NoData), TRUE))
<1>1. NoData \in Int
  BY DEF NoData
<1>2. PICK end : end = PrevEnd(nodes, Stand(y, NoData))
  OBVIOUS
<1>3. PICK x \in DOMAIN nodes :
        /\ end = Stand(x, NoData)
        /\ nodes[x].iskey => LastKey(nodes, s, x)
        /\ ~nodes[x].iskey => \A v \in DOMAIN nodes : nodes[v].iskey => Before(s, v)
  BY <1>1, <1>2, PrevEndIs
<1>4. end.node = x
  BY <1>3, StandIs
<1>6. ASSUME NEW it, NEW to, to = IF nodes[end.node].iskey THEN AtKey(nodes, end) ELSE AtEnd(it),
             NEW a, NEW b, it = Place(a, b, NoData)
      PROVE  Sought(nodes, s, to)
  <2>1. CASE nodes[x].iskey
    <3>1. to = AtKey(nodes, Stand(x, NoData))
      BY ONLY <1>3, <1>4, <1>6, <2>1
    <3>2. to = Stand(x, nodes[x].data)
      BY ONLY <3>1, AtKeyIs
    <3> QED BY ONLY <1>3, <2>1, <3>2 DEF Sought
  <2>2. CASE ~nodes[x].iskey
    <3>1. to = AtEnd(Place(a, b, NoData))
      BY ONLY <1>4, <1>6, <2>2
    <3> QED BY ONLY <1>3, <2>2, <3>1 DEF Sought
  <2> QED BY <2>1, <2>2
<1>7. Sought(nodes, s, raxIteratorPrevStep(nodes, Stand(y, NoData), FALSE))
  <2>1. PICK it : it = Stand(y, NoData)
    OBVIOUS
  <2>2. raxIteratorPrevStep(nodes, it, FALSE) = IF nodes[end.node].iskey THEN AtKey(nodes, end) ELSE AtEnd(it)
    BY ONLY <1>2, <2>1 DEF raxIteratorPrevStep, PrevEnd
  <2>3. it = Place(y, y, NoData)
    BY ONLY <2>1 DEF Stand
  <2> QED BY ONLY <1>6, <2>1, <2>2, <2>3
<1>8. ASSUME BackFrom(nodes, CutKey(nodes, Place(k, h, NoData)), Last(k)) = Stand(y, NoData)
      PROVE  Sought(nodes, s, raxIteratorPrevStep(nodes, Place(k, h, NoData), TRUE))
  <2>1. PICK it : it = Place(k, h, NoData)
    OBVIOUS
  <2>2. it.key = k
    BY ONLY <2>1, PlaceIs
  <2>3. BackFrom(nodes, CutKey(nodes, it), Last(it.key)) = Stand(y, NoData)
    BY ONLY <1>8, <2>1, <2>2
  <2>4. raxIteratorPrevStep(nodes, it, TRUE) = IF nodes[end.node].iskey THEN AtKey(nodes, end) ELSE AtEnd(it)
    BY ONLY <1>2, <2>3 DEF raxIteratorPrevStep, PrevEnd
  <2> QED BY ONLY <1>6, <2>1, <2>4
<1> QED BY <1>7, <1>8

-----------------------------------------------------------------------------
(***************************************************************************)
(* 6. The seek.                                                            *)
(***************************************************************************)

(* A node is above the one where a walk to s stopped, before it, after s,  *)
(* or under one of its edges.                                              *)
LEMMA Around ==
  ASSUME NEW nodes, Form(nodes), NEW h \in DOMAIN nodes, NEW s \in W, Begins(h, s), NEW v \in DOMAIN nodes
  PROVE  \/ Begins(v, h) \/ Apart(v, h) \/ Before(s, v)
         \/ \E f \in Edges(nodes[h]) : Begins(Join(h, f), v)
<1>1. h \in W /\ v \in W
  BY FormType
<1>2. CASE h = v
  BY <1>1, <1>2, BeginsOrder
<1>3. CASE Before(v, h)
  BY <1>1, <1>3, BeforeIs DEF Below
<1>4. CASE Before(h, v)
  <2>1. Below(h, v) \/ Apart(h, v)
    BY <1>1, <1>4, BeforeIs
  <2>2. CASE Below(h, v)
    BY <2>2, FormType
  <2>3. CASE Apart(h, v)
    <3>1. Apart(s, v)
      BY <1>1, <2>3, ApartBelow
    <3> QED BY <1>1, <3>1, NotBefore
  <2> QED BY <2>1, <2>2, <2>3
<1> QED BY <1>1, <1>2, <1>3, <1>4, OneIsBefore

(* What is under the edge inside which a walk to s stopped.                *)
LEMMA InEdge ==
  ASSUME NEW nodes, Form(nodes), NEW h \in DOMAIN nodes, nodes[h].iscompr, NEW s \in W, NEW i, NEW j,
         WalkStops(nodes, s, h, i, j), i = Len(h) + j, NEW f \in Edges(nodes[h]),
         NEW v \in DOMAIN nodes, Begins(Join(h, f), v)
  PROVE  /\ i + 1 <= Len(v) /\ v[i + 1] = nodes[h].chars[j + 1]
         /\ \A l \in 1..i : s[l] = v[l]
<1>1. PICK c : c = nodes[h].chars
  OBVIOUS
<1>2. /\ h \in W /\ v \in W /\ c \in W /\ Len(h) \in Nat /\ Len(c) \in Nat /\ Len(v) \in Nat /\ Len(s) \in Nat
      /\ IsNode(nodes[h]) /\ Ordered(nodes[h])
  BY <1>1, FormType, WordType
<1>3. f = c
  BY <1>1, <1>2, EdgeType
<1>4. i \in 0..Len(s) /\ j \in Nat /\ j < Len(c) /\ Join(h, Upto(c, j)) = Upto(s, i)
  BY <1>1 DEF WalkStops
<1>5. PICK x : x = Join(h, c)
  OBVIOUS
<1>6. /\ Len(x) = Len(h) + Len(c) /\ x \in W /\ Len(x) \in Nat
      /\ (\A l \in 1..Len(h) : x[l] = h[l]) /\ \A l \in 1..Len(c) : x[Len(h) + l] = c[l]
  <2>1. h \in W /\ c \in W
    BY <1>2
  <2>2. /\ Join(h, c) \in W /\ Len(Join(h, c)) = Len(h) + Len(c)
        /\ \A l \in 1..Len(h) : Join(h, c)[l] = h[l]
        /\ \A l \in 1..Len(c) : Join(h, c)[Len(h) + l] = c[l]
    BY ONLY <2>1, JoinType
  <2>3. Len(Join(h, c)) \in Nat
    BY ONLY <2>2, WordType
  <2> QED BY ONLY <1>5, <2>2, <2>3
<1>7. Begins(x, v)
  BY <1>3, <1>5
<1>8. Len(x) <= Len(v) /\ \A l \in 1..Len(x) : x[l] = v[l]
  BY <1>7 DEF Begins
<1>9. i + 1 <= Len(x) /\ i + 1 \in 1..Len(x) /\ j + 1 \in 1..Len(c) /\ i + 1 = Len(h) + (j + 1)
  BY ONLY <1>2, <1>4, <1>6, i = Len(h) + j
<1>10. i + 1 <= Len(v) /\ v[i + 1] = c[j + 1]
  BY ONLY <1>2, <1>4, <1>6, <1>8, <1>9
<1>11. ASSUME NEW l \in 1..i PROVE s[l] = x[l]
  <2>1. PICK u : u = Upto(c, j)
    OBVIOUS
  <2>2. j \in 0..Len(c)
    BY ONLY <1>2, <1>4
  <2>3. u \in W /\ Len(u) = j /\ \A k \in 1..j : u[k] = c[k]
    BY <1>2, <2>1, <2>2, UptoType
  <2>4. PICK y : y = Join(h, u)
    OBVIOUS
  <2>5. (\A k \in 1..Len(h) : y[k] = h[k]) /\ \A k \in 1..Len(u) : y[Len(h) + k] = u[k]
    <3>1. h \in W /\ u \in W
      BY <1>2, <2>3
    <3>2. /\ \A k \in 1..Len(h) : Join(h, u)[k] = h[k]
          /\ \A k \in 1..Len(u) : Join(h, u)[Len(h) + k] = u[k]
      BY ONLY <3>1, JoinType
    <3> QED BY ONLY <2>4, <3>2
  <2>6. y = Upto(s, i)
    BY ONLY <1>4, <2>1, <2>4
  <2>7. y[l] = s[l]
    BY <1>4, <2>6, UptoType
  <2>8. CASE l \in 1..Len(h)
    BY ONLY <1>6, <2>5, <2>7, <2>8
  <2>9. CASE l \notin 1..Len(h)
    <3>1. PICK k \in 1..j : k = l - Len(h)
      BY ONLY <1>2, <1>4, <2>9, i = Len(h) + j, l \in 1..i
    <3>2. l = Len(h) + k /\ k \in 1..Len(u) /\ k \in 1..Len(c)
      BY ONLY <1>2, <1>4, <2>3, <3>1, l \in 1..i
    <3>3. u[k] = c[k]
      BY ONLY <2>3, <3>1
    <3>4. y[Len(h) + k] = u[k] /\ x[Len(h) + k] = c[k]
      BY ONLY <1>6, <2>5, <3>2
    <3> QED BY ONLY <2>7, <3>2, <3>3, <3>4
  <2> QED BY <2>8, <2>9
<1>12. \A l \in 1..i : s[l] = v[l]
  <2>1. SUFFICES ASSUME NEW l \in 1..i PROVE s[l] = v[l]
    OBVIOUS
  <2>2. l \in 1..Len(x)
    BY ONLY <1>4, <1>6, <1>9, l \in 1..i
  <2> QED BY ONLY <1>8, <1>11, <2>2, l \in 1..i
<1> QED BY <1>1, <1>10, <1>12

(* When all that is below the stop comes after s, the last key is not.     *)
LEMMA AtWalkStop ==
  ASSUME NEW nodes, Form(nodes), NEW h \in DOMAIN nodes, NEW s \in W, Begins(h, s),
         \A f \in Edges(nodes[h]), v \in DOMAIN nodes : Begins(Join(h, f), v) => Before(s, v)
  PROVE  Retreated(nodes, s, h, 0)
<1>1. h \in W /\ \A v \in DOMAIN nodes : v \in W
  BY FormType
<1>2. ~Before(s, h)
  BY <1>1, NotBefore
<1>3. ASSUME NEW v \in DOMAIN nodes, ~Before(s, v) PROVE ~Before(h, v)
  <2>1. Begins(v, h) \/ Apart(v, h)
    BY <1>3, Around
  <2> QED BY <1>1, <2>1, NotBefore
<1>4. Len(h) + 0 <= Depth(nodes)
  <2>1. Len(h) \in Nat /\ Depth(nodes) \in Nat /\ Len(h) <= Depth(nodes)
    BY <1>1, WordType, DepthIs
  <2> QED BY ONLY <2>1
<1> QED BY <1>2, <1>3, <1>4 DEF Retreated

(* The walk ends with s: at h, or inside its edge.                         *)
LEMMA StopsWithWord ==
  ASSUME NEW nodes, Form(nodes), NEW s \in W, NEW w, Walked(nodes, s, w), w.i = Len(s)
  PROVE  Retreated(nodes, s, w.h, 0)
<1>1. PICK h : h = w.h
  OBVIOUS
<1>2. PICK j : j = w.j
  OBVIOUS
<1>3. /\ h \in DOMAIN nodes /\ Begins(h, s) /\ Len(s) = Len(h) + j
      /\ WalkStops(nodes, s, h, Len(s), j)
      /\ \A q \in DOMAIN nodes : Begins(q, s) => Len(q) <= Len(h)
  BY <1>1, <1>2 DEF Walked
<1>4. h \in W /\ Len(h) \in Nat /\ Len(s) \in Nat
  BY <1>3, FormType, WordType
<1>5. ASSUME NEW f \in Edges(nodes[h]), NEW v \in DOMAIN nodes, Begins(Join(h, f), v) PROVE Before(s, v)
  <2>1. v \in W /\ Len(v) \in Nat
    BY FormType, WordType
  <2>2. CASE nodes[h].iscompr
    <3>1. Len(s) + 1 <= Len(v) /\ \A l \in 1..Len(s) : s[l] = v[l]
      BY <1>3, <1>5, <2>2, InEdge
    <3>2. Len(s) < Len(v) /\ Len(s) <= Len(v)
      BY ONLY <1>4, <2>1, <3>1
    <3>3. Below(s, v)
      BY ONLY <3>1, <3>2 DEF Below, Begins
    <3> QED BY <2>1, <3>3, NotBefore
  <2>3. CASE ~nodes[h].iscompr
    <3>1. h = s
      <4>1. h = Upto(s, Len(s))
        BY <1>3, <2>3 DEF WalkStops
      <4>2. j = 0
        BY <1>3, <2>3 DEF WalkStops
      <4>3. Len(s) = Len(h)
        BY ONLY <1>3, <1>4, <4>2
      <4>4. Len(s) <= Len(h)
        BY ONLY <1>4, <4>3
      <4> QED BY <1>3, <1>4, <4>4, BeginsOrder
    <3>2. Below(h, Join(h, f)) /\ Join(h, f) \in W
      BY <1>3, EdgeWord
    <3>3. Begins(h, v) /\ Len(h) < Len(v)
      <4>1. Begins(h, Join(h, f)) /\ Len(h) < Len(Join(h, f)) /\ Len(Join(h, f)) \in Nat
        BY <3>2, WordType DEF Below
      <4>2. Begins(h, v) /\ Len(Join(h, f)) <= Len(v)
        BY <1>4, <1>5, <2>1, <3>2, <4>1, BeginsOrder
      <4> QED BY ONLY <1>4, <2>1, <4>1, <4>2
    <3>4. Below(s, v)
      BY <3>1, <3>3 DEF Below
    <3> QED BY <2>1, <3>4, NotBefore
  <2> QED BY <2>2, <2>3
<1>6. Retreated(nodes, s, h, 0)
  BY ONLY Form(nodes), s \in W, <1>3, <1>5, AtWalkStop
<1> QED BY <1>1, <1>6

(* The walk stops inside an edge, at a greater character or a smaller one. *)
LEMMA StopsBefore ==
  ASSUME NEW nodes, Form(nodes), NEW s \in W, NEW w, Walked(nodes, s, w), w.i # Len(s), nodes[w.h].iscompr,
         nodes[w.h].chars[w.j + 1] >= s[w.i + 1]
  PROVE  Retreated(nodes, s, w.h, 0)
<1>1. PICK h : h = w.h
  OBVIOUS
<1>2. PICK j : j = w.j
  OBVIOUS
<1>3. PICK i : i = w.i
  OBVIOUS
<1>4. /\ h \in DOMAIN nodes /\ Begins(h, s) /\ i = Len(h) + j /\ WalkStops(nodes, s, h, i, j)
      /\ nodes[h].iscompr /\ i # Len(s) /\ nodes[h].chars[j + 1] >= s[i + 1]
  BY <1>1, <1>2, <1>3 DEF Walked
<1>5. /\ i \in 0..Len(s) /\ j \in Nat /\ j < Len(nodes[h].chars)
      /\ i < Len(s) => s[i + 1] # nodes[h].chars[j + 1]
  BY <1>4 DEF WalkStops
<1>6. Len(s) \in Nat /\ nodes[h].chars \in W /\ Len(nodes[h].chars) \in Nat
  BY <1>4, FormType, WordType
<1>7. i \in Nat /\ i < Len(s) /\ i + 1 \in 1..Len(s) /\ j + 1 \in 1..Len(nodes[h].chars)
  BY ONLY <1>4, <1>5, <1>6
<1>8. s[i + 1] \in Nat /\ nodes[h].chars[j + 1] \in Nat
  BY <1>6, <1>7, WordType
<1>9. s[i + 1] < nodes[h].chars[j + 1]
  BY ONLY <1>4, <1>5, <1>7, <1>8
<1>10. ASSUME NEW f \in Edges(nodes[h]), NEW v \in DOMAIN nodes, Begins(Join(h, f), v) PROVE Before(s, v)
  <2>1. i + 1 <= Len(v) /\ v[i + 1] = nodes[h].chars[j + 1] /\ \A l \in 1..i : s[l] = v[l]
    BY <1>4, <1>10, InEdge
  <2>2. (i + 1) - 1 = i /\ i + 1 >= 1 /\ i + 1 <= Len(s) /\ i + 1 \in Nat
    BY ONLY <1>6, <1>7
  <2>3. PartAt(s, v, i + 1)
    BY ONLY <1>9, <2>1, <2>2 DEF PartAt
  <2>4. Apart(s, v)
    BY ONLY <2>2, <2>3 DEF Apart
  <2>5. v \in W
    BY FormType
  <2> QED BY <2>4, <2>5, NotBefore
<1>11. Retreated(nodes, s, h, 0)
  BY ONLY Form(nodes), s \in W, <1>4, <1>10, AtWalkStop
<1> QED BY <1>1, <1>11

LEMMA StopsAfter ==
  ASSUME NEW nodes, Form(nodes), \A x \in DOMAIN nodes : Tight(nodes, x), NEW s \in W, NEW w,
         Walked(nodes, s, w), w.i # Len(s), nodes[w.h].iscompr,
         nodes[w.h].chars[w.j + 1] < s[w.i + 1], NEW g, LastBelow(nodes, w.h, g)
  PROVE  LastKey(nodes, s, g)
<1>1. PICK h : h = w.h
  OBVIOUS
<1>2. PICK j : j = w.j
  OBVIOUS
<1>3. PICK i : i = w.i
  OBVIOUS
<1>4. /\ h \in DOMAIN nodes /\ Begins(h, s) /\ i = Len(h) + j /\ WalkStops(nodes, s, h, i, j)
      /\ nodes[h].iscompr /\ i # Len(s) /\ nodes[h].chars[j + 1] < s[i + 1]
  BY <1>1, <1>2, <1>3 DEF Walked
<1>5. /\ i \in 0..Len(s) /\ j \in Nat /\ j < Len(nodes[h].chars)
  BY <1>4 DEF WalkStops
<1>6. Len(s) \in Nat /\ nodes[h].chars \in W /\ Len(nodes[h].chars) \in Nat /\ h \in W
  BY <1>4, FormType, WordType
<1>7. i \in Nat /\ i < Len(s)
  BY ONLY <1>4, <1>5, <1>6
<1>8. /\ g \in DOMAIN nodes /\ g \in W /\ Begins(h, g) /\ nodes[g].chars = <<>>
      /\ \A v \in DOMAIN nodes : Begins(h, v) => ~Before(g, v)
  BY <1>1 DEF LastBelow
<1>9. g # h
  <2>1. nodes[h].chars # <<>>
    BY <1>5, <1>6, WordType
  <2> QED BY <1>8, <2>1
<1>10. PICK f \in Edges(nodes[h]) : Begins(Join(h, f), g)
  BY <1>4, <1>8, <1>9, UnderEdge
<1>11. i + 1 <= Len(g) /\ g[i + 1] = nodes[h].chars[j + 1] /\ \A l \in 1..i : s[l] = g[l]
  BY <1>4, <1>8, <1>10, InEdge
<1>12. Apart(g, s)
  <2>1. (i + 1) - 1 = i /\ i + 1 >= 1 /\ i + 1 <= Len(s) /\ i + 1 \in Nat
    BY ONLY <1>6, <1>7
  <2>2. \A l \in 1..i : g[l] = s[l]
    BY ONLY <1>11
  <2>3. PartAt(g, s, i + 1)
    BY ONLY <1>4, <1>11, <2>1, <2>2 DEF PartAt
  <2> QED BY ONLY <2>1, <2>3 DEF Apart
<1>13. nodes[g].iskey
  <2>1. SUFFICES ASSUME ~nodes[g].iskey PROVE FALSE
    OBVIOUS
  <2>2. g = Root
    BY <1>8, <2>1, NoKeyHasEdges
  <2>3. Len(g) = 0 /\ Len(h) \in Nat
    BY <1>6, <1>8, <2>2, WordType DEF Root
  <2>4. Len(g) <= Len(h)
    BY ONLY <2>3
  <2> QED BY <1>6, <1>8, <1>9, <2>4, BeginsOrder
<1>14. ~Before(s, g)
  BY <1>8, <1>12, NotBefore
<1>15. ASSUME NEW v \in DOMAIN nodes, ~Before(s, v) PROVE ~Before(g, v)
  <2>1. v \in W
    BY FormType
  <2>2. CASE Begins(v, h)
    <3>1. Begins(v, g)
      BY <1>6, <1>8, <2>1, <2>2, BeginsOrder
    <3> QED BY <1>8, <2>1, <3>1, NotBefore
  <2>3. CASE Apart(v, h)
    <3>1. Apart(v, g)
      BY <1>6, <1>8, <2>1, <2>3, ApartBelow
    <3> QED BY <1>8, <2>1, <3>1, NotBefore
  <2>4. ASSUME NEW e \in Edges(nodes[h]), Begins(Join(h, e), v) PROVE ~Before(g, v)
    <3>1. Begins(h, Join(h, e)) /\ Join(h, e) \in W
      BY <1>4, EdgeWord
    <3>2. Begins(h, v)
      BY <1>6, <2>1, <2>4, <3>1, BeginsOrder
    <3> QED BY <1>8, <3>2
  <2> QED BY <1>4, <1>15, <2>2, <2>3, <2>4, Around
<1> QED BY <1>8, <1>13, <1>14, <1>15 DEF LastKey

(* The walk stops at a node that has no edge with the next character c.    *)
LEMMA StopsBetween ==
  ASSUME NEW nodes, Form(nodes), NEW s \in W, NEW w, Walked(nodes, s, w), w.i # Len(s), ~nodes[w.h].iscompr,
         NEW c, c = s[w.i + 1], NEW z, Back(nodes, w.h, c, z)
  PROVE  Retreated(nodes, s, z, 0)
<1>1. PICK h : h = w.h
  OBVIOUS
<1>2. PICK i : i = w.i
  OBVIOUS
<1>3. /\ h \in DOMAIN nodes /\ Begins(h, s) /\ WalkStops(nodes, s, h, i, w.j) /\ ~nodes[h].iscompr
      /\ i # Len(s) /\ c = s[i + 1] /\ Back(nodes, h, c, z)
  BY <1>1, <1>2 DEF Walked
<1>4. /\ i \in 0..Len(s) /\ h = Upto(s, i)
      /\ i < Len(s) => \A f \in Edges(nodes[h]) : f[1] # s[i + 1]
  BY <1>3 DEF WalkStops
<1>5. Len(s) \in Nat /\ h \in W
  BY <1>3, FormType, WordType
<1>6. i \in Nat /\ i < Len(s) /\ i + 1 \in 1..Len(s) /\ i + 1 <= Len(s)
  BY ONLY <1>3, <1>4, <1>5
<1>7. c \in Nat /\ \A f \in Edges(nodes[h]) : f[1] # c /\ f[1] \in Nat /\ f \in W /\ Len(f) >= 1
  BY <1>3, <1>4, <1>6, WordType, EdgeOrder, EdgeWord
<1>8. PICK m : m = <<c>>
  OBVIOUS
<1>9. m \in W /\ Len(m) = 1 /\ m[1] = c /\ Len(m) >= 1
  BY ONLY <1>7, <1>8 DEF W
<1>10. Begins(Join(h, m), s)
  <2>1. i + Len(m) <= Len(s)
    BY ONLY <1>6, <1>9
  <2>2. \A k \in 1..Len(m) : s[i + k] = m[k]
    BY ONLY <1>3, <1>9
  <2> QED BY <1>4, <1>9, <2>1, <2>2, GoesOn
<1>11. ASSUME NEW f \in Edges(nodes[h]), NEW v \in W, Begins(Join(h, f), v)
       PROVE  (c < f[1] => Before(s, v)) /\ (f[1] < c => Apart(v, s))
  <2>1. f \in W /\ Len(f) >= 1
    BY <1>7
  <2>2. c < f[1] => Apart(s, v)
    BY ONLY <1>5, <1>9, <1>10, <1>11, <2>1, s \in W, TwoEdges
  <2>3. f[1] < c => Apart(v, s)
    BY ONLY <1>5, <1>9, <1>10, <1>11, <2>1, s \in W, TwoEdges
  <2> QED BY <2>2, <2>3, NotBefore
<1>12. CASE z = h /\ \A f \in Edges(nodes[h]) : nodes[h].iscompr \/ ~(f[1] < c)
  <2>1. ASSUME NEW f \in Edges(nodes[h]), NEW v \in DOMAIN nodes, Begins(Join(h, f), v) PROVE Before(s, v)
    <3>1. f[1] # c /\ f[1] \in Nat /\ ~(f[1] < c)
      BY <1>3, <1>7, <1>12
    <3>2. c < f[1]
      BY ONLY <1>7, <3>1
    <3>3. v \in W
      BY FormType
    <3> QED BY ONLY <1>11, <2>1, <3>2, <3>3
  <2>2. Retreated(nodes, s, h, 0)
    BY ONLY Form(nodes), s \in W, <1>3, <2>1, AtWalkStop
  <2> QED BY <1>12, <2>2
<1>13. ASSUME NEW e \in Edges(nodes[h]), e[1] < c,
              \A f \in Edges(nodes[h]) : f[1] < c => ~(e[1] < f[1]), LastBelow(nodes, Join(h, e), z)
       PROVE  Retreated(nodes, s, z, 0)
  <2>1. PICK x : x = Join(h, e)
    OBVIOUS
  <2>2. e \in W /\ Len(e) >= 1 /\ x \in W /\ x \in DOMAIN nodes /\ Begins(h, x)
    BY <1>3, <2>1, EdgeWord
  <2>3. /\ z \in DOMAIN nodes /\ z \in W /\ Begins(x, z)
        /\ \A v \in DOMAIN nodes : Begins(x, v) => ~Before(z, v)
    BY ONLY <1>13, <2>1 DEF LastBelow
  <2>4. Begins(h, z) /\ Begins(Join(h, e), z)
    BY <1>5, <2>1, <2>2, <2>3, BeginsOrder
  <2>5. ~Before(s, z)
    <3>1. Apart(z, s)
      BY ONLY <1>11, <1>13, <2>3, <2>4
    <3> QED BY <2>3, <3>1, NotBefore
  <2>6. ASSUME NEW v \in DOMAIN nodes, ~Before(s, v) PROVE ~Before(z, v)
    <3>1. v \in W
      BY FormType
    <3>2. CASE Begins(v, h)
      <4>1. Begins(v, z)
        BY <1>5, <2>3, <2>4, <3>1, <3>2, BeginsOrder
      <4> QED BY <2>3, <3>1, <4>1, NotBefore
    <3>3. CASE Apart(v, h)
      <4>1. Apart(v, z)
        BY ONLY <1>5, <2>3, <2>4, <3>1, <3>3, ApartBelow
      <4> QED BY <2>3, <3>1, <4>1, NotBefore
    <3>4. ASSUME NEW f \in Edges(nodes[h]), Begins(Join(h, f), v) PROVE ~Before(z, v)
      <4>1. ~(c < f[1]) /\ f[1] # c /\ f[1] \in Nat
        BY ONLY <1>7, <1>11, <2>6, <3>1, <3>4
      <4>2. f[1] < c
        BY ONLY <1>7, <4>1
      <4>3. ~(e[1] < f[1]) /\ e[1] \in Nat
        BY ONLY <1>7, <1>13, <4>2, f \in Edges(nodes[h])
      <4>4. CASE f[1] = e[1]
        <5>1. f = e
          BY <1>3, <4>4, EdgeOrder
        <5> QED BY ONLY <2>1, <2>3, <2>6, <3>4, <5>1
      <4>5. CASE f[1] < e[1]
        <5>1. f \in W /\ Len(f) >= 1
          BY <1>7
        <5>2. Apart(v, z)
          BY ONLY <1>5, <2>2, <2>3, <2>4, <3>1, <3>4, <4>5, <5>1, TwoEdges
        <5> QED BY <2>3, <3>1, <5>2, NotBefore
      <4> QED BY ONLY <4>1, <4>3, <4>4, <4>5
    <3> QED BY <1>3, <2>6, <3>2, <3>3, <3>4, Around
  <2>7. Len(z) + 0 <= Depth(nodes)
    <3>1. Len(z) \in Nat /\ Depth(nodes) \in Nat /\ Len(z) <= Depth(nodes)
      BY <2>3, WordType, DepthIs
    <3> QED BY ONLY <3>1
  <2> QED BY <2>3, <2>5, <2>6, <2>7 DEF Retreated
<1> QED BY <1>3, <1>12, <1>13 DEF Back

(* With noup the key is put together and cut again.                        *)
LEMMA NoUpIs ==
  ASSUME NEW nodes, Form(nodes), NEW h \in DOMAIN nodes, NEW e \in W, Len(e) >= 1, EdgeLen(nodes[h]) = Len(e)
  PROVE  /\ [Iterator(h, h) EXCEPT !.key = Join(h, e)] = Place(Join(h, e), h, NoData)
         /\ Iterator(h, h) = Stand(h, NoData)
         /\ CutKey(nodes, Place(Join(h, e), h, NoData)) = Stand(h, NoData)
<1>1. Iterator(h, h) = Place(h, h, NoData) /\ Iterator(h, h) = Stand(h, NoData)
  BY DEF Iterator, Stand, Place
<1>2. PICK it : it = Iterator(h, h)
  OBVIOUS
<1>3. PICK x : x = Join(h, e)
  OBVIOUS
<1>4. [it EXCEPT !.key = x] = Place(x, h, NoData)
  <2>1. it = Place(h, h, NoData)
    BY ONLY <1>1, <1>2
  <2> QED BY ONLY <2>1, KeyMoved
<1>5. CutKey(nodes, Place(Join(h, e), h, NoData)) = Stand(h, NoData)
  BY CutKeyIs
<1> QED BY ONLY <1>1, <1>2, <1>3, <1>4, <1>5

(* raxSeek with "<=" finds what is sought from wherever the walk stopped.  *)
LEMMA SeekFromIs ==
  ASSUME NEW tree, NEW nodes, nodes = tree.nodes, Form(nodes), \A x \in DOMAIN nodes : Tight(nodes, x),
         NEW s \in W, NEW w, Walked(nodes, s, w)
  PROVE  Sought(nodes, s, SeekFrom(tree, w, s))
<1>1. PICK h : h = w.h
  OBVIOUS
<1>2. PICK n : n = nodes[h]
  OBVIOUS
<1>3. /\ h \in DOMAIN nodes /\ Begins(h, s) /\ w.i = Len(h) + w.j /\ WalkStops(nodes, s, h, w.i, w.j)
  BY <1>1 DEF Walked
<1>4. /\ w.i \in 0..Len(s) /\ w.j \in Nat
      /\ n.iscompr => w.j < Len(n.chars)
      /\ ~n.iscompr => w.j = 0
  BY <1>2, <1>3 DEF WalkStops
<1>5. /\ h \in W /\ Len(h) \in Nat /\ Len(s) \in Nat /\ n.chars \in W /\ Len(n.chars) \in Nat
      /\ IsNode(n) /\ Ordered(n) /\ n.iskey \in BOOLEAN
  BY <1>2, <1>3, FormType, WordType
<1>6. IsNodeOf(tree, w, s) <=> w.i = Len(s) /\ (n.iscompr => w.j = 0)
  BY ONLY <1>1, <1>2, nodes = tree.nodes DEF IsNodeOf
<1>7. Iterator(h, h) = Stand(h, NoData)
  BY DEF Iterator, Stand, Place
<1>8. PICK it : it = Iterator(h, h)
  OBVIOUS
<1>9. CASE IsNodeOf(tree, w, s) /\ n.iskey
  <2>1. SeekFrom(tree, w, s) = AtKey(nodes, it)
    <3>1. IsNodeOf(tree, w, s) /\ tree.nodes[w.h].iskey /\ w.i = Len(s) /\ w.j = 0
      BY ONLY <1>1, <1>2, <1>4, <1>6, <1>9, nodes = tree.nodes
    <3>2. SeekFrom(tree, w, s) = AtKey(tree.nodes, Iterator(w.h, w.h))
      BY ONLY <3>1 DEF SeekFrom
    <3> QED BY ONLY <1>1, <1>8, <3>2, nodes = tree.nodes
  <2>2. SeekFrom(tree, w, s) = Stand(h, nodes[h].data)
    BY ONLY <1>7, <1>8, <2>1, AtKeyIs
  <2>3. h = s
    BY <1>1, <1>9, NodeOf
  <2>4. LastKey(nodes, s, h)
    BY <1>2, <1>3, <1>5, <1>9, <2>3, NotBefore DEF LastKey
  <2> QED BY ONLY <2>2, <2>4 DEF Sought
<1>10. CASE w.i # Len(s) /\ ~n.iscompr
  <2>1. PICK c : c = s[w.i + 1]
    OBVIOUS
  <2>2. PICK e : e = <<c>>
    OBVIOUS
  <2>3. w.i + 1 \in 1..Len(s)
    BY ONLY <1>4, <1>5, <1>10
  <2>4. c \in Nat
    BY <2>1, <2>3, WordType
  <2>5. e \in W /\ Len(e) = 1 /\ Len(e) >= 1 /\ e[1] = c
    BY ONLY <2>2, <2>4 DEF W
  <2>6. EdgeLen(nodes[h]) = Len(e)
    BY ONLY <1>2, <1>10, <2>5 DEF EdgeLen
  <2>7. PICK k : k = Join(h, e)
    OBVIOUS
  <2>8. /\ [Iterator(h, h) EXCEPT !.key = Join(h, e)] = Place(Join(h, e), h, NoData)
        /\ CutKey(nodes, Place(Join(h, e), h, NoData)) = Stand(h, NoData)
    BY <1>3, <2>5, <2>6, NoUpIs
  <2>9. SeekFrom(tree, w, s) = raxIteratorPrevStep(nodes, Place(k, h, NoData), TRUE)
    <3>1. ~(IsNodeOf(tree, w, s) /\ n.iskey)
      BY ONLY <1>6, <1>10
    <3>2. SeekFrom(tree, w, s) = raxIteratorPrevStep(nodes, [Iterator(h, h) EXCEPT !.key = Join(h, e)], TRUE)
      BY ONLY <1>1, <1>2, <1>10, <2>1, <2>2, <3>1, nodes = tree.nodes DEF SeekFrom, Join
    <3> QED BY ONLY <2>7, <2>8, <3>2
  <2>10. Last(k) = c
    BY <1>5, <2>5, <2>7, LastIs
  <2>11. NoData \in Int
    BY DEF NoData
  <2>12. PICK z : BackFrom(nodes, Stand(h, NoData), c) = Stand(z, NoData) /\ Back(nodes, h, c, z)
    BY <1>3, <2>11, BackFromIs
  <2>13. Retreated(nodes, s, z, 0)
    BY <1>1, <1>2, <1>10, <2>1, <2>12, StopsBetween
  <2>14. BackFrom(nodes, CutKey(nodes, Place(k, h, NoData)), Last(k)) = Stand(z, NoData)
    BY ONLY <2>7, <2>8, <2>10, <2>12
  <2> QED BY <2>9, <2>13, <2>14, PrevStepIs
<1>11. CASE w.i # Len(s) /\ n.iscompr /\ n.chars[w.j + 1] < s[w.i + 1]
  <2>1. SeekFrom(tree, w, s) = AtKey(nodes, raxSeekGreatest(nodes, it))
    <3>1. ~(IsNodeOf(tree, w, s) /\ n.iskey)
      BY ONLY <1>6, <1>11
    <3>2. /\ w.i # Len(s) /\ tree.nodes[w.h].iscompr /\ tree.nodes[w.h].chars[w.j + 1] < s[w.i + 1]
          /\ ~(tree.nodes[w.h].chars[w.j + 1] >= s[w.i + 1])
          /\ ~(IsNodeOf(tree, w, s) /\ tree.nodes[w.h].iskey)
      <4>1. w.j + 1 \in 1..Len(n.chars) /\ w.i + 1 \in 1..Len(s)
        BY ONLY <1>4, <1>5, <1>11
      <4>2. n.chars[w.j + 1] \in Nat /\ s[w.i + 1] \in Nat
        BY <1>5, <4>1, WordType
      <4>3. ~(n.chars[w.j + 1] >= s[w.i + 1])
        BY ONLY <1>11, <4>2
      <4> QED BY ONLY <1>1, <1>2, <1>11, <3>1, <4>3, nodes = tree.nodes
    <3>3. SeekFrom(tree, w, s) = AtKey(tree.nodes, raxSeekGreatest(tree.nodes, Iterator(w.h, w.h)))
      BY ONLY <3>2 DEF SeekFrom
    <3> QED BY ONLY <1>1, <1>8, <3>3, nodes = tree.nodes
  <2>2. NoData \in Int
    BY DEF NoData
  <2>3. PICK g : LastBelow(nodes, h, g) /\ raxSeekGreatest(nodes, Stand(h, NoData)) = Stand(g, NoData)
    BY <1>3, <2>2, SeekGreatestIs
  <2>4. SeekFrom(tree, w, s) = Stand(g, nodes[g].data)
    BY ONLY <1>7, <1>8, <2>1, <2>3, AtKeyIs
  <2>5. LastKey(nodes, s, g)
    BY <1>1, <1>2, <1>11, <2>3, StopsAfter
  <2> QED BY ONLY <2>4, <2>5 DEF Sought
<1>12. CASE w.i # Len(s) /\ n.iscompr /\ ~(n.chars[w.j + 1] < s[w.i + 1])
  <2>1. PICK e : e = n.chars
    OBVIOUS
  <2>2. e \in W /\ Len(e) >= 1
    BY ONLY <1>4, <1>5, <1>12, <2>1
  <2>3. EdgeLen(nodes[h]) = Len(e)
    BY ONLY <1>2, <1>12, <2>1 DEF EdgeLen
  <2>4. PICK k : k = Join(h, e)
    OBVIOUS
  <2>5. /\ [Iterator(h, h) EXCEPT !.key = Join(h, e)] = Place(Join(h, e), h, NoData)
        /\ CutKey(nodes, Place(Join(h, e), h, NoData)) = Stand(h, NoData)
    BY <1>3, <2>2, <2>3, NoUpIs
  <2>6. n.chars[w.j + 1] >= s[w.i + 1]
    <3>1. w.j + 1 \in 1..Len(n.chars) /\ w.i + 1 \in 1..Len(s)
      BY ONLY <1>4, <1>5, <1>12
    <3>2. n.chars[w.j + 1] \in Nat /\ s[w.i + 1] \in Nat
      BY <1>5, <3>1, WordType
    <3> QED BY ONLY <1>12, <3>2
  <2>7. SeekFrom(tree, w, s) = raxIteratorPrevStep(nodes, Place(k, h, NoData), TRUE)
    <3>1. ~(IsNodeOf(tree, w, s) /\ n.iskey)
      BY ONLY <1>6, <1>12
    <3>2. SeekFrom(tree, w, s) = raxIteratorPrevStep(nodes, [Iterator(h, h) EXCEPT !.key = Join(h, e)], TRUE)
      BY ONLY <1>1, <1>2, <1>12, <2>1, <2>6, <3>1, nodes = tree.nodes DEF SeekFrom, Join
    <3> QED BY ONLY <2>4, <2>5, <3>2
  <2>8. NoData \in Int
    BY DEF NoData
  <2>9. PICK z : BackFrom(nodes, Stand(h, NoData), Last(k)) = Stand(z, NoData) /\ Back(nodes, h, Last(k), z)
    BY <1>3, <2>8, BackFromIs
  <2>10. z = h
    BY <1>2, <1>12, <2>9 DEF Back
  <2>11. Retreated(nodes, s, h, 0)
    BY <1>1, <1>2, <1>12, <2>6, StopsBefore
  <2>12. BackFrom(nodes, CutKey(nodes, Place(k, h, NoData)), Last(k)) = Stand(h, NoData)
    BY ONLY <2>4, <2>5, <2>9, <2>10
  <2> QED BY <2>7, <2>11, <2>12, PrevStepIs
<1>13. CASE w.i = Len(s) /\ n.iskey /\ ~IsNodeOf(tree, w, s)
  <2>1. w.j # 0
    BY ONLY <1>4, <1>6, <1>13
  <2>2. SeekFrom(tree, w, s) = it
    BY ONLY <1>1, <1>2, <1>8, <1>13, <2>1, nodes = tree.nodes DEF SeekFrom
  <2>3. Retreated(nodes, s, h, 0)
    BY <1>1, <1>13, StopsWithWord
  <2>4. LastKey(nodes, s, h)
    BY <1>2, <1>5, <1>13, <2>3 DEF Retreated, LastKey
  <2> QED BY ONLY <1>7, <1>8, <2>2, <2>4 DEF Sought
<1>14. CASE w.i = Len(s) /\ ~n.iskey
  <2>1. SeekFrom(tree, w, s) = raxIteratorPrevStep(nodes, Stand(h, NoData), FALSE)
    BY ONLY <1>1, <1>2, <1>7, <1>14, nodes = tree.nodes DEF SeekFrom
  <2>2. Retreated(nodes, s, h, 0)
    BY <1>1, <1>14, StopsWithWord
  <2> QED BY <2>1, <2>2, PrevStepIs
<1> QED BY <1>9, <1>10, <1>11, <1>12, <1>13, <1>14

(* The first raxNext after a seek moves nothing.                           *)
LEMMA SeekedIs ==
  ASSUME NEW tree, NEW k, NEW h, NEW d, NEW it, it = Place(k, h, d)
  PROVE  raxNext(tree, [it EXCEPT !.seeked = TRUE]) = it
<1>1. PICK f : f = FALSE
  OBVIOUS
<1>2. PICK t : t = TRUE
  OBVIOUS
<1>3. it = [key |-> k, node |-> h, data |-> d, eof |-> f, seeked |-> f]
  BY <1>1 DEF Place
<1>4. PICK x : x = [it EXCEPT !.seeked = t]
  OBVIOUS
<1>5. x = [key |-> k, node |-> h, data |-> d, eof |-> f, seeked |-> t]
  BY ONLY <1>3, <1>4
<1>6. x.eof = f /\ x.seeked = t
  BY ONLY <1>5
<1>7. raxNext(tree, x) = [x EXCEPT !.seeked = FALSE]
  <2>1. ~x.eof /\ x.seeked
    BY ONLY <1>1, <1>2, <1>6
  <2> QED BY ONLY <2>1 DEF raxNext
<1>8. [x EXCEPT !.seeked = f] = it
  BY ONLY <1>3, <1>5
<1> QED BY ONLY <1>1, <1>2, <1>4, <1>7, <1>8

LEMMA SeekedEnds ==
  ASSUME NEW tree, NEW k, NEW h, NEW d, NEW it, it = AtEnd(Place(k, h, d))
  PROVE  raxNext(tree, [it EXCEPT !.seeked = TRUE]).eof = TRUE
<1>1. PICK f : f = FALSE
  OBVIOUS
<1>2. PICK t : t = TRUE
  OBVIOUS
<1>3. PICK p : p = Place(k, h, d)
  OBVIOUS
<1>4. p = [key |-> k, node |-> h, data |-> d, eof |-> f, seeked |-> f]
  BY <1>1, <1>3 DEF Place
<1>5. it = [p EXCEPT !.eof = t]
  BY <1>2, <1>3 DEF AtEnd
<1>6. it = [key |-> k, node |-> h, data |-> d, eof |-> t, seeked |-> f]
  BY ONLY <1>4, <1>5
<1>7. PICK x : x = [it EXCEPT !.seeked = t]
  OBVIOUS
<1>8. x = [key |-> k, node |-> h, data |-> d, eof |-> t, seeked |-> t]
  BY ONLY <1>6, <1>7
<1>9. x.eof = t
  BY ONLY <1>8
<1>10. raxNext(tree, x) = x
  <2>1. x.eof
    BY ONLY <1>2, <1>9
  <2> QED BY ONLY <2>1 DEF raxNext
<1> QED BY ONLY <1>2, <1>7, <1>9, <1>10

(* The iterator after a seek and the first step.                           *)
FoundLast(tree, s, it) ==
  \/ \E y \in WordsOf(tree) : \E d \in {NoData, tree.nodes[y].data} :
       it = Stand(y, d) /\ ~Before(s, y) /\ \A v \in WordsOf(tree) : ~Before(s, v) => ~Before(y, v)
  \/ it.eof = TRUE /\ \A v \in WordsOf(tree) : Before(s, v)

(* A seek with "<=" and one raxNext stand on the last word that is not     *)
(* after s, or at the end when there is none; the data is that of the word *)
(* or was not read (rax.c 1666-1678).                                      *)
THEOREM SeekIs ==
  ASSUME NEW tree, Sound(tree), NEW s \in W
  PROVE  FoundLast(tree, s, raxNext(tree, raxSeekLE(tree, s)))
<1>1. PICK nodes : nodes = tree.nodes
  OBVIOUS
<1>2. Form(nodes) /\ (\A x \in DOMAIN nodes : Tight(nodes, x)) /\ CountsAgree(tree)
  BY <1>1 DEF Sound
<1>3. \A x : x \in WordsOf(tree) <=> x \in DOMAIN nodes /\ nodes[x].iskey
  BY <1>1, WordsIs
<1>4. CASE tree.numele = 0
  <2>1. \A v : v \notin WordsOf(tree)
    <3>1. Cardinality(WordsOf(tree)) = 0
      BY <1>2, <1>4 DEF CountsAgree
    <3>2. IsFiniteSet(DOMAIN nodes)
      BY <1>2 DEF Form
    <3>3. WordsOf(tree) \subseteq DOMAIN nodes
      BY <1>3
    <3>4. IsFiniteSet(WordsOf(tree))
      BY <3>2, <3>3, FS_Subset
    <3>5. WordsOf(tree) = {}
      BY <3>1, <3>4, FS_EmptySet
    <3> QED BY <3>5
  <2>2. PICK it : it = AtEnd(Iterator(Root, Root))
    OBVIOUS
  <2>3. it.eof = TRUE
    BY <2>2 DEF AtEnd, Iterator
  <2>4. raxSeekLE(tree, s) = it
    BY ONLY <1>4, <2>2 DEF raxSeekLE
  <2>5. raxNext(tree, it) = it
    <3>1. it.eof
      BY ONLY <2>3
    <3> QED BY ONLY <3>1 DEF raxNext
  <2> QED BY ONLY <2>1, <2>3, <2>4, <2>5 DEF FoundLast
<1>5. CASE tree.numele # 0
  <2>1. PICK w : w = raxLowWalk(tree, s)
    OBVIOUS
  <2>2. Walked(nodes, s, w)
    BY <1>1, <1>2, <2>1, WalkIs
  <2>3. PICK it : it = SeekFrom(tree, w, s)
    OBVIOUS
  <2>4. Sought(nodes, s, it)
    BY <1>1, <1>2, <2>2, <2>3, SeekFromIs
  <2>5. raxSeekLE(tree, s) = [it EXCEPT !.seeked = TRUE]
    BY ONLY <1>5, <2>1, <2>3 DEF raxSeekLE
  <2>6. PICK to : to = raxNext(tree, [it EXCEPT !.seeked = TRUE])
    OBVIOUS
  <2>7. ASSUME NEW y, NEW d, it = Stand(y, d), LastKey(nodes, s, y), d \in {NoData, nodes[y].data}
        PROVE  FoundLast(tree, s, to)
    <3>1. it = Place(y, y, d)
      BY ONLY <2>7 DEF Stand
    <3>4. to = Stand(y, d)
      BY ONLY <2>6, <2>7, <3>1, SeekedIs
    <3>2. /\ y \in WordsOf(tree) /\ ~Before(s, y)
          /\ \A v \in WordsOf(tree) : ~Before(s, v) => ~Before(y, v)
      BY ONLY <1>3, <2>7 DEF LastKey
    <3>3. d \in {NoData, tree.nodes[y].data}
      BY ONLY <1>1, <2>7
    <3> QED BY ONLY <3>2, <3>3, <3>4 DEF FoundLast
  <2>8. ASSUME NEW k, NEW h, it = AtEnd(Place(k, h, NoData)),
               \A v \in DOMAIN nodes : nodes[v].iskey => Before(s, v)
        PROVE  FoundLast(tree, s, to)
    <3>1. to.eof = TRUE
      BY ONLY <2>6, <2>8, SeekedEnds
    <3> QED BY ONLY <1>3, <2>8, <3>1 DEF FoundLast
  <2>9. FoundLast(tree, s, to)
    BY ONLY <2>4, <2>7, <2>8 DEF Sought
  <2> QED BY ONLY <2>5, <2>6, <2>9
<1> QED BY <1>4, <1>5

(* The iterator after one more step from the word p.                       *)
FoundNext(tree, p, d, it) ==
  \/ \E y \in WordsOf(tree) :
       /\ it = Stand(y, tree.nodes[y].data)
       /\ Before(p, y) /\ \A v \in WordsOf(tree) : Before(p, v) => ~Before(v, y)
  \/ it = Ended(p, d) /\ \A v \in WordsOf(tree) : ~Before(p, v)

(* For every tree: from a word raxNext goes to the next, with its data, or *)
(* to the end.                                                             *)
LEMMA StepIs ==
  ASSUME NEW tree, Sound(tree), NEW p \in WordsOf(tree), NEW d \in Int
  PROVE  FoundNext(tree, p, d, raxNext(tree, Stand(p, d)))
<1>1. PICK nodes : nodes = tree.nodes
  OBVIOUS
<1>2. Form(nodes) /\ \A x \in DOMAIN nodes : Tight(nodes, x)
  BY <1>1 DEF Sound
<1>3. \A x : x \in WordsOf(tree) <=> x \in DOMAIN nodes /\ nodes[x].iskey
  BY <1>1, WordsIs
<1>4. PICK it : it = Stand(p, d)
  OBVIOUS
<1>5. raxNext(tree, it) = raxIteratorNextStep(nodes, it)
  <2>1. ~it.eof /\ ~it.seeked
    BY <1>4, StandGoes
  <2> QED BY ONLY <1>1, <2>1 DEF raxNext
<1>6. PICK to : to = raxIteratorNextStep(nodes, it)
  OBVIOUS
<1>7. NextKey(nodes, p, d, to)
  BY <1>2, <1>3, <1>4, <1>6, NextStepIs
<1>8. FoundNext(tree, p, d, to)
  BY ONLY <1>1, <1>3, <1>7 DEF NextKey, FirstKey, FoundNext
<1> QED BY ONLY <1>4, <1>5, <1>6, <1>8
=============================================================================
