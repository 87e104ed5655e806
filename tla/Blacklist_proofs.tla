-------------------------- MODULE Blacklist_proofs --------------------------
(***************************************************************************)
(* The filter rules, for all rules, libraries and calls: the trees keep    *)
(* their form, lookups and iteration agree with the words in the trees, a  *)
(* verdict has its rule, no decision outlives the rules it was made under, *)
(* and the trees implement the table of rules.                             *)
(***************************************************************************)
EXTENDS Blacklist, RaxIterator_proofs

(***************************************************************************)
(* 1. What the tracer asks of a tree.                                      *)
(***************************************************************************)

(* raxFind finds every word of a tree and no other.                        *)
LEMMA FindIs ==
  ASSUME NEW tree, Sound(tree), NEW s \in W
  PROVE  raxFind(tree, s) = IF s \in WordsOf(tree) THEN tree.nodes[s].data ELSE raxNotFound
<1>n. PICK nodes : nodes = tree.nodes
  OBVIOUS
<1>w. PICK w : w = raxLowWalk(tree, s)
  OBVIOUS
<1>1. Form(nodes)
  BY <1>n DEF Sound
<1>2. Walked(nodes, s, w)
  BY <1>1, <1>n, <1>w, WalkIs
<1>3. /\ IsNodeOf(tree, w, s) <=> s \in DOMAIN nodes
      /\ s \in DOMAIN nodes => w.h = s
  BY <1>1, <1>2, <1>n, NodeOf
<1>4. s \in WordsOf(tree) <=> s \in DOMAIN nodes /\ nodes[s].iskey
  BY <1>n, WordsIs
<1>5. raxFind(tree, s) = IF IsNodeOf(tree, w, s) /\ nodes[w.h].iskey THEN nodes[w.h].data ELSE raxNotFound
  BY <1>n, <1>w DEF raxFind
<1> QED BY <1>3, <1>4, <1>5, <1>n

(* The trees of a tracer: they hold no empty word, and every word has a    *)
(* verdict.                                                                *)
Kept(tree) ==
  /\ Sound(tree)
  /\ \A w \in WordsOf(tree) :
       w \in W /\ w # <<>> /\ tree.nodes[w].data \in {RG_BLACKLIST_WHITELISTED, RG_BLACKLIST_BLACKLISTED}

(* The words of a tree are addresses.                                      *)
LEMMA WordsAreWords ==
  ASSUME NEW tree, Sound(tree), NEW w \in WordsOf(tree)
  PROVE  w \in W /\ w \in DOMAIN tree.nodes
BY WordsIs DEF Sound, Form

(* The shortest of the words on the way is one of them.                    *)
LEMMA LongestIs ==
  ASSUME NEW S, S # {}, \A w \in S : w \in W
  PROVE  Shortest(S) \in S
<1> DEFINE L == {n \in Nat : \E w \in S : Len(w) = n}
<1>1. \A w \in S : Len(w) \in Nat
  BY WordType
<1>2. L \subseteq Nat /\ L # {}
  BY <1>1
<1>3. PICK n \in L : \A m \in L : n <= m
  <2> HIDE DEF L
  <2> QED BY <1>2, LeastNatural
<1>4. PICK w \in S : Len(w) = n
  BY <1>3
<1>5. \A v \in S : Len(w) <= Len(v)
  BY <1>1, <1>3, <1>4
<1> QED BY <1>4, <1>5 DEF Shortest

(* rb_rg_blacklisted_string_p returns the verdict of a rule that begins    *)
(* the name, a whitelisting one if there is one.                           *)
LEMMA VerdictIs ==
  ASSUME NEW tree, Kept(tree), NEW s \in W, NEW v, v = rb_rg_blacklisted_string_p(tree, s)
  PROVE  /\ v = RG_BLACKLIST_UNLISTED => \A w \in WordsOf(tree) : ~Begins(w, s)
         /\ v # RG_BLACKLIST_UNLISTED =>
              \E w \in WordsOf(tree) : Begins(w, s) /\ v = tree.nodes[w].data
         /\ v = RG_BLACKLIST_BLACKLISTED =>
              \A w \in WordsOf(tree) : Begins(w, s) => tree.nodes[w].data # RG_BLACKLIST_WHITELISTED
<1>n. PICK nodes : nodes = tree.nodes
  OBVIOUS
<1>w. PICK w : w = raxLowWalk(tree, s)
  OBVIOUS
<1>1. Form(nodes) /\ \A x : x \in WordsOf(tree) <=> x \in DOMAIN nodes /\ nodes[x].iskey
  BY <1>n, WordsIs DEF Kept, Sound
<1>2. Walked(nodes, s, w)
  BY <1>1, <1>n, <1>w, WalkIs
<1>3. /\ \A q \in DOMAIN nodes : Begins(q, s) => Len(q) <= Len(w.h)
      /\ \A q : q \in w.path <=> q \in DOMAIN nodes /\ Begins(q, s)
      /\ w.i = Len(w.h) + w.j /\ w.h \in W /\ w.j \in Nat
  BY <1>1, <1>2, FormType DEF Walked, WalkStops
<1>4. \A x \in WordsOf(tree) : /\ x \in W /\ Len(x) \in Nat /\ Len(x) # 0
                               /\ nodes[x].data \in {RG_BLACKLIST_WHITELISTED, RG_BLACKLIST_BLACKLISTED}
  BY <1>n, WordType DEF Kept
<1>5. CASE w.i = 0
  <2>1. v = RG_BLACKLIST_UNLISTED
    BY <1>5, <1>w DEF rb_rg_blacklisted_string_p
  <2>2. ASSUME NEW x \in WordsOf(tree), Begins(x, s) PROVE FALSE
    <3>1. Len(x) <= Len(w.h) /\ Len(w.h) \in Nat /\ Len(x) \in Nat /\ Len(x) # 0
      BY <1>1, <1>3, <1>4, <2>2, WordType
    <3> QED BY <1>3, <1>5, <3>1
  <2> QED BY <2>1, <2>2 DEF RG_BLACKLIST_UNLISTED, RG_BLACKLIST_BLACKLISTED
<1>6. CASE w.i # 0
  <2>1. PICK seen : seen = [p \in {q \in w.path : nodes[q].iskey} |-> nodes[p].data]
    OBVIOUS
  <2>2. v = VerdictOnTheWay(seen)
    BY <1>6, <1>n, <1>w, <2>1 DEF rb_rg_blacklisted_string_p
  <2>3. \A x : x \in DOMAIN seen <=> x \in WordsOf(tree) /\ Begins(x, s)
    BY <1>1, <1>3, <2>1
  <2>4. \A x \in DOMAIN seen : seen[x] = nodes[x].data
    BY <2>1
  <2>5. CASE DOMAIN seen = {}
    <3>1. v = RG_BLACKLIST_UNLISTED
      BY <2>2, <2>5 DEF VerdictOnTheWay
    <3> QED BY <2>3, <2>5, <3>1 DEF RG_BLACKLIST_UNLISTED, RG_BLACKLIST_BLACKLISTED
  <2>6. CASE DOMAIN seen # {} /\ \E x \in DOMAIN seen : seen[x] = RG_BLACKLIST_WHITELISTED
    <3>1. v = RG_BLACKLIST_WHITELISTED
      BY <2>2, <2>6 DEF VerdictOnTheWay
    <3>2. PICK x \in DOMAIN seen : seen[x] = RG_BLACKLIST_WHITELISTED
      BY <2>6
    <3>3. x \in WordsOf(tree) /\ Begins(x, s) /\ v = tree.nodes[x].data
      BY <1>n, <2>3, <2>4, <3>1, <3>2
    <3>4. v # RG_BLACKLIST_UNLISTED /\ v # RG_BLACKLIST_BLACKLISTED
      BY <3>1 DEF RG_BLACKLIST_UNLISTED, RG_BLACKLIST_BLACKLISTED, RG_BLACKLIST_WHITELISTED
    <3> QED BY <3>3, <3>4
  <2>7. CASE DOMAIN seen # {} /\ ~\E x \in DOMAIN seen : seen[x] = RG_BLACKLIST_WHITELISTED
    <3>1. PICK x : x = Shortest(DOMAIN seen)
      OBVIOUS
    <3>2. x \in DOMAIN seen
      BY <1>4, <2>3, <2>7, <3>1, LongestIs
    <3>3. v = seen[x]
      BY <2>2, <2>7, <3>1 DEF VerdictOnTheWay
    <3>4. x \in WordsOf(tree) /\ Begins(x, s) /\ v = tree.nodes[x].data
      BY <1>n, <2>3, <2>4, <3>2, <3>3
    <3>5. v # RG_BLACKLIST_UNLISTED
      BY <1>4, <1>n, <3>4 DEF RG_BLACKLIST_UNLISTED, RG_BLACKLIST_BLACKLISTED, RG_BLACKLIST_WHITELISTED
    <3>6. \A y \in WordsOf(tree) : Begins(y, s) => tree.nodes[y].data # RG_BLACKLIST_WHITELISTED
      BY <1>n, <2>3, <2>4, <2>7
    <3> QED BY <3>4, <3>5, <3>6
  <2> QED BY <2>5, <2>6, <2>7
<1> QED BY <1>5, <1>6

(* A rule that is inserted leaves the tree so.                             *)
LEMMA KeptInsert ==
  ASSUME NEW tree, Kept(tree), NEW s \in W, s # <<>>,
         NEW data \in {RG_BLACKLIST_WHITELISTED, RG_BLACKLIST_BLACKLISTED}
  PROVE  Kept(raxInsert(tree, s, data))
<1>t. PICK t : t = raxInsert(tree, s, data)
  OBVIOUS
<1>1. data \in Int
  BY DEF RG_BLACKLIST_WHITELISTED, RG_BLACKLIST_BLACKLISTED
<1>2. /\ Sound(t)
      /\ \A x : x \in WordsOf(t) <=> x \in WordsOf(tree) \/ x = s
      /\ t.nodes[s].data = data
      /\ \A x \in WordsOf(tree) : x # s => t.nodes[x].data = tree.nodes[x].data
  BY <1>1, <1>t, InsertIs DEF Kept
<1>3. \A x \in WordsOf(t) :
        x \in W /\ x # <<>> /\ t.nodes[x].data \in {RG_BLACKLIST_WHITELISTED, RG_BLACKLIST_BLACKLISTED}
  BY <1>2 DEF Kept
<1> QED BY <1>2, <1>3, <1>t DEF Kept

LEMMA KeptNew == Kept(raxNew)
BY NewIs DEF Kept

(* In the table of the words an insertion sets one entry.                  *)
Put(table, s, data) == [x \in DOMAIN table \union {s} |-> IF x = s THEN data ELSE table[x]]

LEMMA DictionaryInsert ==
  ASSUME NEW tree, Sound(tree), NEW s \in W, NEW data \in Int
  PROVE  Dictionary(raxInsert(tree, s, data)) = Put(Dictionary(tree), s, data)
<1>t. PICK t : t = raxInsert(tree, s, data)
  OBVIOUS
<1>2. /\ \A x : x \in WordsOf(t) <=> x \in WordsOf(tree) \/ x = s
      /\ t.nodes[s].data = data
      /\ \A x \in WordsOf(tree) : x # s => t.nodes[x].data = tree.nodes[x].data
  BY <1>t, InsertIs
<1>3. PICK d : d = Dictionary(tree)
  OBVIOUS
<1>4. DOMAIN d = WordsOf(tree) /\ \A x \in WordsOf(tree) : d[x] = tree.nodes[x].data
  BY <1>3 DEF Dictionary
<1>5. Dictionary(t) = [x \in WordsOf(t) |-> t.nodes[x].data]
  BY DEF Dictionary
<1>6. WordsOf(t) = DOMAIN d \union {s}
  BY <1>2, <1>4
<1>7. \A x \in WordsOf(t) : t.nodes[x].data = IF x = s THEN data ELSE d[x]
  BY <1>2, <1>4
<1>8. Dictionary(t) = Put(d, s, data)
  BY <1>5, <1>6, <1>7 DEF Put
<1> QED BY <1>3, <1>8, <1>t

(* The libraries, one after the other.                                     *)
LEMMA RegisteredIs ==
  ASSUME NEW tree, NEW list \in Seq(W \ {<<>>})
  PROVE  \E after : /\ after = [k \in 0..Len(list) |-> IF k = 0 THEN tree
                                  ELSE raxInsert(after[k - 1], list[k], RG_BLACKLIST_WHITELISTED)]
                    /\ Registered(tree, list) = after[Len(list)]
<1> DEFINE Is(n, f) == f = [k \in 0..n |-> IF k = 0 THEN tree
                             ELSE raxInsert(f[k - 1], list[k], RG_BLACKLIST_WHITELISTED)]
<1> DEFINE S == {n \in Nat : \E f : Is(n, f)}
<1>1. 0 \in S
  <2>1. PICK f : f = [k \in 0..0 |-> tree]
    OBVIOUS
  <2>2. \A k \in 0..0 : k = 0
    OBVIOUS
  <2>3. Is(0, f)
    BY <2>1, <2>2
  <2> QED BY <2>3
<1>2. ASSUME NEW n \in Nat, n \in S PROVE n + 1 \in S
  <2>1. PICK f : Is(n, f)
    BY <1>2
  <2>2. PICK g : g = [k \in 0..(n + 1) |-> IF k = n + 1
                         THEN raxInsert(f[n], list[n + 1], RG_BLACKLIST_WHITELISTED) ELSE f[k]]
    OBVIOUS
  <2>3. \A k \in 0..n : g[k] = f[k]
    <3>1. \A k \in 0..n : k \in 0..(n + 1) /\ k # n + 1
      OBVIOUS
    <3> QED BY <2>2, <3>1
  <2>4. ASSUME NEW k \in 0..(n + 1)
        PROVE  g[k] = IF k = 0 THEN tree ELSE raxInsert(g[k - 1], list[k], RG_BLACKLIST_WHITELISTED)
    <3>1. CASE k = n + 1
      <4>1. k # 0 /\ k - 1 = n /\ n \in 0..n
        BY <3>1
      <4>2. g[k] = raxInsert(f[n], list[k], RG_BLACKLIST_WHITELISTED)
        BY <2>2, <3>1
      <4>3. g[k - 1] = f[n]
        BY <2>3, <4>1
      <4> QED BY <4>1, <4>2, <4>3
    <3>2. CASE k # n + 1
      <4>1. k \in 0..n
        BY <3>2
      <4>2. f[k] = IF k = 0 THEN tree ELSE raxInsert(f[k - 1], list[k], RG_BLACKLIST_WHITELISTED)
        BY <2>1, <4>1
      <4>3. k # 0 => g[k - 1] = f[k - 1]
        <5>1. k # 0 => k - 1 \in 0..n
          BY <4>1
        <5> QED BY <2>3, <5>1
      <4> QED BY <2>3, <4>1, <4>2, <4>3
    <3> QED BY <3>1, <3>2
  <2>5. g = [k \in 0..(n + 1) |-> g[k]]
    BY <2>2
  <2>6. Is(n + 1, g)
    BY <2>4, <2>5
  <2> QED BY <2>6
<1>3. \A n \in Nat : n \in S
  <2>1. Nat \subseteq S
    <3> HIDE DEF S
    <3> QED BY <1>1, <1>2, NaturalInduction
  <2> QED BY <2>1
<1>4. Len(list) \in Nat
  OBVIOUS
<1>5. \E f : Is(Len(list), f)
  BY <1>3, <1>4
<1>6. PICK after : after = CHOOSE f : Is(Len(list), f)
  OBVIOUS
<1>7. Is(Len(list), after)
  BY <1>5, <1>6
<1>8. Registered(tree, list) = after[Len(list)]
  BY <1>6 DEF Registered
<1> QED BY <1>7, <1>8

(* Registering libraries only adds words, all of them whitelisted.         *)
LEMMA KeptRegistered ==
  ASSUME NEW tree, Kept(tree), \A w \in WordsOf(tree) : tree.nodes[w].data = RG_BLACKLIST_WHITELISTED,
         NEW list \in Seq(W \ {<<>>}), NEW t, t = Registered(tree, list)
  PROVE  /\ Kept(t) /\ \A w \in WordsOf(t) : t.nodes[w].data = RG_BLACKLIST_WHITELISTED
         /\ \A w \in WordsOf(tree) : w \in WordsOf(t)
<1>1. PICK after : /\ after = [k \in 0..Len(list) |-> IF k = 0 THEN tree
                                  ELSE raxInsert(after[k - 1], list[k], RG_BLACKLIST_WHITELISTED)]
                   /\ t = after[Len(list)]
  BY RegisteredIs
<1>2. Len(list) \in Nat /\ \A k \in 1..Len(list) : list[k] \in W /\ list[k] # <<>>
  OBVIOUS
<1>3. after[0] = tree
  <2>1. 0 \in 0..Len(list)
    BY <1>2
  <2> QED BY <1>1, <2>1
<1>4. ASSUME NEW n \in Nat, n + 1 <= Len(list)
      PROVE  after[n + 1] = raxInsert(after[n], list[n + 1], RG_BLACKLIST_WHITELISTED)
  <2>1. n + 1 \in 0..Len(list) /\ n + 1 # 0 /\ (n + 1) - 1 = n
    BY <1>2, <1>4
  <2>2. PICK m : m = n + 1
    OBVIOUS
  <2>3. after[m] = raxInsert(after[m - 1], list[m], RG_BLACKLIST_WHITELISTED)
    BY <1>1, <2>1, <2>2
  <2> QED BY <2>1, <2>2, <2>3
<1> DEFINE P(a) ==
      /\ Kept(a) /\ \A w \in WordsOf(a) : a.nodes[w].data = RG_BLACKLIST_WHITELISTED
      /\ \A w \in WordsOf(tree) : w \in WordsOf(a)
<1> DEFINE S == {n \in Nat : n <= Len(list) => P(after[n])}
<1>5. 0 \in S
  BY <1>3
<1>6. ASSUME NEW n \in Nat, n \in S PROVE n + 1 \in S
  <2>1. SUFFICES ASSUME n + 1 <= Len(list) PROVE P(after[n + 1])
    OBVIOUS
  <2>2. n <= Len(list) /\ n + 1 \in 1..Len(list)
    BY <1>2, <2>1
  <2>3. PICK a : a = after[n]
    OBVIOUS
  <2>4. P(a)
    BY <1>6, <2>2, <2>3
  <2>5. PICK s : s = list[n + 1]
    OBVIOUS
  <2>6. s \in W /\ s # <<>>
    BY <1>2, <2>2, <2>5
  <2>7. PICK b : b = raxInsert(a, s, RG_BLACKLIST_WHITELISTED)
    OBVIOUS
  <2>8. b = after[n + 1]
    BY <1>4, <2>1, <2>3, <2>5, <2>7
  <2>9. RG_BLACKLIST_WHITELISTED \in {RG_BLACKLIST_WHITELISTED, RG_BLACKLIST_BLACKLISTED} /\ RG_BLACKLIST_WHITELISTED \in Int
    BY DEF RG_BLACKLIST_WHITELISTED
  <2>10. Kept(b)
    BY <2>4, <2>6, <2>7, <2>9, KeptInsert
  <2>11. /\ \A x : x \in WordsOf(b) <=> x \in WordsOf(a) \/ x = s
         /\ b.nodes[s].data = RG_BLACKLIST_WHITELISTED
         /\ \A x \in WordsOf(a) : x # s => b.nodes[x].data = a.nodes[x].data
    <3>1. Sound(a)
      BY <2>4 DEF Kept
    <3> QED BY <2>6, <2>7, <2>9, <3>1, InsertIs
  <2> HIDE DEF S
  <2> QED BY <2>4, <2>8, <2>10, <2>11
<1>7. \A n \in Nat : n \in S
  <2>1. Nat \subseteq S
    <3> HIDE DEF S
    <3> QED BY <1>5, <1>6, NaturalInduction
  <2> QED BY <2>1
<1>8. P(t)
  <2>1. PICK n : n = Len(list)
    OBVIOUS
  <2>2. n \in Nat /\ n <= Len(list)
    BY ONLY <1>2, <2>1
  <2>3. P(after[n])
    BY <1>7, <2>2
  <2>4. t = after[n]
    BY <1>1, <2>1
  <2> QED BY <2>3, <2>4
<1> QED BY <1>8

-----------------------------------------------------------------------------
(***************************************************************************)
(* 2. The trees, the decisions, the walk, and the table of rules.          *)
(***************************************************************************)

(* The invariant: every tree of the tracer is sound, and the libraries are *)
(* whitelisted.                                                            *)
TreesAreKept ==
  /\ Kept(fq) /\ Kept(paths) /\ Kept(methods) /\ Kept(all) /\ Kept(libraries)
  /\ \A w \in WordsOf(libraries) : libraries.nodes[w].data = RG_BLACKLIST_WHITELISTED

(* The verdicts that a rule can have.                                      *)
Verdict == {RG_BLACKLIST_WHITELISTED, RG_BLACKLIST_BLACKLISTED}

(* A full name is a word and not empty.                                    *)
LEMMA FullyQualifiedType ==
  ASSUME NEW p \in W, NEW m \in W
  PROVE  FullyQualified(p, m) \in W /\ FullyQualified(p, m) # <<>>
<1>1. PICK h : h = <<HASH>>
  OBVIOUS
<1>2. h \in W /\ Len(h) = 1
  BY <1>1 DEF HASH, W
<1>3. FullyQualified(p, m) = Join(Join(p, h), m)
  BY <1>1 DEF FullyQualified, Join
<1>4. PICK x : x = Join(p, h)
  OBVIOUS
<1>5. x \in W /\ Len(x) = Len(p) + 1 /\ Len(p) \in Nat /\ Len(m) \in Nat
  <2>1. x \in W /\ Len(x) = Len(p) + Len(h)
    BY <1>2, <1>4, JoinType
  <2>2. Len(p) \in Nat /\ Len(m) \in Nat
    BY WordType
  <2> QED BY ONLY <1>2, <2>1, <2>2
<1>6. PICK y : y = Join(x, m)
  OBVIOUS
<1>7. y \in W /\ Len(y) = Len(x) + Len(m)
  BY <1>5, <1>6, JoinType
<1>8. y # <<>>
  BY <1>5, <1>7, WordType
<1> QED BY <1>3, <1>4, <1>6, <1>7, <1>8

(* What the step of a rule does.                                           *)
Ruled(word, verdict) ==
  /\ \/ fq' = raxInsert(fq, word, verdict) /\ paths' = paths /\ methods' = methods
     \/ paths' = raxInsert(paths, word, verdict) /\ fq' = fq /\ methods' = methods
     \/ methods' = raxInsert(methods, word, verdict) /\ fq' = fq /\ paths' = paths
  /\ all' = raxInsert(all, word, verdict) /\ libraries' = libraries
  /\ decided' = [c \in {} |-> FALSE]

RuleWords == {r.path : r \in Rules} \union {r.method : r \in Rules}
               \union {FullyQualified(r.path, r.method) : r \in Rules}

(* The insertion of a rule is one into the tree of its kind, and one into  *)
(* the tree of all.                                                        *)
LEMMA RuleStep ==
  ASSUME NEW r \in Rules, NEW verdict, AddRule(r.path, r.method, verdict)
  PROVE  \E word \in RuleWords : word \in W /\ word # <<>> /\ Ruled(word, verdict)
<1>1. r.path \in W /\ r.method \in W
  BY RulesAssumption DEF Methods, Words, W
<1>2. FullyQualified(r.path, r.method) \in W /\ FullyQualified(r.path, r.method) # <<>>
  BY <1>1, FullyQualifiedType
<1>3. r.path # <<>> \/ r.method # <<>>
  BY DEF AddRule
<1>4. CASE r.path # <<>> /\ r.method # <<>>
  <2>1. Ruled(FullyQualified(r.path, r.method), verdict)
    BY <1>4 DEF AddRule, Ruled, FlushCaches
  <2> QED BY <1>2, <2>1 DEF RuleWords
<1>5. CASE r.path # <<>> /\ r.method = <<>>
  <2>1. Ruled(r.path, verdict)
    BY <1>5 DEF AddRule, Ruled, FlushCaches
  <2> QED BY <1>1, <1>5, <2>1 DEF RuleWords
<1>6. CASE r.path = <<>>
  <2>1. Ruled(r.method, verdict)
    BY <1>3, <1>6 DEF AddRule, Ruled, FlushCaches
  <2> QED BY <1>1, <1>3, <1>6, <2>1 DEF RuleWords
<1> QED BY <1>4, <1>5, <1>6

(* The steps of the tracer.                                                *)
LEMMA NextIs ==
  ASSUME [Next]_blacklistVars
  PROVE  \/ \E word \in RuleWords, verdict \in Verdict : word \in W /\ word # <<>> /\ Ruled(word, verdict)
         \/ \E list \in Libraries : RegisterLibraries(list)
         \/ \E c \in Calls : Call(c)
         \/ UNCHANGED blacklistVars
<1>1. ASSUME NEW r \in Rules, AddBlacklist(r.path, r.method)
      PROVE  \E word \in RuleWords, verdict \in Verdict : word \in W /\ word # <<>> /\ Ruled(word, verdict)
  <2>1. RG_BLACKLIST_BLACKLISTED \in Verdict
    BY DEF Verdict
  <2> QED BY <1>1, <2>1, RuleStep DEF AddBlacklist
<1>2. ASSUME NEW r \in Rules, AddWhitelist(r.path, r.method)
      PROVE  \E word \in RuleWords, verdict \in Verdict : word \in W /\ word # <<>> /\ Ruled(word, verdict)
  <2>1. RG_BLACKLIST_WHITELISTED \in Verdict
    BY DEF Verdict
  <2> QED BY <1>2, <2>1, RuleStep DEF AddWhitelist
<1> QED BY <1>1, <1>2 DEF Next

(* The paths of libraries are words.                                       *)
LEMMA LibraryWords ==
  ASSUME NEW list \in Libraries
  PROVE  list \in Seq(W \ {<<>>})
BY LibrariesAssumption DEF Words, W

(* The invariant holds at first and is kept by every step.                 *)
LEMMA TreesInit ==
  ASSUME Init
  PROVE  TreesAreKept
BY KeptNew, NewIs DEF Init, TreesAreKept

LEMMA TreesNext ==
  ASSUME TreesAreKept, [Next]_blacklistVars
  PROVE  TreesAreKept'
<1> USE DEF TreesAreKept
<1>1. ASSUME NEW word \in W, word # <<>>, NEW verdict \in Verdict, Ruled(word, verdict)
      PROVE  TreesAreKept'
  <2>1. \A tree : Kept(tree) => Kept(raxInsert(tree, word, verdict))
    BY <1>1, KeptInsert DEF Verdict
  <2> QED BY <1>1, <2>1 DEF Ruled
<1>2. ASSUME NEW list \in Libraries, RegisterLibraries(list)
      PROVE  TreesAreKept'
  <2>1. PICK t : t = Registered(libraries, list)
    OBVIOUS
  <2>2. Kept(t) /\ \A w \in WordsOf(t) : t.nodes[w].data = RG_BLACKLIST_WHITELISTED
    BY <2>1, LibraryWords, KeptRegistered
  <2> QED BY <1>2, <2>1, <2>2 DEF RegisterLibraries
<1>3. ASSUME NEW c \in Calls, Call(c) PROVE TreesAreKept'
  BY <1>3 DEF Call
<1>4. ASSUME UNCHANGED blacklistVars PROVE TreesAreKept'
  BY <1>4 DEF blacklistVars
<1> QED BY <1>1, <1>2, <1>3, <1>4, NextIs

(* However rules and libraries are added, every tree of the tracer is      *)
(* sound: the inductive invariant that all that follows rests on.          *)
THEOREM TreesStayKept == Spec => []TreesAreKept
<1>1. Init => TreesAreKept
  BY TreesInit
<1>2. TreesAreKept /\ [Next]_blacklistVars => TreesAreKept'
  BY TreesNext
<1> QED BY <1>1, <1>2, PTL DEF Spec

(* Whatever rules and libraries are added, in whatever order, every tree   *)
(* keeps the form its comments describe and its counters are right         *)
(* (raxGenericInsert and the functions it calls).                          *)
THEOREM TreesKeep == Spec => []TreesKeepTheirForm
<1>1. TreesAreKept => TreesKeepTheirForm
  BY SoundIsTree DEF TreesAreKept, TreesKeepTheirForm, Trees, Kept, Sound
<1> QED BY <1>1, TreesStayKept, PTL

(* No decision in the method table outlives the rules it was made under    *)
(* (rb_rg_flush_caches in rb_rg_tracer_blacklist_add0).                    *)
THEOREM Current == Spec => []DecisionsAreCurrent
<1>1. Init => DecisionsAreCurrent
  BY DEF Init, DecisionsAreCurrent
<1>2. DecisionsAreCurrent /\ [Next]_blacklistVars => DecisionsAreCurrent'
  <2> SUFFICES ASSUME DecisionsAreCurrent, [Next]_blacklistVars PROVE DecisionsAreCurrent'
    OBVIOUS
  <2>1. ASSUME fq' = fq, paths' = paths, methods' = methods, NEW c PROVE blacklisted_p(c.path, c.method)' = blacklisted_p(c.path, c.method)
    BY <2>1 DEF blacklisted_p, rb_rg_blacklisted_method_p, ByNamespace, ByPrefix
  <2>2. ASSUME NEW word, NEW verdict, Ruled(word, verdict) PROVE DecisionsAreCurrent'
    BY <2>2 DEF Ruled, DecisionsAreCurrent
  <2>3. ASSUME NEW list \in Libraries, RegisterLibraries(list) PROVE DecisionsAreCurrent'
    <3>1. fq' = fq /\ paths' = paths /\ methods' = methods /\ decided' = decided
      BY <2>3 DEF RegisterLibraries
    <3> QED BY <2>1, <3>1 DEF DecisionsAreCurrent
  <2>4. ASSUME NEW d \in Calls, Call(d) PROVE DecisionsAreCurrent'
    <3>1. /\ fq' = fq /\ paths' = paths /\ methods' = methods
          /\ decided' = [e \in DOMAIN decided \union {d} |->
                           IF e = d THEN blacklisted_p(d.path, d.method) ELSE decided[e]]
      BY <2>4 DEF Call
    <3>2. ASSUME NEW e \in DOMAIN decided' PROVE decided'[e] = blacklisted_p(e.path, e.method)
      BY <3>1 DEF DecisionsAreCurrent
    <3> QED BY <2>1, <3>1, <3>2 DEF DecisionsAreCurrent
  <2>5. ASSUME UNCHANGED blacklistVars PROVE DecisionsAreCurrent'
    <3>1. fq' = fq /\ paths' = paths /\ methods' = methods /\ decided' = decided
      BY <2>5 DEF blacklistVars
    <3> QED BY <2>1, <3>1 DEF DecisionsAreCurrent
  <2> QED BY <2>2, <2>3, <2>4, <2>5, NextIs
<1> QED BY <1>1, <1>2, PTL DEF Spec

(* What is looked up is a word.                                            *)
LEMMA NeedlesType == Needles \subseteq W
<1>1. \A c \in Queries : c.path \in W /\ c.method \in W
  BY CallsAssumption DEF Methods, Words, W
<1>2. \A c \in Queries : FullyQualified(c.path, c.method) \in W
  BY <1>1, FullyQualifiedType
<1> QED BY <1>1, <1>2 DEF Needles

(* The table of a tree.                                                    *)
LEMMA DictionaryIs ==
  ASSUME NEW tree
  PROVE  DOMAIN Dictionary(tree) = WordsOf(tree) /\ \A w \in WordsOf(tree) : Dictionary(tree)[w] = tree.nodes[w].data
BY DEF Dictionary

(* What WalkFindsTheRules says of one tree and one name.                   *)
FoundIn(tree, s, table, verdicts) ==
  /\ raxFind(tree, s) = (IF s \in DOMAIN table THEN table[s] ELSE raxNotFound)
  /\ rb_rg_blacklisted_string_p(tree, s) =
       (CASE RG_BLACKLIST_WHITELISTED \in verdicts -> RG_BLACKLIST_WHITELISTED
          [] verdicts = {RG_BLACKLIST_BLACKLISTED} -> RG_BLACKLIST_BLACKLISTED
          [] OTHER -> RG_BLACKLIST_UNLISTED)

Verdicts(table, s) == {table[w] : w \in RulesFor(s, table)}

(* It holds of every tree that is kept.                                    *)
LEMMA WalkVerdict ==
  ASSUME NEW tree, Kept(tree), NEW s \in W
  PROVE  FoundIn(tree, s, Dictionary(tree), Verdicts(Dictionary(tree), s))
<1>a. PICK table : table = Dictionary(tree)
  OBVIOUS
<1>b. PICK verdicts : verdicts = {table[w] : w \in RulesFor(s, table)}
  OBVIOUS
<1>1. DOMAIN table = WordsOf(tree) /\ \A w \in WordsOf(tree) : table[w] = tree.nodes[w].data
  BY <1>a, DictionaryIs
<1>2. raxFind(tree, s) = (IF s \in DOMAIN table THEN table[s] ELSE raxNotFound)
  BY <1>1, FindIs DEF Kept
<1>3. \A w \in WordsOf(tree) : w \in W /\ table[w] \in {RG_BLACKLIST_WHITELISTED, RG_BLACKLIST_BLACKLISTED}
  BY <1>1 DEF Kept
<1>4. \A w : w \in RulesFor(s, table) <=> w \in WordsOf(tree) /\ Begins(w, s)
  BY <1>1, <1>3, PrefixIs DEF RulesFor
<1>5. \A d : d \in verdicts <=> \E w \in WordsOf(tree) : Begins(w, s) /\ d = table[w]
  BY <1>4, <1>b
<1>6. PICK v : v = rb_rg_blacklisted_string_p(tree, s)
  OBVIOUS
<1>7. /\ v = RG_BLACKLIST_UNLISTED => \A w \in WordsOf(tree) : ~Begins(w, s)
      /\ v # RG_BLACKLIST_UNLISTED => \E w \in WordsOf(tree) : Begins(w, s) /\ v = tree.nodes[w].data
      /\ v = RG_BLACKLIST_BLACKLISTED =>
              \A w \in WordsOf(tree) : Begins(w, s) => tree.nodes[w].data # RG_BLACKLIST_WHITELISTED
  BY <1>6, VerdictIs
<1>8. ASSUME v = RG_BLACKLIST_UNLISTED PROVE FoundIn(tree, s, table, verdicts)
  <2>1. \A d : d \notin verdicts
    BY <1>5, <1>7, <1>8
  <2>2. RG_BLACKLIST_WHITELISTED \notin verdicts /\ verdicts # {RG_BLACKLIST_BLACKLISTED}
    BY <2>1
  <2> QED BY <1>2, <1>6, <1>8, <2>2 DEF FoundIn
<1>9. ASSUME v # RG_BLACKLIST_UNLISTED PROVE FoundIn(tree, s, table, verdicts)
  <2>1. v \in verdicts /\ v \in {RG_BLACKLIST_WHITELISTED, RG_BLACKLIST_BLACKLISTED}
    BY <1>1, <1>3, <1>5, <1>7, <1>9
  <2>2. CASE v = RG_BLACKLIST_WHITELISTED
    BY <1>2, <1>6, <2>1, <2>2 DEF FoundIn
  <2>3. CASE v = RG_BLACKLIST_BLACKLISTED
    <3>1. RG_BLACKLIST_WHITELISTED \notin verdicts
      BY <1>1, <1>5, <1>7, <2>3
    <3>2. verdicts = {RG_BLACKLIST_BLACKLISTED}
      BY <1>3, <1>5, <2>1, <2>3, <3>1
    <3> QED BY <1>2, <1>6, <2>3, <3>1, <3>2 DEF FoundIn
  <2> QED BY <2>1, <2>2, <2>3
<1>10. FoundIn(tree, s, table, verdicts)
  BY <1>8, <1>9
<1> QED BY <1>10, <1>a, <1>b DEF Verdicts

(* For every name looked up, raxFind and the walk with its stack find the  *)
(* rules that begin the name and no other (rb_rg_blacklisted_string_p).    *)
THEOREM WalkFinds == Spec => []WalkFindsTheRules
<1>1. TreesAreKept => WalkFindsTheRules
  <2> SUFFICES ASSUME TreesAreKept, NEW tree \in {paths, methods, libraries}, NEW s \in Needles
               PROVE  LET table == Dictionary(tree)
                          verdicts == {table[w] : w \in RulesFor(s, table)}
                      IN  /\ raxFind(tree, s) = (IF s \in DOMAIN table THEN table[s] ELSE raxNotFound)
                          /\ rb_rg_blacklisted_string_p(tree, s) =
                               (CASE RG_BLACKLIST_WHITELISTED \in verdicts -> RG_BLACKLIST_WHITELISTED
                                  [] verdicts = {RG_BLACKLIST_BLACKLISTED} -> RG_BLACKLIST_BLACKLISTED
                                  [] OTHER -> RG_BLACKLIST_UNLISTED)
    BY DEF WalkFindsTheRules
  <2>1. Kept(tree) /\ s \in W
    BY NeedlesType DEF TreesAreKept
  <2>2. FoundIn(tree, s, Dictionary(tree), Verdicts(Dictionary(tree), s))
    BY <2>1, WalkVerdict
  <2> QED BY ONLY <2>2 DEF FoundIn, Verdicts
<1> QED BY <1>1, TreesStayKept, PTL

(* The steps of the trees as steps of the table.                           *)
LEMMA NewDictionary == Dictionary(raxNew) = AsTable!NoRules
<1>1. WordsOf(raxNew) = {}
  BY NewIs
<1> QED BY <1>1 DEF Dictionary, AsTable!NoRules

LEMMA SetDictionary ==
  ASSUME NEW tree, Kept(tree), NEW word \in W, NEW verdict \in Verdict
  PROVE  Dictionary(raxInsert(tree, word, verdict)) = AsTable!Set(Dictionary(tree), word, verdict)
<1>1. verdict \in Int
  BY DEF Verdict, RG_BLACKLIST_WHITELISTED, RG_BLACKLIST_BLACKLISTED
<1>2. Dictionary(raxInsert(tree, word, verdict)) = Put(Dictionary(tree), word, verdict)
  BY <1>1, DictionaryInsert DEF Kept
<1> QED BY ONLY <1>2 DEF AsTable!Set, Put

(* The trees implement a table of rules: an insertion sets the verdict of  *)
(* its word in the tree of its kind and in that of all, and disturbs no    *)
(* other rule, whatever it splits or cuts.                                 *)
THEOREM RulesAreKept == Spec => RulesAreATable
<1>1. Init => AsTable!Init
  BY NewDictionary DEF Init, AsTable!Init
<1>2. TreesAreKept /\ [Next]_blacklistVars => [AsTable!Next]_AsTable!tableVars
  <2> SUFFICES ASSUME TreesAreKept, [Next]_blacklistVars PROVE [AsTable!Next]_AsTable!tableVars
    OBVIOUS
  <2>1. ASSUME NEW word \in RuleWords, NEW verdict \in Verdict, word \in W, Ruled(word, verdict)
        PROVE  AsTable!AddRule(word, verdict)
    <3>1. \A tree : Kept(tree) => Dictionary(raxInsert(tree, word, verdict)) = AsTable!Set(Dictionary(tree), word, verdict)
      BY <2>1, SetDictionary
    <3> QED BY <2>1, <3>1 DEF TreesAreKept, Ruled, AsTable!AddRule
  <2>2. ASSUME NEW list \in Libraries, RegisterLibraries(list) PROVE AsTable!RegisterLibraries
    <3>1. PICK t : t = Registered(libraries, list)
      OBVIOUS
    <3>2. /\ \A w \in WordsOf(t) : t.nodes[w].data = RG_BLACKLIST_WHITELISTED
          /\ \A w \in WordsOf(libraries) : w \in WordsOf(t) /\ libraries.nodes[w].data = RG_BLACKLIST_WHITELISTED
      BY <3>1, LibraryWords, KeptRegistered DEF TreesAreKept
    <3>3. AsTable!IsRestriction(Dictionary(libraries), Dictionary(t))
      BY <3>2, DictionaryIs DEF AsTable!IsRestriction
    <3>4. libraries' = t /\ UNCHANGED <<fq, paths, methods, all>>
      BY <2>2, <3>1 DEF RegisterLibraries
    <3> QED BY <3>3, <3>4 DEF AsTable!RegisterLibraries
  <2>3. ASSUME NEW c \in Calls, Call(c) PROVE UNCHANGED AsTable!tableVars
    BY <2>3 DEF Call, AsTable!tableVars
  <2>4. ASSUME UNCHANGED blacklistVars PROVE UNCHANGED AsTable!tableVars
    BY <2>4 DEF blacklistVars, AsTable!tableVars
  <2> QED BY <2>1, <2>2, <2>3, <2>4, NextIs DEF AsTable!Next, RuleWords, Verdict
<1> QED BY <1>1, <1>2, TreesStayKept, PTL DEF Spec, RulesAreATable, AsTable!Spec

-----------------------------------------------------------------------------
(***************************************************************************)
(* 3. The iterator and the verdicts.                                       *)
(***************************************************************************)

(* The seek and the step of the iterator in the terms of                   *)
(* IterationIsInOrder.                                                     *)
LEMMA LastIsFound ==
  ASSUME NEW tree, Sound(tree), NEW s \in W
  PROVE  IsLastOf(raxNext(tree, raxSeekLE(tree, s)), {w \in WordsOf(tree) : ~Before(s, w)})
<1>1. PICK it : it = raxNext(tree, raxSeekLE(tree, s))
  OBVIOUS
<1>2. PICK S : S = {w \in WordsOf(tree) : ~Before(s, w)}
  OBVIOUS
<1>3. \A w : w \in S <=> w \in WordsOf(tree) /\ ~Before(s, w)
  BY ONLY <1>2
<1>4. FoundLast(tree, s, it)
  BY <1>1, SeekIs
<1>5. ASSUME NEW y \in WordsOf(tree), NEW d, it = Stand(y, d), ~Before(s, y),
             \A v \in WordsOf(tree) : ~Before(s, v) => ~Before(y, v)
      PROVE  IsLastOf(it, S)
  <2>1. StandsOn(it, y)
    <3>1. it.key = y /\ it.node = y /\ it.eof = FALSE
      BY ONLY <1>5, StandIs, StandGoes
    <3> QED BY ONLY <3>1 DEF StandsOn
  <2>2. y \in S /\ \A v \in S : ~Before(y, v)
    BY ONLY <1>3, <1>5
  <2> QED BY ONLY <2>1, <2>2 DEF IsLastOf
<1>6. ASSUME it.eof = TRUE, \A v \in WordsOf(tree) : Before(s, v)
      PROVE  IsLastOf(it, S)
  <2>1. S = {}
    BY ONLY <1>3, <1>6
  <2> QED BY ONLY <1>6, <2>1 DEF IsLastOf
<1>7. IsLastOf(it, S)
  BY ONLY <1>4, <1>5, <1>6 DEF FoundLast
<1> QED BY ONLY <1>1, <1>2, <1>7

LEMMA FirstIsFound ==
  ASSUME NEW tree, Sound(tree), NEW p \in WordsOf(tree)
  PROVE  IsFirstOf(raxNext(tree, Iterator(p, p)), {w \in WordsOf(tree) : Before(p, w)})
<1>1. Iterator(p, p) = Stand(p, NoData) /\ NoData \in Int
  BY DEF Iterator, Stand, Place, NoData
<1>2. PICK it : it = raxNext(tree, Stand(p, NoData))
  OBVIOUS
<1>3. PICK S : S = {w \in WordsOf(tree) : Before(p, w)}
  OBVIOUS
<1>4. \A w : w \in S <=> w \in WordsOf(tree) /\ Before(p, w)
  BY ONLY <1>3
<1>5. FoundNext(tree, p, NoData, it)
  BY <1>1, <1>2, StepIs
<1>6. ASSUME NEW y \in WordsOf(tree), NEW d, it = Stand(y, d), Before(p, y),
             \A v \in WordsOf(tree) : Before(p, v) => ~Before(v, y)
      PROVE  IsFirstOf(it, S)
  <2>1. StandsOn(it, y)
    <3>1. it.key = y /\ it.node = y /\ it.eof = FALSE
      BY ONLY <1>6, StandIs, StandGoes
    <3> QED BY ONLY <3>1 DEF StandsOn
  <2>2. y \in S /\ \A v \in S : ~Before(v, y)
    BY ONLY <1>4, <1>6
  <2> QED BY ONLY <2>1, <2>2 DEF IsFirstOf
<1>7. ASSUME it = Ended(p, NoData), \A v \in WordsOf(tree) : ~Before(p, v)
      PROVE  IsFirstOf(it, S)
  <2>1. S = {}
    BY ONLY <1>4, <1>7
  <2>2. it.eof = TRUE
    BY <1>7 DEF Ended
  <2> QED BY ONLY <2>1, <2>2 DEF IsFirstOf
<1>8. IsFirstOf(it, S)
  BY ONLY <1>5, <1>6, <1>7 DEF FoundNext
<1> QED BY ONLY <1>1, <1>2, <1>3, <1>8

(* The scan of the path rules starts at the last one that is not after the *)
(* path, and goes through them in the order of their bytes (raxSeek with   *)
(* "<=", raxNext).                                                         *)
THEOREM InOrder == Spec => []IterationIsInOrder
<1>1. TreesAreKept => IterationIsInOrder
  <2>1. SUFFICES ASSUME TreesAreKept PROVE IterationIsInOrder
    OBVIOUS
  <2>2. Sound(paths)
    BY <2>1 DEF TreesAreKept, Kept
  <2>3. \A s \in Needles : IsLastOf(raxNext(paths, raxSeekLE(paths, s)), {w \in WordsOf(paths) : ~Before(s, w)})
    BY <2>2, NeedlesType, LastIsFound
  <2>4. \A w \in WordsOf(paths) : IsFirstOf(raxNext(paths, Iterator(w, w)), {v \in WordsOf(paths) : Before(w, v)})
    BY <2>2, FirstIsFound
  <2> QED BY ONLY <2>3, <2>4 DEF IterationIsInOrder
<1> QED BY <1>1, TreesStayKept, PTL
-----------------------------------------------------------------------------

(* The first of four lookups that finds a rule.                            *)
LEMMA FirstFoundIs ==
  ASSUME NEW a, NEW b, NEW c, NEW d, NEW o
  PROVE  FirstFound(<<a, b, c, d>>, o)
           = IF a # raxNotFound THEN a ELSE IF b # raxNotFound THEN b
             ELSE IF c # raxNotFound THEN c ELSE IF d # raxNotFound THEN d ELSE o
<1>1. PICK x : x = <<a, b, c, d>>
  OBVIOUS
<1>2. DOMAIN x = 1..4 /\ x[1] = a /\ x[2] = b /\ x[3] = c /\ x[4] = d
  BY ONLY <1>1
<1>3. PICK S : S = {k \in DOMAIN x : x[k] # raxNotFound}
  OBVIOUS
<1>4. \A k : k \in S <=> k \in {1, 2, 3, 4} /\ x[k] # raxNotFound
  BY ONLY <1>2, <1>3
<1>5. FirstFound(x, o) = IF S = {} THEN o ELSE x[Min(S)]
  BY ONLY <1>3 DEF FirstFound
<1>6. CASE S = {}
  BY ONLY <1>1, <1>2, <1>4, <1>5, <1>6
<1>7. CASE S # {}
  <2>1. S \subseteq Nat
    BY ONLY <1>4
  <2>2. PICK m : m = Min(S)
    OBVIOUS
  <2>3. m \in S /\ \A n \in S : m <= n
    BY ONLY <1>7, <2>1, <2>2, MinIs
  <2>4. FirstFound(x, o) = x[m]
    BY ONLY <1>5, <1>7, <2>2
  <2> QED BY ONLY <1>1, <1>2, <1>4, <2>3, <2>4
<1> QED BY <1>6, <1>7

(* The scan of the path rules after some of its steps.                     *)
Scanning(tree, it) ==
  \/ \E q \in WordsOf(tree) : \E d \in {NoData, tree.nodes[q].data} : it = Stand(q, d)
  \/ \E q \in WordsOf(tree), d \in Int : it = Ended(q, d)

(* A turn of the scan.                                                     *)
LEMMA ScanStep ==
  ASSUME NEW tree, Sound(tree), NEW it, Scanning(tree, it)
  PROVE  it \in Iterators(tree.nodes) /\ Scanning(tree, raxNext(tree, it))
<1>1. \A q \in WordsOf(tree) : q \in W /\ q \in DOMAIN tree.nodes /\ tree.nodes[q].data \in Int
  BY WordsAreWords, FormType DEF Sound
<1>2. NoData \in Int
  BY DEF NoData
<1>3. ASSUME NEW q \in WordsOf(tree), NEW d \in {NoData, tree.nodes[q].data}, it = Stand(q, d)
      PROVE  it \in Iterators(tree.nodes) /\ Scanning(tree, raxNext(tree, it))
  <2>1. d \in Int
    BY <1>1, <1>2
  <2>2. it \in Iterators(tree.nodes)
    BY <1>1, <1>3, <2>1, StandType
  <2>3. FoundNext(tree, q, d, raxNext(tree, it))
    BY <1>3, <2>1, StepIs
  <2>4. Scanning(tree, raxNext(tree, it))
    BY ONLY <2>1, <2>3, q \in WordsOf(tree) DEF FoundNext, Scanning
  <2> QED BY <2>2, <2>4
<1>4. ASSUME NEW q \in WordsOf(tree), NEW d \in Int, it = Ended(q, d)
      PROVE  it \in Iterators(tree.nodes) /\ Scanning(tree, raxNext(tree, it))
  <2>1. it \in Iterators(tree.nodes) /\ it.eof = TRUE
    BY <1>1, <1>4, EndedType
  <2>2. raxNext(tree, it) = it
    <3>1. it.eof
      BY ONLY <2>1
    <3> QED BY ONLY <3>1 DEF raxNext
  <2> QED BY ONLY <2>1, <2>2, Scanning(tree, it)
<1> QED BY <1>3, <1>4 DEF Scanning

(* The scan finds no rule, or one that it stands on.                       *)
LEMMA ScanIs ==
  ASSUME NEW tree, Sound(tree), NEW path \in W, NEW name, NEW v, v = ScanPaths(tree, path, name), v # raxNotFound
  PROVE  v = NoData \/ \E w \in WordsOf(tree) : IsNamespaceRule(w) /\ IsPrefix(w, name) /\ v = tree.nodes[w].data
<1>1. PICK F : F = [it \in Iterators(tree.nodes) |-> raxNext(tree, it)]
  OBVIOUS
<1>2. PICK first : first = raxNext(tree, raxSeekLE(tree, path))
  OBVIOUS
<1>3. PICK at : at = Iterate(F, first)
  OBVIOUS
<1>4. at[0] = first /\ \A k \in Nat : at[k + 1] = F[at[k]]
  BY <1>3, IterateDef
<1>5. PICK hits : hits = {k \in 0..tree.numele : /\ \A l \in 0..k : ~ScanEnds(at[l], path)
                                                 /\ IsNamespaceRule(at[k].key) /\ IsPrefix(at[k].key, name)}
  OBVIOUS
<1>6. v = IF hits = {} THEN raxNotFound ELSE at[Min(hits)].data
  BY ONLY <1>1, <1>2, <1>3, <1>5, v = ScanPaths(tree, path, name) DEF ScanPaths
<1>7. PICK m : m = Min(hits)
  OBVIOUS
<1>8. m \in hits /\ v = at[m].data
  <2>1. hits # {}
    BY ONLY <1>6, v # raxNotFound
  <2>2. hits \subseteq Nat
    BY ONLY <1>5
  <2>3. Min(hits) \in hits
    BY ONLY <2>1, <2>2, MinIs
  <2> QED BY ONLY <1>6, <1>7, <2>1, <2>3
<1>9. /\ m \in Nat /\ ~ScanEnds(at[0], path) /\ ~ScanEnds(at[m], path)
      /\ IsNamespaceRule(at[m].key) /\ IsPrefix(at[m].key, name)
  <2>1. m \in Nat /\ 0 \in 0..m /\ m \in 0..m
    BY ONLY <1>5, <1>8
  <2> QED BY ONLY <1>5, <1>8, <2>1
<1>10. ~at[0].eof /\ ~at[m].eof
  BY ONLY <1>9 DEF ScanEnds
<1>11. Scanning(tree, at[0])
  <2>1. FoundLast(tree, path, first)
    BY <1>2, SeekIs
  <2> QED BY ONLY <1>4, <1>10, <2>1 DEF FoundLast, Scanning
<1>12. Scanning(tree, at[m])
  <2> DEFINE S == {k \in Nat : Scanning(tree, at[k])}
  <2>1. 0 \in S
    BY <1>11
  <2>2. ASSUME NEW k \in Nat, k \in S PROVE k + 1 \in S
    <3>1. Scanning(tree, at[k])
      BY <2>2
    <3>2. at[k] \in Iterators(tree.nodes) /\ Scanning(tree, raxNext(tree, at[k]))
      BY <3>1, ScanStep
    <3>3. at[k + 1] = raxNext(tree, at[k])
      BY ONLY <1>1, <1>4, <3>2, k \in Nat
    <3> QED BY <3>2, <3>3
  <2>3. \A k \in S : Scanning(tree, at[k])
    OBVIOUS
  <2> HIDE DEF S
  <2>4. Nat \subseteq S
    BY ONLY <2>1, <2>2, NaturalInduction
  <2> QED BY <1>9, <2>3, <2>4
<1>13. ASSUME NEW q \in WordsOf(tree), NEW d \in {NoData, tree.nodes[q].data}, at[m] = Stand(q, d)
       PROVE  v = NoData \/ \E w \in WordsOf(tree) : IsNamespaceRule(w) /\ IsPrefix(w, name) /\ v = tree.nodes[w].data
  <2>1. at[m].key = q /\ at[m].data = d
    BY ONLY <1>13, StandIs
  <2>2. IsNamespaceRule(q) /\ IsPrefix(q, name) /\ v = d
    BY ONLY <1>8, <1>9, <2>1
  <2> QED BY ONLY <1>13, <2>2
<1>14. ASSUME NEW q \in WordsOf(tree), NEW d \in Int, at[m] = Ended(q, d) PROVE FALSE
  <2>1. at[m].eof = TRUE
    BY <1>14 DEF Ended
  <2> QED BY ONLY <1>10, <2>1
<1> QED BY ONLY <1>12, <1>13, <1>14 DEF Scanning

(* A verdict and the rule it comes from.                                   *)
LEMMA VerdictRule ==
  ASSUME TreesAreKept, NEW c \in Queries, NEW verdict,
         verdict = rb_rg_blacklisted_method_p(c.path, c.method), verdict # RG_BLACKLIST_UNLISTED
  PROVE  verdict \in Covers(c)
<1>1. PICK name : name = FullyQualified(c.path, c.method)
  OBVIOUS
<1>2. c.path \in W /\ c.method \in W /\ name \in W
  BY <1>1, CallsAssumption, FullyQualifiedType DEF Methods, Words, W
<1>3. Kept(fq) /\ Kept(paths) /\ Kept(methods) /\ Sound(fq) /\ Sound(paths) /\ Sound(methods)
  BY DEF TreesAreKept, Kept
<1>4. PICK a : a = raxFind(fq, name)
  OBVIOUS
<1>5. PICK b : b = raxFind(paths, c.path)
  OBVIOUS
<1>6. PICK d : d = raxFind(methods, c.method)
  OBVIOUS
<1>7. PICK n : n = ByNamespace(c.path, name)
  OBVIOUS
<1>8. PICK o : o = ByPrefix(c.path, c.method)
  OBVIOUS
<1>9. verdict = IF a # raxNotFound THEN a ELSE IF b # raxNotFound THEN b
                ELSE IF d # raxNotFound THEN d ELSE IF n # raxNotFound THEN n ELSE o
  <2>1. verdict = FirstFound(<<a, b, d, n>>, o)
    BY ONLY <1>1, <1>4, <1>5, <1>6, <1>7, <1>8, verdict = rb_rg_blacklisted_method_p(c.path, c.method)
       DEF rb_rg_blacklisted_method_p
  <2> QED BY ONLY <2>1, FirstFoundIs
<1>10. PICK F : F = Dictionary(fq)
  OBVIOUS
<1>11. PICK P : P = Dictionary(paths)
  OBVIOUS
<1>12. PICK M : M = Dictionary(methods)
  OBVIOUS
<1>13. /\ DOMAIN F = WordsOf(fq) /\ \A w \in WordsOf(fq) : F[w] = fq.nodes[w].data
       /\ DOMAIN P = WordsOf(paths) /\ \A w \in WordsOf(paths) : P[w] = paths.nodes[w].data
       /\ DOMAIN M = WordsOf(methods) /\ \A w \in WordsOf(methods) : M[w] = methods.nodes[w].data
  BY <1>10, <1>11, <1>12, DictionaryIs
<1>14. PICK exact : exact = IF name \in DOMAIN F THEN {F[name]} ELSE IF c.path \in DOMAIN P THEN {P[c.path]}
                            ELSE IF c.method \in DOMAIN M THEN {M[c.method]} ELSE {}
  OBVIOUS
<1>15. PICK others : others = {P[w] : w \in {v \in DOMAIN P : (IsNamespaceRule(v) /\ IsPrefix(v, name)) \/ IsPrefix(v, c.path)}}
                                \union {M[w] : w \in RulesFor(c.method, M)}
  OBVIOUS
<1>16. Covers(c) = IF exact # {} THEN exact ELSE others
  BY ONLY <1>1, <1>10, <1>11, <1>12, <1>14, <1>15 DEF Covers
<1>17. /\ a = IF name \in DOMAIN F THEN F[name] ELSE raxNotFound
       /\ b = IF c.path \in DOMAIN P THEN P[c.path] ELSE raxNotFound
       /\ d = IF c.method \in DOMAIN M THEN M[c.method] ELSE raxNotFound
  BY <1>2, <1>3, <1>4, <1>5, <1>6, <1>13, FindIs
<1>18. /\ \A w \in DOMAIN F : F[w] # raxNotFound
       /\ \A w \in DOMAIN P : P[w] # raxNotFound
       /\ \A w \in DOMAIN M : M[w] # raxNotFound
  BY <1>3, <1>13 DEF Kept, RG_BLACKLIST_WHITELISTED, RG_BLACKLIST_BLACKLISTED, raxNotFound
<1>19. CASE exact # {}
  <2>1. verdict \in exact
    BY ONLY <1>9, <1>14, <1>17, <1>18, <1>19
  <2> QED BY ONLY <1>16, <1>19, <2>1
<1>20. CASE exact = {}
  <2>1. a = raxNotFound /\ b = raxNotFound /\ d = raxNotFound
    BY ONLY <1>14, <1>17, <1>20
  <2>2. CASE n # raxNotFound
    <3>1. verdict = n
      BY ONLY <1>9, <2>1, <2>2
    <3>2. n = ScanPaths(paths, c.path, name)
      BY ONLY <1>7 DEF ByNamespace
    <3>3. n = NoData \/ \E w \in WordsOf(paths) : IsNamespaceRule(w) /\ IsPrefix(w, name) /\ n = paths.nodes[w].data
      BY <1>2, <1>3, <2>2, <3>2, ScanIs
    <3>4. n # NoData
      BY ONLY <3>1, verdict # RG_BLACKLIST_UNLISTED DEF NoData, RG_BLACKLIST_UNLISTED
    <3>5. PICK w \in DOMAIN P : IsNamespaceRule(w) /\ IsPrefix(w, name) /\ verdict = P[w]
      BY ONLY <1>13, <3>1, <3>3, <3>4
    <3>6. verdict \in others
      BY ONLY <1>15, <3>5
    <3> QED BY ONLY <1>16, <1>20, <3>6
  <2>3. CASE n = raxNotFound
    <3>1. verdict = o
      BY ONLY <1>9, <2>1, <2>3
    <3>2. PICK x : x = rb_rg_blacklisted_string_p(paths, c.path)
      OBVIOUS
    <3>3. PICK y : y = rb_rg_blacklisted_string_p(methods, c.method)
      OBVIOUS
    <3>4. verdict = IF x # RG_BLACKLIST_UNLISTED THEN x ELSE y
      BY ONLY <1>8, <3>1, <3>2, <3>3 DEF ByPrefix
    <3>5. CASE x # RG_BLACKLIST_UNLISTED
      <4>1. PICK w \in WordsOf(paths) : Begins(w, c.path) /\ x = paths.nodes[w].data
        BY <1>2, <1>3, <3>2, <3>5, VerdictIs
      <4>2. w \in DOMAIN P /\ verdict = P[w]
        BY ONLY <1>13, <3>4, <3>5, <4>1
      <4>3. IsPrefix(w, c.path)
        BY <1>2, <1>3, <4>1, WordsAreWords, PrefixIs
      <4>4. verdict \in others
        BY ONLY <1>15, <4>2, <4>3
      <4> QED BY ONLY <1>16, <1>20, <4>4
    <3>6. CASE x = RG_BLACKLIST_UNLISTED
      <4>1. verdict = y /\ y # RG_BLACKLIST_UNLISTED
        BY ONLY <3>4, <3>6, verdict # RG_BLACKLIST_UNLISTED
      <4>2. PICK w \in WordsOf(methods) : Begins(w, c.method) /\ y = methods.nodes[w].data
        BY <1>2, <1>3, <3>3, <4>1, VerdictIs
      <4>3. w \in DOMAIN M /\ verdict = M[w]
        BY ONLY <1>13, <4>1, <4>2
      <4>4. IsPrefix(w, c.method)
        BY <1>2, <1>3, <4>2, WordsAreWords, PrefixIs
      <4>5. w \in RulesFor(c.method, M)
        BY ONLY <4>3, <4>4 DEF RulesFor
      <4>6. verdict \in others
        BY ONLY <1>15, <4>3, <4>5
      <4> QED BY ONLY <1>16, <1>20, <4>6
    <3> QED BY <3>5, <3>6
  <2> QED BY <2>2, <2>3
<1> QED BY <1>19, <1>20

(* Every verdict is that of a rule which covers the method, and a rule for *)
(* its full name comes before one for its path or its name                 *)
(* (rb_rg_blacklisted_method_p).                                           *)
THEOREM VerdictRuled == Spec => []VerdictHasItsRule
<1>1. TreesAreKept => VerdictHasItsRule
  <2>1. ASSUME TreesAreKept, NEW c \in Queries
        PROVE  rb_rg_blacklisted_method_p(c.path, c.method) \in {RG_BLACKLIST_UNLISTED} \union Covers(c)
    <3>1. PICK verdict : verdict = rb_rg_blacklisted_method_p(c.path, c.method)
      OBVIOUS
    <3>2. verdict # RG_BLACKLIST_UNLISTED => verdict \in Covers(c)
      BY <2>1, <3>1, VerdictRule
    <3> QED BY <3>1, <3>2, Zenon
  <2> QED BY <2>1 DEF VerdictHasItsRule
<1> QED BY <1>1, TreesStayKept, PTL
=============================================================================
