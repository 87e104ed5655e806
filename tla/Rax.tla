-------------------------------- MODULE Rax --------------------------------
(***************************************************************************)
(* The radix tree that holds the filter rules: lookup, insertion, and the  *)
(* iterator as far as the tracer uses it (seek "<=", then next).           *)
(*                                                                         *)
(* The address of a node is the word its edges from the head spell, so a   *)
(* pointer to a child is the address of its parent and the edge between    *)
(* them, and a tree is a function from addresses to nodes.  A compressed   *)
(* node is an edge of several characters to its only child.  Words are     *)
(* sequences of numbers, ordered as the bytes they stand for.  Allocation  *)
(* is taken to succeed.                                                    *)
(***************************************************************************)
EXTENDS Integers, Sequences, SequencesExt

NoData == 0        \* a null pointer
raxNotFound == -1  \* an address no data has

Node(iskey, data, iscompr, chars) ==
  [iskey |-> iskey, data |-> data, iscompr |-> iscompr, chars |-> chars]

NewNode == Node(FALSE, NoData, FALSE, <<>>)
Root == <<>>
raxNew == [nodes |-> [p \in {Root} |-> NewNode], numele |-> 0, numnodes |-> 1]

(* The word up to a position, and from it on.                              *)
Upto(s, i) == SubSeq(s, 1, i)
Rest(s, i) == SubSeq(s, i + 1, Len(s))

Degree(n) == IF n.iscompr THEN 1 ELSE Len(n.chars)
Edge(n, at) == IF n.iscompr THEN n.chars ELSE <<n.chars[at]>>
Child(nodes, p, at) == p \o Edge(nodes[p], at)

With(nodes, p, n) == [q \in DOMAIN nodes \union {p} |-> IF q = p THEN n ELSE nodes[q]]

SetData(n, data) == [n EXCEPT !.iskey = TRUE, !.data = data]

(* A new edge goes before the first with a greater character.              *)
AddChildFirst(n, c) == [n EXCEPT !.chars = <<c>> \o n.chars]

AddChild(n, c) ==
  LET pos == Min({k \in 1..(Len(n.chars) + 1) : k > Len(n.chars) \/ n.chars[k] > c})
  IN  [n EXCEPT !.chars = InsertAt(n.chars, pos, c)]

CompressNode(n, chars) == [n EXCEPT !.iscompr = TRUE, !.chars = chars]

(* A loop whose turn is F, from x on.                                      *)
Iterate(F, x) == LET at[k \in Nat] == IF k = 0 THEN x ELSE F[at[k - 1]] IN at
-----------------------------------------------------------------------------
(* raxLowWalk: i characters of s matched; h is the node where the walk     *)
(* stopped, j the position in it when it is compressed; path is the nodes  *)
(* it went through, h and those on its stack.                              *)
MatchIn(h, rest) ==
  Min({m \in 0..Len(h.chars) :
         m <= Len(rest) /\ (m = Len(h.chars) \/ m = Len(rest) \/ h.chars[m + 1] # rest[m + 1])})

WalkTurn(nodes, s, i) ==
  LET h == nodes[Upto(s, i)]
      finds == IF h.iscompr THEN MatchIn(h, Rest(s, i)) = Len(h.chars) ELSE Contains(h.chars, s[i + 1])
  IN  IF h.chars # <<>> /\ i < Len(s) /\ finds THEN i + Len(Edge(h, 1)) ELSE i

raxLowWalk(tree, s) ==
  LET at == Iterate([i \in 0..Len(s) |-> WalkTurn(tree.nodes, s, i)], 0)
      end == at[Len(s)]
      h == tree.nodes[Upto(s, end)]
      j == IF h.iscompr THEN MatchIn(h, Rest(s, end)) ELSE 0
  IN  [i |-> end + j, j |-> j, h |-> Upto(s, end), path |-> {Upto(s, at[k]) : k \in 0..Len(s)}]

IsNodeOf(tree, w, s) == w.i = Len(s) /\ (tree.nodes[w.h].iscompr => w.j = 0)

raxFind(tree, s) ==
  LET w == raxLowWalk(tree, s)
      h == tree.nodes[w.h]
  IN  IF IsNodeOf(tree, w, s) /\ h.iskey THEN h.data ELSE raxNotFound

(* The nodes for the characters that are left, under the node at p.        *)
Begin(n, s) == IF Len(s) > 1 THEN CompressNode(n, s) ELSE AddChild(n, s[1])

Extend(nodes, p, s, data) ==
  LET h == nodes[p]
      last == With(nodes, p \o s, SetData(NewNode, data))
  IN  CASE s = <<>> -> With(nodes, p, SetData(h, data))
        [] s # <<>> /\ h.chars = <<>> -> With(last, p, Begin(h, s))
        [] s # <<>> /\ h.chars # <<>> ->
             With(IF Len(s) = 1 THEN last ELSE With(last, p \o <<s[1]>>, Begin(NewNode, Tail(s))),
                  p, AddChild(h, s[1]))

NodesAdded(h, s) ==
  CASE s = <<>> -> 0
    [] s # <<>> /\ (h.chars = <<>> \/ Len(s) = 1) -> 1
    [] s # <<>> /\ h.chars # <<>> /\ Len(s) # 1 -> 2

(* Splitting the compressed node h at j, the position of the mismatch.     *)
BeginningAlone(h, j) == Node(FALSE, NoData, j > 1, Upto(h.chars, j))
Beginning(h, j) == Node(h.iskey, h.data, j > 1, Upto(h.chars, j))
Postfix(h, j) == Node(FALSE, NoData, Len(h.chars) - j > 1, Rest(h.chars, j))
SplitNode(h, j) == Node(j = 0 /\ h.iskey, IF j = 0 THEN h.data ELSE NoData, FALSE, <<h.chars[j + 1]>>)

SplitAt(nodes, p, j) ==
  LET h == nodes[p]
      trimmed == IF j = 0 THEN nodes ELSE With(nodes, p, Beginning(h, j))
      split == With(trimmed, p \o Upto(h.chars, j), SplitNode(h, j))
  IN  IF j + 1 = Len(h.chars) THEN split ELSE With(split, p \o Upto(h.chars, j + 1), Postfix(h, j + 1))

CutAt(nodes, p, j) ==
  LET h == nodes[p]
  IN  With(With(nodes, p, Beginning(h, j)), p \o Upto(h.chars, j), Postfix(h, j))

(* raxGenericInsert with overwrite.                                        *)
InsertedNodes(tree, w, s, data) ==
  LET compr == tree.nodes[w.h].iscompr
      rest == Rest(s, w.i)
      at == w.h \o Upto(tree.nodes[w.h].chars, w.j)
  IN  CASE rest # <<>> /\ compr -> Extend(SplitAt(tree.nodes, w.h, w.j), at, rest, data)
        [] rest = <<>> /\ compr /\ w.j # 0 -> Extend(CutAt(tree.nodes, w.h, w.j), at, rest, data)
        [] OTHER -> Extend(tree.nodes, w.h, rest, data)

NewNodes(h, j, rest) ==
  CASE rest # <<>> /\ h.iscompr ->
         (IF j = 0 THEN 0 ELSE 1) + (IF j + 1 = Len(h.chars) THEN 0 ELSE 1)
            + NodesAdded(SplitNode(h, j), rest)
    [] rest = <<>> /\ h.iscompr /\ j # 0 -> 1
    [] OTHER -> NodesAdded(h, rest)

raxInsert(tree, s, data) ==
  LET w == raxLowWalk(tree, s)
      h == tree.nodes[w.h]
      present == IsNodeOf(tree, w, s) /\ h.iskey
  IN  [nodes |-> InsertedNodes(tree, w, s, data),
       numele |-> tree.numele + (IF present THEN 0 ELSE 1),
       numnodes |-> tree.numnodes + NewNodes(h, w.j, Rest(s, w.i))]
-----------------------------------------------------------------------------
(* The iterator: the key and the data it stands on, and the node; its      *)
(* stack is the nodes above that one.                                      *)
Iterator(key, node) == [key |-> key, node |-> node, data |-> NoData, eof |-> FALSE, seeked |-> FALSE]

Iterators(nodes) == [key : Seq(Nat), node : DOMAIN nodes, data : Int, eof : BOOLEAN, seeked : BOOLEAN]

(* No loop of the iterator takes more turns than this: each goes down or   *)
(* up by an edge.                                                          *)
Depth(nodes) == Max({Len(p) : p \in DOMAIN nodes})

EdgeLenOne(n) == 1
EdgeLen(n) == IF n.iscompr THEN Len(n.chars) ELSE 1

Parent(nodes, p) == Upto(p, Max({k \in 0..(Len(p) - 1) : Upto(p, k) \in DOMAIN nodes}))

GoDown(nodes, it, at) ==
  [it EXCEPT !.key = it.key \o Edge(nodes[it.node], at), !.node = Child(nodes, it.node, at)]
CutKey(nodes, it) == [it EXCEPT !.key = Upto(it.key, Len(it.key) - EdgeLen(nodes[it.node]))]
GoUp(nodes, it) == CutKey(nodes, [it EXCEPT !.node = Parent(nodes, it.node)])

AtKey(nodes, it) == [it EXCEPT !.data = nodes[it.node].data]
AtEnd(it) == [it EXCEPT !.eof = TRUE]

raxSeekGreatest(nodes, it) ==
  LET turn == [x \in Iterators(nodes) |->
                 IF nodes[x.node].chars = <<>> THEN x ELSE GoDown(nodes, x, Degree(nodes[x.node]))]
  IN  Iterate(turn, it)[Depth(nodes)]

(* Back to the key before, from a node that is none.  With noup the node   *)
(* is not left: the key ends with the character that found no edge in it,  *)
(* or with all of its edge.                                                *)
BackFrom(nodes, above, prevchild) ==
  LET n == nodes[above.node]
      earlier == {at \in DOMAIN n.chars : ~n.iscompr /\ n.chars[at] < prevchild}
  IN  IF earlier = {} THEN above ELSE raxSeekGreatest(nodes, GoDown(nodes, above, Max(earlier)))

raxIteratorPrevStep(nodes, it, noup) ==
  LET turn == [x \in Iterators(nodes) |->
                 IF nodes[x.node].iskey \/ x.node = Root THEN x
                 ELSE BackFrom(nodes, GoUp(nodes, x), Last(x.key))]
      first == IF noup THEN BackFrom(nodes, CutKey(nodes, it), Last(it.key)) ELSE it
      end == Iterate(turn, first)[Depth(nodes)]
  IN  IF nodes[end.node].iskey THEN AtKey(nodes, end) ELSE AtEnd(it)

(* On to the key after: the first below the node, or else the first below  *)
(* a later edge of a node above it.                                        *)
Later(nodes, it) ==
  LET n == nodes[GoUp(nodes, it).node]
  IN  {at \in DOMAIN n.chars : ~n.iscompr /\ n.chars[at] > Last(it.key)}

UpAndOver(nodes, it) ==
  LET turn == [x \in Iterators(nodes) |->
                 IF x.node = Root THEN x ELSE IF Later(nodes, x) # {} THEN x ELSE GoUp(nodes, x)]
      end == Iterate(turn, it)[Depth(nodes)]
  IN  IF end.node = Root THEN AtEnd(end) ELSE GoDown(nodes, GoUp(nodes, end), Min(Later(nodes, end)))

NextNode(nodes, it) ==
  IF nodes[it.node].chars # <<>> THEN GoDown(nodes, it, 1) ELSE UpAndOver(nodes, it)

raxIteratorNextStep(nodes, it) ==
  LET turn == [x \in Iterators(nodes) |->
                 IF x.eof \/ nodes[x.node].iskey THEN x ELSE NextNode(nodes, x)]
      end == Iterate(turn, NextNode(nodes, it))[Depth(nodes)]
  IN  IF end.eof THEN AtEnd(it) ELSE AtKey(nodes, end)

raxNext(tree, it) ==
  CASE it.eof -> it
    [] ~it.eof /\ it.seeked -> [it EXCEPT !.seeked = FALSE]
    [] ~it.eof /\ ~it.seeked -> raxIteratorNextStep(tree.nodes, it)

(* raxSeek with "<=".  A walk that ends inside a compressed node that is a *)
(* key stays there and leaves the data as raxStart set it.                 *)
SeekFrom(tree, w, s) ==
  LET n == tree.nodes[w.h]
      it == Iterator(w.h, w.h)
      noup(chars) == raxIteratorPrevStep(tree.nodes, [it EXCEPT !.key = w.h \o chars], TRUE)
  IN  CASE IsNodeOf(tree, w, s) /\ n.iskey -> AtKey(tree.nodes, it)
        [] w.i # Len(s) /\ ~n.iscompr -> noup(<<s[w.i + 1]>>)
        [] w.i # Len(s) /\ n.iscompr /\ n.chars[w.j + 1] < s[w.i + 1] ->
             AtKey(tree.nodes, raxSeekGreatest(tree.nodes, it))
        [] w.i # Len(s) /\ n.iscompr /\ n.chars[w.j + 1] >= s[w.i + 1] -> noup(n.chars)
        [] w.i = Len(s) /\ w.j # 0 /\ n.iskey -> it
        [] w.i = Len(s) /\ ~n.iskey -> raxIteratorPrevStep(tree.nodes, it, FALSE)

raxSeekLE(tree, s) ==
  IF tree.numele = 0 THEN AtEnd(Iterator(Root, Root))
  ELSE [SeekFrom(tree, raxLowWalk(tree, s), s) EXCEPT !.seeked = TRUE]
-----------------------------------------------------------------------------
(* What a tree holds, and what its iterator stands on.                     *)
WordsOf(tree) == {p \in DOMAIN tree.nodes : tree.nodes[p].iskey}
Dictionary(tree) == [w \in WordsOf(tree) |-> tree.nodes[w].data]

StandsOn(it, w) == it.key = w /\ it.node = w /\ ~it.eof

(* The order of the bytes: a word comes after those that begin it.         *)
Before(s, t) ==
  \E k \in 1..Len(t) :
    /\ k <= Len(s) + 1 /\ \A l \in 1..(k - 1) : s[l] = t[l]
    /\ k <= Len(s) => s[k] < t[k]

(* The iterator stands on the last or the first of the words, or is at     *)
(* the end when there are none.                                            *)
IsLastOf(it, words) ==
  IF words = {} THEN it.eof ELSE \E w \in words : StandsOn(it, w) /\ \A v \in words : ~Before(w, v)

IsFirstOf(it, words) ==
  IF words = {} THEN it.eof ELSE \E w \in words : StandsOn(it, w) /\ \A v \in words : ~Before(v, w)

(* A node is as the source's comment on the layout describes it, its edges *)
(* lead to every node whose address it begins, and no node is left that    *)
(* an insertion could have avoided.                                        *)
WellFormed(nodes, p) ==
  LET n == nodes[p]
  IN  /\ IF n.iscompr THEN Len(n.chars) > 1
         ELSE \A k, l \in DOMAIN n.chars : k < l => n.chars[k] < n.chars[l]
      /\ \A k \in 1..Degree(n) : Child(nodes, p, k) \in DOMAIN nodes
      /\ \A q \in DOMAIN nodes :
            IsStrictPrefix(p, q) => \E k \in 1..Degree(n) : IsPrefix(Child(nodes, p, k), q)
      /\ n.chars = <<>> => n.iskey \/ p = Root
      /\ Degree(n) = 1 => nodes[Child(nodes, p, 1)].iskey \/ Degree(nodes[Child(nodes, p, 1)]) > 1

IsTree(tree) == Root \in DOMAIN tree.nodes /\ \A p \in DOMAIN tree.nodes : WellFormed(tree.nodes, p)

CountsAgree(tree) ==
  /\ tree.numnodes = Cardinality(DOMAIN tree.nodes)
  /\ tree.numele = Cardinality(WordsOf(tree))
=============================================================================
