----------------------------- MODULE MCBlacklist -----------------------------
EXTENDS Blacklist

A == 3
B == 4
C == 5

Rule(path, method) == [path |-> path, method |-> method]

In(name) == <<A, COLON, COLON>> \o name

(* Rules of every kind, with words that begin one another, meet in the     *)
(* middle of an edge, and end a namespace ("::") or a class ("#").         *)
AllRules ==
  {Rule(p, <<>>) : p \in {<<A, B, HASH>>, In(<<>>), In(<<B, B>>), In(<<B, C>>)}}
    \union {Rule(In(<<B, C>>), <<C>>), Rule(<<>>, <<C, B>>)}

AllLibraries == {<<<<A, B, C>>, <<A, B>>>>}

AllCalls == {Rule(In(<<B, C>>), <<C>>)}

AllQueries ==
  AllCalls \union {Rule(<<A, B>>, <<C>>), Rule(In(<<B>>), <<C, B>>), Rule(In(<<B, A>>), <<C, B, B>>),
                   Rule(<<A, C>>, <<C, B>>)}
=============================================================================
