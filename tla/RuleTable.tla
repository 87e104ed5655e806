------------------------------ MODULE RuleTable ------------------------------
(***************************************************************************)
(* What the filter rules promise: a table of verdicts for each kind of     *)
(* rule.  Adding a rule sets one entry of its kind, and the entry of the   *)
(* same words among all the rules; it disturbs no other rule.              *)
(***************************************************************************)
EXTENDS Functions

CONSTANTS Words, Verdicts

VARIABLES fq, paths, methods, all, libraries

tableVars == <<fq, paths, methods, all, libraries>>

Set(table, word, verdict) ==
  [w \in DOMAIN table \union {word} |-> IF w = word THEN verdict ELSE table[w]]

NoRules == [w \in {} |-> 0]

Init == fq = NoRules /\ paths = NoRules /\ methods = NoRules /\ all = NoRules /\ libraries = NoRules

AddRule(word, verdict) ==
  /\ \/ fq' = Set(fq, word, verdict) /\ UNCHANGED <<paths, methods>>
     \/ paths' = Set(paths, word, verdict) /\ UNCHANGED <<fq, methods>>
     \/ methods' = Set(methods, word, verdict) /\ UNCHANGED <<fq, paths>>
  /\ all' = Set(all, word, verdict)
  /\ UNCHANGED libraries

(* Libraries are only ever added.                                          *)
RegisterLibraries ==
  /\ IsRestriction(libraries, libraries')
  /\ UNCHANGED <<fq, paths, methods, all>>

Next == RegisterLibraries \/ \E word \in Words, verdict \in Verdicts : AddRule(word, verdict)

Spec == Init /\ [][Next]_tableVars
=============================================================================
