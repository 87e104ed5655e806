------------------------------ MODULE Blacklist ------------------------------
(***************************************************************************)
(* The filter rules of a tracer (blacklist and whitelist), the libraries   *)
(* it knows, and the verdict on a method.  A rule is kept in the radix     *)
(* tree of its kind and in the tree of all rules; the words of a method    *)
(* are looked up in the trees once, when the method is first called, and   *)
(* the decision stays in the method table until the rules change.          *)
(***************************************************************************)
EXTENDS Rax

CONSTANTS Rules,      \* records: path and method (<<>> for none)
          Libraries,  \* lists of paths to register
          Calls,      \* records: path and method of the methods called
          Queries     \* and of those that are only asked about

Words == Seq(Nat)
Methods == [path : Words, method : Words]

ASSUME RulesAssumption == Rules \subseteq Methods
ASSUME CallsAssumption == Calls \subseteq Methods /\ Queries \subseteq Methods
ASSUME LibrariesAssumption == \A list \in Libraries : list \in Seq(Words \ {<<>>})

VARIABLES
  fq, paths, methods,  \* blacklist_fq, blacklist_paths, blacklist_methods
  all,                 \* blacklist
  libraries,
  decided              \* methodinfo: for a method called, whether it is left out

blacklistVars == <<fq, paths, methods, all, libraries, decided>>

RG_BLACKLIST_UNLISTED == 0
RG_BLACKLIST_WHITELISTED == 1
RG_BLACKLIST_BLACKLISTED == 2

(* The characters with a meaning, in the order of their bytes.             *)
HASH == 1
COLON == 2

FullyQualified(path, method) == path \o <<HASH>> \o method

(* rb_rg_blacklisted_string_p: from the node where the walk stopped up to  *)
(* the root, the data of the last key passed, or whitelisted at the first  *)
(* key that is.                                                            *)
Longest(words) == CHOOSE w \in words : \A v \in words : Len(v) <= Len(w)
Shortest(words) == CHOOSE w \in words : \A v \in words : Len(w) <= Len(v)

FirstOnTheWay(seen) == IF DOMAIN seen = {} THEN RG_BLACKLIST_UNLISTED ELSE seen[Longest(DOMAIN seen)]

VerdictOnTheWay(seen) ==
  IF DOMAIN seen = {} THEN RG_BLACKLIST_UNLISTED
  ELSE IF \E w \in DOMAIN seen : seen[w] = RG_BLACKLIST_WHITELISTED THEN RG_BLACKLIST_WHITELISTED
  ELSE seen[Shortest(DOMAIN seen)]

rb_rg_blacklisted_string_p(tree, needle) ==
  LET w == raxLowWalk(tree, needle)
  IN  IF w.i = 0 THEN RG_BLACKLIST_UNLISTED
      ELSE VerdictOnTheWay([p \in {q \in w.path : tree.nodes[q].iskey} |-> tree.nodes[p].data])

(* A path rule that ends with "::" or "#" holds for the names it begins.   *)
IsNamespaceRule(key) == Len(key) > 2 /\ (Last(key) = HASH \/ IsSuffix(<<COLON, COLON>>, key))

(* The scan of the path rules from the last that is not after the path on, *)
(* up to the rules that begin with a later character.                      *)
ScanEnds(it, path) == it.eof \/ (it.key # <<>> /\ (path = <<>> \/ it.key[1] > path[1]))

ScanPaths(tree, path, name) ==
  LET turn == [it \in Iterators(tree.nodes) |-> raxNext(tree, it)]
      at == Iterate(turn, raxNext(tree, raxSeekLE(tree, path)))
      hits == {k \in 0..tree.numele : /\ \A l \in 0..k : ~ScanEnds(at[l], path)
                                     /\ IsNamespaceRule(at[k].key) /\ IsPrefix(at[k].key, name)}
  IN  IF hits = {} THEN raxNotFound ELSE at[Min(hits)].data

ByNamespace(path, name) == ScanPaths(paths, path, name)

ByPrefix(path, method) ==
  LET byPath == rb_rg_blacklisted_string_p(paths, path)
  IN  IF byPath # RG_BLACKLIST_UNLISTED THEN byPath ELSE rb_rg_blacklisted_string_p(methods, method)

(* rb_rg_blacklisted_method_p: the first of these that finds a rule.       *)
FirstFound(exact, otherwise) ==
  LET found == {k \in DOMAIN exact : exact[k] # raxNotFound}
  IN  IF found = {} THEN otherwise ELSE exact[Min(found)]

PathFirst(path, method) ==
  FirstFound(<<raxFind(paths, path), raxFind(fq, FullyQualified(path, method)), raxFind(methods, method),
               ByNamespace(path, FullyQualified(path, method))>>, ByPrefix(path, method))

rb_rg_blacklisted_method_p(path, method) ==
  LET name == FullyQualified(path, method)
  IN  FirstFound(<<raxFind(fq, name), raxFind(paths, path), raxFind(methods, method),
                   ByNamespace(path, name)>>, ByPrefix(path, method))

blacklisted_p(path, method) ==
  rb_rg_blacklisted_method_p(path, method) = RG_BLACKLIST_BLACKLISTED
-----------------------------------------------------------------------------
Init ==
  /\ fq = raxNew /\ paths = raxNew /\ methods = raxNew /\ all = raxNew
  /\ libraries = raxNew
  /\ decided = [c \in {} |-> FALSE]

(* rb_rg_flush_caches                                                      *)
KeepCaches == UNCHANGED decided
FlushCaches == decided' = [c \in {} |-> FALSE]

(* rb_rg_tracer_blacklist_add0                                             *)
AddRule(path, method, verdict) ==
  LET word == CASE path # <<>> /\ method # <<>> -> FullyQualified(path, method)
                [] path # <<>> /\ method = <<>> -> path
                [] OTHER -> method
  IN  /\ path # <<>> \/ method # <<>>
      /\ fq' = IF path # <<>> /\ method # <<>> THEN raxInsert(fq, word, verdict) ELSE fq
      /\ paths' = IF path # <<>> /\ method = <<>> THEN raxInsert(paths, word, verdict) ELSE paths
      /\ methods' = IF path = <<>> THEN raxInsert(methods, word, verdict) ELSE methods
      /\ all' = raxInsert(all, word, verdict)
      /\ FlushCaches
      /\ UNCHANGED libraries

AddBlacklist(path, method) == AddRule(path, method, RG_BLACKLIST_BLACKLISTED)
AddWhitelist(path, method) == AddRule(path, method, RG_BLACKLIST_WHITELISTED)

Registered(tree, list) ==
  LET after[k \in 0..Len(list)] ==
        IF k = 0 THEN tree ELSE raxInsert(after[k - 1], list[k], RG_BLACKLIST_WHITELISTED)
  IN  after[Len(list)]

RegisterLibraries(list) ==
  /\ libraries' = Registered(libraries, list)
  /\ UNCHANGED <<fq, paths, methods, all, decided>>

(* The first call of a method: the decision goes into the method table.    *)
Call(c) ==
  /\ c \notin DOMAIN decided
  /\ decided' = [d \in DOMAIN decided \union {c} |->
                   IF d = c THEN blacklisted_p(c.path, c.method) ELSE decided[d]]
  /\ UNCHANGED <<fq, paths, methods, all, libraries>>

Next ==
  \/ \E r \in Rules : AddBlacklist(r.path, r.method) \/ AddWhitelist(r.path, r.method)
  \/ \E list \in Libraries : RegisterLibraries(list)
  \/ \E c \in Calls : Call(c)

Spec == Init /\ [][Next]_blacklistVars
-----------------------------------------------------------------------------
Trees == {fq, paths, methods, all, libraries}
Needles == {c.path : c \in Queries} \union {c.method : c \in Queries}
             \union {FullyQualified(c.path, c.method) : c \in Queries}

RulesFor(needle, table) == {w \in DOMAIN table : IsPrefix(w, needle)}

(* Whatever the order of the rules, a tree keeps the form its comments     *)
(* describe (rax.c 550-900): compressed edges of two characters or more,   *)
(* sorted edges, no node that could be merged with its only child; and     *)
(* its two counters, that raxFree asserts on, count what is in it.         *)
TreesKeepTheirForm == \A tree \in Trees : IsTree(tree) /\ CountsAgree(tree)

(* raxFind finds every word of a tree and no other, and the walk and the   *)
(* stack it leaves visit the rules that begin a name and no other: one     *)
(* that whitelists wins, or else one that blacklists.                      *)
WalkFindsTheRules ==
  \A tree \in {paths, methods, libraries}, s \in Needles :
    LET table == Dictionary(tree)
        verdicts == {table[w] : w \in RulesFor(s, table)}
    IN  /\ raxFind(tree, s) = (IF s \in DOMAIN table THEN table[s] ELSE raxNotFound)
        /\ rb_rg_blacklisted_string_p(tree, s) =
             (CASE RG_BLACKLIST_WHITELISTED \in verdicts -> RG_BLACKLIST_WHITELISTED
                [] verdicts = {RG_BLACKLIST_BLACKLISTED} -> RG_BLACKLIST_BLACKLISTED
                [] OTHER -> RG_BLACKLIST_UNLISTED)

(* The seek and the steps of the iterator go through the words of a tree   *)
(* in order, from the last one that is not after the word sought.          *)
IterationIsInOrder ==
  LET words == WordsOf(paths)
  IN  /\ \A s \in Needles : IsLastOf(raxNext(paths, raxSeekLE(paths, s)), {w \in words : ~Before(s, w)})
      /\ \A w \in words : IsFirstOf(raxNext(paths, Iterator(w, w)), {v \in words : Before(w, v)})

(* A verdict comes from a rule that covers the method, and the most        *)
(* specific rule wins: its full name, then its path, then its name.        *)
Covers(c) ==
  LET name == FullyQualified(c.path, c.method)
      p == Dictionary(paths)
      m == Dictionary(methods)
      f == Dictionary(fq)
      exact == IF name \in DOMAIN f THEN {f[name]} ELSE IF c.path \in DOMAIN p THEN {p[c.path]}
               ELSE IF c.method \in DOMAIN m THEN {m[c.method]} ELSE {}
  IN  IF exact # {} THEN exact
      ELSE {p[w] : w \in {v \in DOMAIN p : (IsNamespaceRule(v) /\ IsPrefix(v, name)) \/ IsPrefix(v, c.path)}}
             \union {m[w] : w \in RulesFor(c.method, m)}

VerdictHasItsRule ==
  \A c \in Queries :
    rb_rg_blacklisted_method_p(c.path, c.method) \in {RG_BLACKLIST_UNLISTED} \union Covers(c)

(* The decision kept for a method is the one the present rules give.       *)
DecisionsAreCurrent ==
  \A c \in DOMAIN decided : decided[c] = blacklisted_p(c.path, c.method)

(* The rule set is a table: what an insertion does to the shape of a tree, *)
(* splitting and linking its nodes, changes no other rule.                 *)
AsTable == INSTANCE RuleTable
  WITH Words <- {r.path : r \in Rules} \union {r.method : r \in Rules}
                  \union {FullyQualified(r.path, r.method) : r \in Rules},
       Verdicts <- {RG_BLACKLIST_WHITELISTED, RG_BLACKLIST_BLACKLISTED},
       fq <- Dictionary(fq), paths <- Dictionary(paths), methods <- Dictionary(methods),
       all <- Dictionary(all), libraries <- Dictionary(libraries)
RulesAreATable == AsTable!Spec

(* Of a path rule that ends with "#": "Catch for method paths that         *)
(* terminate with "#" strings".  With no rule for its full name, path or   *)
(* name, a method whose name such a rule begins has the rule's verdict.    *)
NamespaceRulesApply ==
  \A c \in Queries :
    LET name == FullyQualified(c.path, c.method)
        apply == {w \in WordsOf(paths) : IsNamespaceRule(w) /\ IsPrefix(w, name)}
        exact == raxFind(fq, name) # raxNotFound \/ raxFind(paths, c.path) # raxNotFound
                   \/ raxFind(methods, c.method) # raxNotFound
    IN  apply # {} /\ ~exact =>
          rb_rg_blacklisted_method_p(c.path, c.method) \in {Dictionary(paths)[w] : w \in apply}
=============================================================================
