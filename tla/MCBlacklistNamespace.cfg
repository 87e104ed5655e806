SPECIFICATION Spec
CONSTANTS
  Rules <- AllRules
  Libraries <- AllLibraries
  Calls <- AllCalls
  Queries <- AllQueries
INVARIANT NamespaceRulesApply
