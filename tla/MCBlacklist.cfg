SPECIFICATION Spec
CONSTANTS
  Rules <- AllRules
  Libraries <- AllLibraries
  Calls <- AllCalls
  Queries <- AllQueries
INVARIANTS
  TreesKeepTheirForm
  WalkFindsTheRules
  IterationIsInOrder
  VerdictHasItsRule
  DecisionsAreCurrent
PROPERTY RulesAreATable
