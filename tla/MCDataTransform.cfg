CONSTANTS
  Rows <- MCRows
  PkName = "id"
  PkNames <- MCPkNames
  Separator <- Sep
  Inherited = {"constructor"}
  MaxRows = 2
SPECIFICATION Spec
INVARIANTS CategoriesSynchronise CompositeKeysAreTuples GroupingsAgree MergeIsOuterJoin
CHECK_DEADLOCK FALSE
