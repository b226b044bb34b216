SPECIFICATION Spec
CONSTANT
  OtherStatuses = {NA}
INVARIANT
  SelectionConnects
