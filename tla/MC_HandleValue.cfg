\* Three handle objects, one stored value, both declared types.
CONSTANTS
  Slots = {"h1", "h2", "h3"}
  Vals = {"v1"}
  DeclTypes = {"double", "bool"}
SPECIFICATION Spec
INVARIANT GetOptionalReturnsValue
