\* Five tasks; arrays that three or four of them fill.
CONSTANTS
  MaxPid = 5
  MaxAncestors = 3
  MaxRelatives = 4
SPECIFICATION Spec
INVARIANTS AncestorsLinked ZeroInEveryArray
PROPERTIES NoRelativeMissed CallReturns
