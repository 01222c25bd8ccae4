\* Every slice of up to four boxes, some of them before 1970.
SPECIFICATION Spec
CONSTANTS
  Tops <- AnyTop
  Heights <- AnyHeight
  minHeight = 1
  Inputs <- Slices
  MaxBoxes = 4
INVARIANTS
  TypeOK
  NoOverlap
  InOrder
  FewestColumns
  ColumnsDrawn
  PanicsBeforeEpoch
PROPERTY
  Returns
