SPECIFICATION Spec
CONSTANTS
  Configs <- MCConfigs
  Texts = {"", "a", " a", "1", "1.0"}
  Numeric = {"1", "1.0"}
  Number = "#1"
  NumberText = "1"
  Padded = {" a"}
  Unpadded <- MCUnpadded
  Options <- MCOptions
  Boxes = {"1", "b"}
  Arrays <- MCArrays
  None = "undefined"
  MaxOps = 8
INVARIANTS ViewShowsData
PROPERTIES InputIsKept
CHECK_DEADLOCK FALSE
