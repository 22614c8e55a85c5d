SPECIFICATION Spec
CONSTANTS
  Values <- AllValues
  Texts <- AllTexts
  Empty = ""
  NaN = NaN
  NoNumber = NoNumber
  ParseFloat <- Float
  Decimal <- Written
  Sprint <- Printed
  Less <- LessText
  Within <- Part
  Compiles <- Regular
  Finds <- FindsPart
  Star = "*"
  Atoi <- Integer
  NoSource = "none"
  AnyType = ""
  Conditions <- AllConditions
  Depth <- Nesting
  Events <- AllEvents
  RuleLists <- AllRuleLists
INVARIANT
  TextIsListOfOne
CHECK_DEADLOCK FALSE
