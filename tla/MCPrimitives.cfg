SPECIFICATION AlgorithmsSpec
CONSTANTS
  Modulus = 1024
  MaxCapacity = 64
  BitAnd <- MCAnd
  FieldTypes <- MCFieldTypes
  UserTypes <- MCUserTypes
  Half <- MCHalf
  MaxFields = 3
INVARIANT PrimitivesFit
CHECK_DEADLOCK FALSE
