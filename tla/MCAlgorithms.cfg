SPECIFICATION AlgorithmsSpec
CONSTANTS
  Modulus = 1024
  MaxCapacity = 64
  BitAnd <- MCAnd
  FieldTypes <- MCFieldTypes
  UserTypes <- MCUserTypes
  Half <- MCHalf
  MaxFields = 3
INVARIANTS SlotIsRemainder RankedFieldsFit RoundTrips SafeFromIsTotal
CHECK_DEADLOCK FALSE
