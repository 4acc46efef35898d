SPECIFICATION MergeSpec
CONSTANTS
  Source <- MCSource
  TypeOf <- MCTypeOf
  FieldsOf <- MCFieldsOf
  StructSource <- MCStruct
  Repeats <- MCListOnly
  MaxWindow = 5
  MaxSample = 6
INVARIANT NoFieldLost
