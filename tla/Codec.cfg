CONSTANTS
  XorByte <- XorOfBytes
  MaxShort = 5
  Max16 = 9
  LengthBytes = 3
  Payloads <- SomePayloads
  Masks <- OneMask
  FlagSets <- SomeFlags
  PackOpcodes <- SomeOpcodes
  EncodeTypes <- SomeTypes
  Codes <- SomeCodes
  RawFrames <- SomeRaw
  MaxFrames = 2
  TextBytes <- Boundaries
  MaxText = 4
SPECIFICATION Spec
INVARIANTS RoundTrip WireFormat UnpackStaysInBuffer ValidatorIsExact
CHECK_DEADLOCK FALSE
