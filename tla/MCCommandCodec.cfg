SPECIFICATION Spec
CONSTANTS
  Values <- SomeValues
  Entries <- SomeEntries
  Inputs <- SomeInputs
  MaxEntries = 1
  MaxUnknown = 1
INVARIANTS TypeOK RoundTrip SizeExact MergeIsConcatenation
