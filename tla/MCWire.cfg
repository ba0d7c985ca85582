SPECIFICATION Spec
CONSTANTS
  Characters <- MCCharacters
  Encoding <- MCEncoding
  Command <- MCCommand
  Channel <- MCChannel
  Messages <- MCMessages
INVARIANTS
  TypeOK
  PublishedExactly
PROPERTIES
  NobodyWaitsForEver
  ImplementsPipeline
