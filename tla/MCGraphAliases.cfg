SPECIFICATION ChainSpec
CONSTANTS
  titles = titles
  title = title
  artworkForTitle = artworkForTitle
  availabilityForTitle = availabilityForTitle
  orphan = orphan
  fragment = fragment
  titlesDgs = titlesDgs
  artworkDgs = artworkDgs
  availabilityDgs = availabilityDgs
  removedDgs = removedDgs
  k1 = k1
  k2 = k2
  k3 = k3
  ResponseKeys = {k1, k2, k3}
  Fields <- MCFields
  Subgraphs <- MCSubgraphs
  Owner <- MCOwner
  HasUrl <- MCHasUrl
  Queries <- SharedKey
  ReplyKinds = {"fields", "noData"}
  Null = Null
  ArtworkSubgraph = artworkDgs
INVARIANTS
  AnsweredOrExplained
