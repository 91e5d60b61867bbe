SPECIFICATION Spec
CONSTANTS
  Attributes <- NodeAttributes
  PowerSources <- AnySource
  MaxEnumerations = 2
INVARIANTS
  
  PresentIsHeard
  ReadingsTrue
  
  NoPhantomSupply
