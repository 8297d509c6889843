CONSTANTS
  Key <- MCKey
  Entry <- MCEntry
  KeyOf <- MCKeyOf
  Hash <- MCHash
  Nil = Nil
SPECIFICATION Spec
VIEW LiveState
INVARIANTS ElemsCountsLinked ChainsPartitionKeys
PROPERTY ImplementsKeyMap
