SPECIFICATION Spec
CONSTANTS
  Talks = {t1, t2}
  None = None
  NoKey = NoKey
  Given = Given
  MAX_CHAIN_LENGTH = 2
  MAX_ONE_TIME_PREKEYS = 2
  Batches <- SmallBatches
  MaxUploads = 2
  MaxSealed = 2
SYMMETRY Symmetry
\* Exhausted chains leave nothing to do.
CHECK_DEADLOCK FALSE
INVARIANTS
  TypeOK
  PartsAgree
  KeySealsOnce
  OpensInOrder
PROPERTY ImplementsRatchet
