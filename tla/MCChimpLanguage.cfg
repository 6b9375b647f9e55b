CONSTANT
  Programs <- AllPrograms

SPECIFICATION FairSpec

INVARIANT TypeOK OwnOperands CarriesOperands ResultIsMeaning

PROPERTY Halts

\* The machine stops when its program ends.
CHECK_DEADLOCK FALSE
