SPECIFICATION FairSpec
CONSTANTS
  Count = 1
  FDs <- FirstFDs
  PrioritySched = 2
  Uses = {"buffer"}
  UsesOf <- BufferUses
PROPERTIES ForcedReadContinues
