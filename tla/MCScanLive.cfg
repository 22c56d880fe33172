SPECIFICATION FairSpec
CONSTANTS
  Count = 1
  FDs <- FirstFDs
  PrioritySched = 2
  Uses = {"block", "buffer", "timeout", "priority", "duplex"}
  UsesOf <- LiveUses
PROPERTIES ReadyIsNotified TimeoutIsReported NoDirectIoWhileBlocked
