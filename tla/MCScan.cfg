SPECIFICATION Spec
CONSTANTS
  Count = 2
  FDs <- FirstFDs
  PrioritySched = 1
  Uses = {"block", "error", "duplex"}
  UsesOf <- SafeUses
INVARIANTS RegsAgree BlockedIsWaiting WatchedIsAwaited
PROPERTIES NoStaleCall
