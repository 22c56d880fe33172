------------------------------- MODULE MCScan -------------------------------
(* Model checking the scanners: the descriptors are numbers from 0.        *)
EXTENDS TheFileScanner

CONSTANT Count
FirstFDs == 0 .. Count - 1

(* What each scanner can be asked to do.  Users of poll do not block with  *)
(* several descriptors, and users of select do not read and write at once  *)
(* where lasting readiness must be reported: see README.md.                *)
SafeUses ==
  [epoll |-> {"block", "error", "duplex"}, poll |-> {"error", "duplex"},
   select |-> {"error", "duplex"}]
LiveUses ==
  [epoll |-> {"block", "buffer", "timeout", "priority", "duplex"},
   poll |-> {"block", "buffer", "timeout", "priority", "duplex"},
   select |-> {"block", "timeout", "priority"}]
BufferUses == [epoll |-> {"buffer"}]
=============================================================================
