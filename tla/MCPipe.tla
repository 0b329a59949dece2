------------------------------- MODULE MCPipe --------------------------------
(* Small instances of Pipe for TLC. *)
EXTENDS Pipe, TLC
CONSTANTS b1, l1
OneBucket == [c \in Chans |-> b1]
OneLock == [c \in Chans |-> l1]
==============================================================================
