----------------------------- MODULE MCSemaphore -----------------------------
(***************************************************************************)
(* Small instances of the semaphores for TLC.                              *)
(***************************************************************************)
EXTENDS Semaphore, MCCore

MCPriorities == <<{0}, {1}, {1}>>

MCView == <<CoreView, semVars>>
=============================================================================
