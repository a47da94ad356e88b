------------------------------- MODULE MCMutex -------------------------------
(***************************************************************************)
(* Small instances of the mutex layer for TLC.                             *)
(***************************************************************************)
EXTENDS Mutex, MCCore

MCPriorities == <<{0, 1}, {1}, {2}>>
MCThreeLevels == <<{0}, {1}, {2}>>

MCView == <<CoreView, mutexVars>>
=============================================================================
