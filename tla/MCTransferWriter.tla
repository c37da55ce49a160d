-------------------------- MODULE MCTransferWriter --------------------------
(* A small instance of TransferWriter: one decode of two rows next to the  *)
(* quarantined batch of none, so that a queue of two heights can cross     *)
(* both row bounds.                                                        *)
EXTENDS TransferWriter

CONSTANT busy

MCDecodes == {busy}
MCRowsOf  == [d \in MCDecodes |-> 2]

\* The VIEW: all of the state but the reasons of the excuses.  No guard and
\* no property of this run tells one reason from another, only whether a
\* height has one, so states that agree here have the same futures.
MCView == <<memoryVars, tt, persistedW, newest, [n \in Heights |-> excuse[n] # None]>>
=============================================================================
