----------------------------- MODULE AsyncStore ------------------------------
(***************************************************************************)
(* What the asynchronous transfer writer promises to the code around it:   *)
(* the contract in the comment of apps/indexer/src/block-processor.ts,     *)
(* lines 943-957, as a specification of its own.                           *)
(*                                                                         *)
(* The writer is a store that accepts heights and keeps them some time     *)
(* later, in any order.  Two watermarks claim that everything up to them   *)
(* is kept: one in memory, and the one on disk, the only thing a restart   *)
(* goes by.  What is accepted stays owed until it is kept; only a death or *)
(* a rollback below it releases the store.  What is kept stays kept until  *)
(* an unwind, which finds both the debts and the watermark below its fork. *)
(*                                                                         *)
(* The contract has no queue, no batch, no pass and no pause.  "Kept" is   *)
(* committed, or waived by the callers: quarantined, skipped, or taken on  *)
(* trust.                                                                  *)
(***************************************************************************)
EXTENDS Integers

CONSTANT MaxHeight      \* bound: the highest block of the model

VARIABLES
    running,        \* a process runs and has its watermark
    owed,           \* heights accepted and not kept in their newest decode
    kept,           \* heights that nothing has to be replayed for
    mark,           \* the watermark in memory
    disk            \* the watermark a restart reads

storeVars == <<running, owed, kept, mark, disk>>

Height    == 1..MaxHeight
Prefix(w) == {n \in Height : n <= w}

StoreInit ==
    /\ running = FALSE
    /\ owed = {}
    /\ kept \in SUBSET Height
    /\ mark = 0
    /\ disk \in {w \in 0..MaxHeight : Prefix(w) \subseteq kept}

-----------------------------------------------------------------------------
\* A process starts at the watermark on disk, or at one it takes on trust.
Start(w) ==
    /\ ~running
    /\ running' = TRUE
    /\ mark' = w
    /\ kept' = kept \cup Prefix(w)
    /\ UNCHANGED <<owed, disk>>

\* A disk without a watermark is given one, on trust.
Trust(w) ==
    /\ ~running
    /\ disk = 0
    /\ disk' = w
    /\ kept' = kept \cup Prefix(w)
    /\ UNCHANGED <<running, owed, mark>>

Accept(n) ==
    /\ running
    /\ owed' = owed \cup {n}
    /\ UNCHANGED <<running, kept, mark, disk>>

Waive(n) ==
    /\ running
    /\ kept' = kept \cup {n}
    /\ UNCHANGED <<running, owed, mark, disk>>

\* The callers give up everything up to w.
Skip(w) ==
    /\ running
    /\ w > mark
    /\ mark' = w
    /\ kept' = kept \cup Prefix(w)
    /\ UNCHANGED <<running, owed, disk>>

\* Owed heights are kept; those of newer, accepted meanwhile, are still owed.
Keep(S, newer) ==
    /\ running
    /\ S \subseteq owed /\ newer \subseteq S
    /\ kept' = kept \cup S
    /\ owed' = (owed \ S) \cup newer
    /\ UNCHANGED <<running, mark, disk>>

\* What was kept without the store knowing it is owed once more.
Repeat(S) ==
    /\ running
    /\ S \subseteq kept
    /\ owed' = owed \cup S
    /\ UNCHANGED <<running, kept, mark, disk>>

\* A watermark moves, in memory or on disk, to one that is true.
Move(w) ==
    /\ running
    /\ Prefix(w) \subseteq kept
    /\ \/ mark' = w /\ disk' = disk
       \/ disk' = w /\ mark' = mark
    /\ UNCHANGED <<running, owed, kept>>

\* Nothing above the fork f is owed any more, nor claimed in memory.
Rollback(f) ==
    /\ running
    /\ owed' = owed \cap Prefix(f)
    /\ mark' = IF mark > f THEN f ELSE mark
    /\ UNCHANGED <<running, kept, disk>>

\* What is kept above the fork goes, unless a watermark w still claims it: the
\* one on disk, or one that is on its way there.
Unwind(f, w) ==
    /\ running
    /\ mark <= f /\ owed \subseteq Prefix(f)
    /\ w >= disk /\ Prefix(w) \subseteq kept
    /\ kept' = (kept \cap Prefix(f)) \cup Prefix(w)
    /\ UNCHANGED <<running, owed, mark, disk>>

\* Debts and the watermark in memory are lost, the disk is not.
Die ==
    /\ running
    /\ running' = FALSE
    /\ owed' = {}
    /\ mark' = 0
    /\ UNCHANGED <<kept, disk>>

StoreNext ==
    \/ \E S \in SUBSET Height : Repeat(S)
    \/ \E n \in Height : Accept(n) \/ Waive(n)
    \/ \E S \in SUBSET Height : \E newer \in SUBSET S : Keep(S, newer)
    \/ \E w \in 0..MaxHeight : Start(w) \/ Trust(w) \/ Skip(w) \/ Move(w) \/ Rollback(w)
    \/ \E f, w \in 0..MaxHeight : Unwind(f, w)
    \/ Die

StoreSpec == StoreInit /\ [][StoreNext]_storeVars
=============================================================================
