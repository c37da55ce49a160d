---------------------------- MODULE AddressFlush ----------------------------
(***************************************************************************)
(* The transaction counts of addresses (apps/indexer/src/block-processor.ts,*)
(* enqueueAddressActivity to flushAddresses): block workers add the        *)
(* transactions they have inserted to a map in memory, and one flush at a  *)
(* time takes the map and upserts it chunk by chunk.                       *)
(*                                                                         *)
(* A chunk is any set of the entries that are left: its size and the       *)
(* address order are left out, and so are first_seen and last_seen.        *)
(***************************************************************************)
EXTENDS Integers

CONSTANTS
    Addr,
    TxRow,          \* transactions, by hash
    AddrsOf,        \* transaction -> address -> how often it names it
    MaxUndone,      \* bound: rollbacks
    MaxUpsets       \* bound: failed statements and lost processes

Attempts == 3

Counts == [Addr -> Nat]
Zero == [a \in Addr |-> 0]

ASSUME AddressFlushAssumption ==
    /\ AddrsOf \in [TxRow -> Counts]
    /\ MaxUndone \in Nat /\ MaxUpsets \in Nat

VARIABLES
    rows,           \* transactions: the hashes stored
    births,         \* address -> rows ever inserted that name it
    addressPending, \* address -> count
    flight,         \* addressFlushInflight: the entries left, and the attempt
    txCount,        \* addresses.tx_count
    undone,
    upsets

afVars == <<rows, births, addressPending, flight, txCount, undone, upsets>>

Landed == [left |-> Zero, attempt |-> 0]
Flying == flight.attempt > 0

AddressFlushInit ==
    /\ rows = {} /\ births = Zero /\ addressPending = Zero
    /\ flight = Landed /\ txCount = Zero
    /\ undone = 0 /\ upsets = 0

Plus(f, g) == [a \in Addr |-> f[a] + g[a]]

Upset == upsets < MaxUpsets /\ upsets' = upsets + 1

\* enqueueAddressActivity and kickAddressFlush: with no flush in flight the map
\* becomes the snapshot of a new one.
EnqueueOrKick(pending) ==
    IF Flying \/ pending = Zero
    THEN addressPending' = pending /\ flight' = flight
    ELSE addressPending' = Zero /\ flight' = [left |-> pending, attempt |-> 1]

\* The .finally of a flush: what was enqueued meanwhile starts the next one.
LandAndStop ==  \* Wrong on purpose: the next enqueue has to start it.
    flight' = Landed /\ UNCHANGED addressPending
Land ==
    IF addressPending = Zero
    THEN flight' = Landed /\ UNCHANGED addressPending
    ELSE flight' = [left |-> addressPending, attempt |-> 1] /\ addressPending' = Zero

\* Only the rows the INSERT returned are counted, not those it found.
CountEvery(t) ==  \* Wrong on purpose: a transaction is counted whenever it is processed.
    /\ rows' = rows \cup {t}
    /\ births' = IF t \in rows THEN births ELSE Plus(births, AddrsOf[t])
    /\ EnqueueOrKick(Plus(addressPending, AddrsOf[t]))
    /\ UNCHANGED <<txCount, undone, upsets>>
InsertTransaction(t) ==
    /\ rows' = rows \cup {t}
    /\ births' = IF t \in rows THEN births ELSE Plus(births, AddrsOf[t])
    /\ IF t \in rows THEN UNCHANGED <<addressPending, flight>>
       ELSE EnqueueOrKick(Plus(addressPending, AddrsOf[t]))
    /\ UNCHANGED <<txCount, undone, upsets>>

\* The INSERT commits and its answer is lost: nobody counts the rows.
InsertUnanswered(t) ==
    /\ t \notin rows /\ Upset
    /\ rows' = rows \cup {t}
    /\ births' = Plus(births, AddrsOf[t])
    /\ UNCHANGED <<addressPending, flight, txCount, undone>>

\* A rollback deletes rows and leaves the counts.
UnwindTransaction(t) ==
    /\ t \in rows /\ undone < MaxUndone
    /\ rows' = rows \ {t} /\ undone' = undone + 1
    /\ UNCHANGED <<births, addressPending, flight, txCount, upsets>>

Take(chunk) == [a \in Addr |-> IF a \in chunk THEN flight.left[a] ELSE 0]
LeftOut(chunk) == [a \in Addr |-> IF a \in chunk THEN 0 ELSE flight.left[a]]

FlushChunk(chunk) ==
    /\ Flying
    /\ txCount' = Plus(txCount, Take(chunk))
    /\ IF LeftOut(chunk) = Zero THEN Land
       ELSE /\ flight' = [left |-> LeftOut(chunk), attempt |-> 1]
            /\ UNCHANGED addressPending
    /\ UNCHANGED <<rows, births, undone, upsets>>

\* A deadlock rolls the statement back, and it is tried again.
FlushDeadlock ==
    /\ Flying /\ flight.attempt < Attempts
    /\ flight' = [flight EXCEPT !.attempt = @ + 1]
    /\ UNCHANGED <<rows, births, addressPending, txCount, undone, upsets>>

\* Any other error, or the last deadlock, drops the rest of the snapshot; the
\* statement may have been committed all the same.
FlushRetried(chunk) ==  \* Wrong on purpose: any error is tried again.
    /\ Flying /\ Upset
    /\ txCount' \in {txCount, Plus(txCount, Take(chunk))}
    /\ UNCHANGED <<rows, births, addressPending, flight, undone>>
FlushFails(chunk) ==
    /\ Flying /\ Upset
    /\ txCount' \in {txCount, Plus(txCount, Take(chunk))}
    /\ Land
    /\ UNCHANGED <<rows, births, undone>>

IndexerDies ==
    /\ Upset
    /\ addressPending' = Zero /\ flight' = Landed
    /\ UNCHANGED <<rows, births, txCount, undone>>

Chunks == {chunk \in SUBSET Addr : \E a \in chunk : flight.left[a] > 0}

AddressFlushNext ==
    \/ \E t \in TxRow : InsertTransaction(t) \/ InsertUnanswered(t) \/ UnwindTransaction(t)
    \/ \E chunk \in Chunks : FlushChunk(chunk) \/ FlushFails(chunk)
    \/ FlushDeadlock
    \/ IndexerDies

AddressFlushSpec == AddressFlushInit /\ [][AddressFlushNext]_afVars

-----------------------------------------------------------------------------
(* Properties. *)

AddressFlushTypeOK ==
    /\ rows \subseteq TxRow
    /\ births \in Counts /\ addressPending \in Counts /\ txCount \in Counts
    /\ flight \in [left : Counts, attempt : 0..Attempts]
    /\ undone \in Nat /\ upsets \in Nat

Counted(a) == txCount[a] + flight.left[a] + addressPending[a]

(***************************************************************************)
(* An address is never credited with more transactions than were inserted  *)
(* for it (block-processor.ts:416-434, 738-807): not by a block that is    *)
(* processed again, not by a retried upsert.  Until a statement fails or   *)
(* the process dies, none is forgotten either.                             *)
(***************************************************************************)
CountsConserved ==
    \A a \in Addr : /\ Counted(a) <= births[a]
                    /\ upsets = 0 => Counted(a) = births[a]

(***************************************************************************)
(* Counts never wait for the next block: while some are pending a flush is *)
(* in flight that will take them (block-processor.ts:758-770).             *)
(***************************************************************************)
PendingHasFlight == addressPending # Zero => Flying
=============================================================================
