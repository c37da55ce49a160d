------------------------------ MODULE BlockRows ------------------------------
(***************************************************************************)
(* What processBlock (apps/indexer/src/block-processor.ts) stores of one   *)
(* height, statement by statement, and what a rollback (reorg-handler.ts)  *)
(* takes away again.  Failed statements and process deaths fall between    *)
(* any two statements, and a block is processed again after both.          *)
(*                                                                         *)
(* The chain replaces the block of this height by a new version; versions  *)
(* stand for their hashes and never return.  Writers are the processes of  *)
(* overlapping deploys; that two of them are inside the block with         *)
(* different versions, or one while the other rolls it back, is left out   *)
(* (it is the fork mix of module Indexer).                                 *)
(*                                                                         *)
(* A child row is its transaction (one trade and one internal transaction  *)
(* each) with the version its data is from.  Token transfers are           *)
(* TransferWriter's, address counts AddressFlush's.                        *)
(***************************************************************************)
EXTENDS Integers, FiniteSets

CONSTANTS
    BlockWriter,
    TxsOf,          \* version -> its transactions; versions are 1..n
    MaxAborts       \* bound: failed statements and lost processes

Versions == DOMAIN TxsOf
BlockTxs == UNION {TxsOf[v] : v \in Versions}
NoBlock == 0

ASSUME VersionsAssumption == 1 \in Versions /\ Versions \subseteq Nat \ {0} /\ MaxAborts \in Nat

VARIABLES
    chain,          \* the version that is canonical
    row,            \* the version in blocks, NoBlock without a row
    txs,            \* rows of transactions at this height
    trades,         \* rows of dex_trades
    itxs,           \* rows of internal_transactions
    passed,         \* a cursor is past this height
    finished,       \* history: a writer got through the stored block
    step,           \* writer -> the statement it is at
    got,            \* writer -> version and receipts it fetched
    aborts

brTables == <<row, txs, trades, itxs, passed, finished>>
brVars == <<chain, brTables, step, got, aborts>>

\* A row's data without a receipt: status true, no gas.
Default == 0

\* ON CONFLICT DO NOTHING on the natural key.
Adding(rows, T, v) == rows \cup {<<t, v>> : t \in {u \in T : \A old \in rows : old[1] # u}}

Nothing == [v |-> NoBlock, receipts |-> {}]

BlockRowsInit ==
    /\ chain = 1
    /\ row = NoBlock /\ txs = {} /\ trades = {} /\ itxs = {}
    /\ passed = FALSE /\ finished = FALSE
    /\ step = [w \in BlockWriter |-> "idle"]
    /\ got = [w \in BlockWriter |-> Nothing]
    /\ aborts = 0

Abort == aborts < MaxAborts /\ aborts' = aborts + 1

Goto(w, s) == step' = [step EXCEPT ![w] = s]
Quiet == \A w \in BlockWriter : step[w] = "idle"
Statements == {"idle", "block", "transactions", "internal", "trades",
               "unwind trades", "unwind transactions", "unwind blocks"}
Unwinding == {"unwind trades", "unwind transactions", "unwind blocks"}

ChainReplaces ==
    /\ chain + 1 \in Versions
    /\ chain' = chain + 1
    /\ UNCHANGED <<brTables, step, got, aborts>>

-----------------------------------------------------------------------------
(* processBlock. *)

\* assertReceiptCoverage: the receipts are those of the transactions.
CoveredByCount(v, receipts) == receipts # {}  \* Wrong on purpose: any answer will do.
assertReceiptCoverage(v, receipts) == receipts = TxsOf[v]

\* The block and its receipts are acquired; a partial answer is refused
\* before the first write.
Acquire(w) ==
    /\ step[w] = "idle"
    /\ \A u \in BlockWriter : step[u] \notin Unwinding /\ got[u].v \in {NoBlock, chain}
    /\ \E receipts \in SUBSET TxsOf[chain] :
          /\ assertReceiptCoverage(chain, receipts)
          /\ got' = [got EXCEPT ![w] = [v |-> chain, receipts |-> receipts]]
    /\ Goto(w, "block")
    /\ UNCHANGED <<chain, brTables, aborts>>

InsertBlock(w) ==
    /\ step[w] = "block"
    /\ row' = IF row = NoBlock THEN got[w].v ELSE row
    /\ Goto(w, "transactions")
    /\ UNCHANGED <<chain, txs, trades, itxs, passed, finished, got, aborts>>

InsertTransactions(w) ==
    /\ step[w] = "transactions"
    /\ txs' = LET known == got[w].receipts IN
              Adding(Adding(txs, known, got[w].v), TxsOf[got[w].v] \ known, Default)
    /\ Goto(w, "internal")
    /\ UNCHANGED <<chain, row, trades, itxs, passed, finished, got, aborts>>

\* Missing traces and failed inserts are reported, not thrown.
InsertInternal(w) ==
    /\ step[w] = "internal"
    /\ itxs' \in {itxs, Adding(itxs, TxsOf[got[w].v], got[w].v)}
    /\ Goto(w, "trades")
    /\ UNCHANGED <<chain, row, txs, trades, passed, finished, got, aborts>>

\* The trades of the receipts whose pair is known or answers (the others are
\* skipped).
InsertTrades(w) ==
    /\ step[w] = "trades"
    /\ \E known \in SUBSET got[w].receipts : trades' = Adding(trades, known, got[w].v)
    /\ passed' = TRUE /\ finished' = TRUE
    /\ Goto(w, "idle") /\ got' = [got EXCEPT ![w] = Nothing]
    /\ UNCHANGED <<chain, row, txs, itxs, aborts>>

\* What a statement that fails, or whose process dies under it, may leave in
\* dex_trades (a lost answer of an earlier insert is that insert and a failure
\* before the next one).
TradesLeft(w) ==
    {trades} \cup (IF step[w] = "trades"
                   THEN {Adding(trades, known, got[w].v) : known \in SUBSET got[w].receipts}
                   ELSE {})

\* A statement fails: the block stays behind half written.
StatementFails(w) ==
    /\ step[w] # "idle"
    /\ Abort
    /\ trades' \in TradesLeft(w)
    /\ Goto(w, "idle") /\ got' = [got EXCEPT ![w] = Nothing]
    /\ UNCHANGED <<chain, row, txs, itxs, passed, finished>>

\* The process dies, and the next one resumes below this height, or above it
\* if the height has a row: the cursor is MAX(blocks.number) without the
\* asynchronous writer, and where a W of zero adopts that maximum.
ProcessDies(w) ==
    /\ Abort
    /\ trades' \in TradesLeft(w)
    /\ Goto(w, "idle") /\ got' = [got EXCEPT ![w] = Nothing]
    /\ passed' \in {passed, FALSE, row # NoBlock}
    /\ UNCHANGED <<chain, row, txs, itxs, finished>>

\* The loop skips to the tip over a height that is missing or half written.
CursorJumps(w) ==
    /\ step[w] = "idle" /\ ~passed
    /\ passed' = TRUE
    /\ UNCHANGED <<chain, row, txs, trades, itxs, finished, step, got, aborts>>

-----------------------------------------------------------------------------
(* The rollback: detected on the stored hash, children before parents. *)

UnwindInOrder(w, first, second, third) ==
    \/ /\ step[w] = "idle" /\ Quiet
       /\ passed /\ row # NoBlock /\ row # chain
       /\ Goto(w, first)
       /\ UNCHANGED <<row, txs, trades, passed, finished>>
    \/ /\ step[w] = "unwind trades"
       /\ trades' = {}
       /\ Goto(w, second)
       /\ UNCHANGED <<row, txs, passed, finished>>
    \/ /\ step[w] = "unwind transactions"
       /\ txs' = {}
       /\ Goto(w, third)
       /\ UNCHANGED <<row, trades, passed, finished>>
    \/ /\ step[w] = "unwind blocks"
       /\ row' = NoBlock /\ passed' = FALSE /\ finished' = FALSE
       /\ Goto(w, IF third = "unwind blocks" THEN "idle" ELSE "unwind trades")
       /\ UNCHANGED <<txs, trades>>

UnwindBlocksFirst(w) ==  \* Wrong on purpose: parents before children.
    /\ UnwindInOrder(w, "unwind blocks", "unwind transactions", "idle")
    /\ UNCHANGED <<chain, itxs, got, aborts>>
Unwind(w) ==
    /\ UnwindInOrder(w, "unwind trades", "unwind transactions", "unwind blocks")
    /\ UNCHANGED <<chain, itxs, got, aborts>>

\* DELETE blocks commits and its answer is lost: the row is gone and the
\* cursor, moved back only after the deletes, still stands above it.
LastDeleteLost(w) ==
    /\ step[w] = "unwind blocks"
    /\ Abort
    /\ row' = NoBlock /\ finished' = FALSE
    /\ Goto(w, "idle")
    /\ UNCHANGED <<chain, txs, trades, itxs, passed, got>>

BlockRowsNext ==
    \/ ChainReplaces
    \/ \E w \in BlockWriter :
          \/ Acquire(w) \/ InsertBlock(w) \/ InsertTransactions(w) \/ InsertInternal(w)
          \/ InsertTrades(w) \/ StatementFails(w) \/ ProcessDies(w) \/ CursorJumps(w)
          \/ Unwind(w) \/ LastDeleteLost(w)

BlockRowsSpec == BlockRowsInit /\ [][BlockRowsNext]_brVars

-----------------------------------------------------------------------------
(* Properties. *)

BlockRowsTypeOK ==
    /\ chain \in Versions /\ row \in Versions \cup {NoBlock}
    /\ passed \in BOOLEAN /\ finished \in BOOLEAN
    /\ txs \subseteq BlockTxs \X (Versions \cup {Default})
    /\ trades \subseteq BlockTxs \X Versions /\ itxs \subseteq BlockTxs \X Versions
    /\ step \in [BlockWriter -> Statements]
    /\ got \in [BlockWriter -> [v : Versions \cup {NoBlock}, receipts : SUBSET BlockTxs]]
    /\ aborts \in Nat

SameAsBlock ==
    /\ txs = TxsOf[chain] \X {chain}
    /\ trades \subseteq TxsOf[chain] \X {chain}

(***************************************************************************)
(* Once a writer has got through the block and its row is the canonical    *)
(* block's, the rows are exactly that block's (reorg-handler.ts:196-256,   *)
(* block-processor.ts:357-398): no transaction missing after an abort in   *)
(* the middle, nothing of a replaced version after a rollback that was     *)
(* interrupted.                                                            *)
(***************************************************************************)
RowsExact == finished /\ row = chain => SameAsBlock

(***************************************************************************)
(* A partially persisted block is never stepped over (index.ts:456-462):   *)
(* with the cursor above a height that nobody is working on, its block has *)
(* all its rows.  The code breaks it, the cursor of a boot is              *)
(* MAX(blocks.number) with no look at the rows under that block.           *)
(***************************************************************************)
NeverSteppedOver == passed /\ Quiet /\ row = chain => SameAsBlock

(***************************************************************************)
(* A rollback deletes every block-scoped row (reorg-handler.ts:14-16), the *)
(* internal transactions included: those stored under the canonical block  *)
(* are its own.  The code breaks it, its unwind order leaves that table    *)
(* out.                                                                    *)
(***************************************************************************)
InternalRowsUnwound == passed /\ row = chain => itxs \subseteq TxsOf[chain] \X {chain}
=============================================================================
