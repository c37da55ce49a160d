----------------------------- MODULE BlockProofs ------------------------------
(***************************************************************************)
(* Theorems about what the indexer keeps with a block: the rows of a block *)
(* and their rollback (BlockRows), the token rows its writers share        *)
(* (TokenRows), the counts of its addresses (AddressFlush) and the         *)
(* notifications it sets off (Webhooks), for every value of the constants. *)
(***************************************************************************)
EXTENDS BlockRows, TokenRows, AddressFlush, Webhooks, WellFoundedInduction, TLAPS

(***************************************************************************)
(* Block rows.                                                             *)
(***************************************************************************)

Fetches == [v : Versions \cup {NoBlock}, receipts : SUBSET BlockTxs]
Active(w) == step[w] \in {"block", "transactions", "internal", "trades"}

\* A writer inside the block has all receipts of a version the chain has had,
\* and nobody else has another version.
WritersKnow ==
    \A w \in BlockWriter :
        /\ ~Active(w) => got[w] = Nothing
        /\ Active(w) => /\ got[w].v \in Versions /\ got[w].v <= chain
                        /\ got[w].receipts = TxsOf[got[w].v]
        /\ \A u \in BlockWriter : Active(w) /\ Active(u) => got[u].v = got[w].v

\* A rollback is alone, at a row the chain has left for good.
UnwindAlone ==
    \A w \in BlockWriter :
        step[w] \in Unwinding =>
            /\ row # NoBlock /\ row # chain
            /\ \A u \in BlockWriter \ {w} : step[u] = "idle"
            /\ step[w] # "unwind trades" => trades = {}
            /\ step[w] = "unwind blocks" => txs = {}

\* Without a block row there are no child rows, and nobody has got through.
ParentFirst ==
    row = NoBlock =>
        /\ txs = {} /\ trades = {} /\ ~finished
        /\ \A w \in BlockWriter : step[w] \in {"idle", "block"}

\* Under the canonical block's row everything is that block's.
RowIsOwn ==
    /\ row <= chain
    /\ row = chain =>
          /\ txs \subseteq TxsOf[chain] \X {chain} /\ trades \subseteq TxsOf[chain] \X {chain}
          /\ \A w \in BlockWriter :
                /\ Active(w) => got[w].v = chain
                /\ step[w] \in {"internal", "trades"} => txs = TxsOf[chain] \X {chain}

BlockRowsInv ==
    /\ BlockRowsTypeOK
    /\ WritersKnow /\ UnwindAlone /\ ParentFirst /\ RowIsOwn
    /\ RowsExact

(***************************************************************************)
(* What an insert that leaves existing keys alone returns.                 *)
(***************************************************************************)
LEMMA AddingType ==
    ASSUME NEW T \in SUBSET BlockTxs, NEW V, NEW v \in V,
           NEW rs \in SUBSET (BlockTxs \X V)
    PROVE  Adding(rs, T, v) \in SUBSET (BlockTxs \X V)
    BY DEF Adding

\* An insert of no rows, which the code skips, changes nothing.
LEMMA AddingNothing ==
    ASSUME NEW rs, NEW v
    PROVE  Adding(rs, {}, v) = rs
    BY DEF Adding

\* ON CONFLICT keeps the old row; with one version about, the rows are of that version.
LEMMA AddingOwn ==
    ASSUME NEW T, NEW S \in SUBSET T, NEW v, NEW rs \in SUBSET (T \X {v})
    PROVE  /\ Adding(rs, S, v) \subseteq T \X {v}
           /\ S \X {v} \subseteq Adding(rs, S, v)
<1>1. Adding(rs, S, v) \subseteq T \X {v}
    BY DEF Adding
<1>2. S \X {v} \subseteq Adding(rs, S, v)
    <2> SUFFICES ASSUME NEW t \in S PROVE <<t, v>> \in Adding(rs, S, v)
        OBVIOUS
    <2>1. CASE \A old \in rs : old[1] # t
        BY <2>1 DEF Adding
    <2>2. CASE \E old \in rs : old[1] = t
        <3>1. PICK old \in rs : old[1] = t
            BY <2>2
        <3>2. old = <<t, v>>
            BY <3>1
        <3> QED
            BY <3>1, <3>2 DEF Adding
    <2> QED
        BY <2>1, <2>2
<1> QED
    BY <1>1, <1>2

-----------------------------------------------------------------------------
(* The steps. *)

\* One step per action of a writer of blocks and of the rollback.
LEMMA BlockRowsStep == BlockRowsInv /\ [BlockRowsNext]_brVars => BlockRowsInv'
<1> SUFFICES ASSUME BlockRowsInv, [BlockRowsNext]_brVars PROVE BlockRowsInv'
    OBVIOUS
<1> USE VersionsAssumption DEF NoBlock, SameAsBlock
<1>0. /\ BlockRowsTypeOK /\ WritersKnow /\ UnwindAlone /\ ParentFirst /\ RowIsOwn /\ RowsExact
      /\ chain \in Nat \ {0} /\ row \in Nat
    BY DEF BlockRowsInv, BlockRowsTypeOK
<1>c. ASSUME row' = NoBlock, chain' = chain
      PROVE  RowIsOwn' /\ RowsExact'
    BY <1>0, <1>c DEF RowIsOwn, RowsExact
<1>g. ASSUME NEW w \in BlockWriter
      PROVE  /\ got[w] \in Fetches /\ step[w] \in Statements
    BY <1>0 DEF BlockRowsTypeOK, Fetches
<1>t. ASSUME NEW s \in Statements, NEW w \in BlockWriter, Goto(w, s)
      PROVE  /\ step' \in [BlockWriter -> Statements] /\ step'[w] = s
             /\ \A u \in BlockWriter : u # w => step'[u] = step[u]
    BY <1>0, <1>t DEF Goto, BlockRowsTypeOK
<1>s. /\ {"idle", "block", "transactions", "internal", "trades"} \subseteq Statements
      /\ Unwinding \subseteq Statements /\ Nothing \in Fetches
    BY DEF Statements, Unwinding, Nothing, Fetches
<1>1. CASE ChainReplaces
    <2>1. /\ chain' = chain + 1 /\ chain' \in Versions
          /\ row' = row /\ txs' = txs /\ trades' = trades /\ itxs' = itxs /\ passed' = passed
          /\ finished' = finished
          /\ step' = step /\ got' = got /\ aborts' = aborts
        BY <1>1 DEF ChainReplaces, brTables
    <2>2. row # chain'
        BY <1>0, <2>1 DEF RowIsOwn
    <2>3. BlockRowsTypeOK'
        BY <1>0, <2>1 DEF BlockRowsTypeOK, brTables
    <2>4. WritersKnow'
        <3>1. \A w \in BlockWriter : Active(w)' <=> Active(w)
            BY <2>1 DEF Active
        <3>2. \A w \in BlockWriter : Active(w) => got[w].v <= chain'
            <4> SUFFICES ASSUME NEW w \in BlockWriter, Active(w) PROVE got[w].v <= chain'
                OBVIOUS
            <4>1. got[w].v \in Nat /\ got[w].v <= chain
                BY <1>0 DEF WritersKnow
            <4> QED
                BY <1>0, <2>1, <4>1
        <3> QED
            BY <1>0, <2>1, <3>1, <3>2 DEF WritersKnow
    <2>5. UnwindAlone'
        BY <1>0, <2>1, <2>2 DEF UnwindAlone
    <2>6. ParentFirst'
        BY <1>0, <2>1 DEF ParentFirst
    <2>7. RowIsOwn' /\ RowsExact'
        BY <1>0, <2>1, <2>2 DEF RowIsOwn, RowsExact
    <2> QED
        BY <2>3, <2>4, <2>5, <2>6, <2>7 DEF BlockRowsInv
<1>2. ASSUME NEW w \in BlockWriter, Acquire(w) PROVE BlockRowsInv'
    <2>1. /\ step[w] = "idle" /\ Goto(w, "block") /\ UNCHANGED <<chain, brTables, aborts>>
          /\ \A u \in BlockWriter : step[u] \notin Unwinding /\ got[u].v \in {NoBlock, chain}
          /\ got' = [got EXCEPT ![w] = [v |-> chain, receipts |-> TxsOf[chain]]]
        BY <1>2 DEF Acquire, assertReceiptCoverage
    <2>2. /\ step' \in [BlockWriter -> Statements] /\ step'[w] = "block"
          /\ \A u \in BlockWriter : u # w => step'[u] = step[u]
        BY <1>s, <1>t, <2>1
    <2>3. [v |-> chain, receipts |-> TxsOf[chain]] \in Fetches
        BY <1>0 DEF Fetches, BlockRowsTypeOK, BlockTxs
    <2>4. /\ got' \in [BlockWriter -> Fetches]
          /\ got'[w].v = chain /\ got'[w].receipts = TxsOf[chain]
          /\ \A u \in BlockWriter : u # w => got'[u] = got[u]
        BY <1>0, <2>1, <2>3 DEF BlockRowsTypeOK, Fetches
    <2>5. BlockRowsTypeOK'
        BY <1>0, <2>1, <2>2, <2>4 DEF BlockRowsTypeOK, brTables, Fetches
    <2>6. \A u \in BlockWriter : Active(u)' => got'[u].v = chain
        BY <1>0, <2>1, <2>2, <2>4 DEF WritersKnow, Active
    <2>7. WritersKnow'
        BY <1>0, <2>1, <2>2, <2>4, <2>6 DEF WritersKnow, Active, BlockRowsTypeOK
    <2>8. UnwindAlone'
        BY <2>1, <2>2 DEF UnwindAlone, Unwinding
    <2>9. ParentFirst'
        BY <1>0, <2>1, <2>2 DEF ParentFirst, brTables
    <2>10. RowIsOwn' /\ RowsExact'
        BY <1>0, <2>1, <2>2, <2>6 DEF RowIsOwn, RowsExact, brTables
    <2> QED
        BY <2>5, <2>7, <2>8, <2>9, <2>10 DEF BlockRowsInv
<1>f. ASSUME NEW w \in BlockWriter, Active(w)
      PROVE  /\ got[w].v \in Versions /\ got[w].v <= chain /\ got[w].receipts = TxsOf[got[w].v]
             /\ TxsOf[got[w].v] \subseteq BlockTxs
             /\ \A u \in BlockWriter : step[u] \notin Unwinding
    <2>1. got[w].v \in Versions /\ got[w].v <= chain /\ got[w].receipts = TxsOf[got[w].v]
        BY <1>0, <1>f DEF WritersKnow
    <2>2. \A u \in BlockWriter : step[u] \notin Unwinding
        BY <1>0, <1>f DEF UnwindAlone, Active, Unwinding
    <2> QED
        BY <2>1, <2>2 DEF BlockTxs
<1>3. ASSUME NEW w \in BlockWriter, InsertBlock(w) PROVE BlockRowsInv'
    <2>1. /\ step[w] = "block" /\ Active(w) /\ Goto(w, "transactions")
          /\ row' = IF row = NoBlock THEN got[w].v ELSE row
          /\ UNCHANGED <<chain, txs, trades, itxs, passed, finished, got, aborts>>
        BY <1>3 DEF InsertBlock, Active
    <2>2. /\ step' \in [BlockWriter -> Statements] /\ step'[w] = "transactions"
          /\ \A u \in BlockWriter : u # w => step'[u] = step[u]
        BY <1>s, <1>t, <2>1
    <2>3. \A u \in BlockWriter : Active(u)' <=> Active(u)
        BY <2>1, <2>2 DEF Active
    <2>4. BlockRowsTypeOK'
        BY <1>0, <1>f, <2>1, <2>2 DEF BlockRowsTypeOK
    <2>5. WritersKnow'
        BY <1>0, <2>1, <2>3 DEF WritersKnow
    <2>6. UnwindAlone'
        BY <1>f, <2>1, <2>2 DEF UnwindAlone, Unwinding
    <2>7. row' # NoBlock /\ ParentFirst'
        BY <1>f, <1>0, <2>1 DEF ParentFirst
    <2>8. CASE row = NoBlock
        <3>1. row' = got[w].v /\ txs = {} /\ trades = {} /\ ~finished
              /\ \A u \in BlockWriter : step[u] \in {"idle", "block"}
            BY <1>0, <2>1, <2>8 DEF ParentFirst
        <3>2. \A u \in BlockWriter : Active(u) => got[u].v = got[w].v
            BY <1>0, <2>1 DEF WritersKnow
        <3>3. \A u \in BlockWriter : step'[u] \notin {"internal", "trades"}
            BY <2>2, <3>1
        <3> QED
            BY <1>0, <1>f, <2>1, <2>3, <2>4, <2>5, <2>6, <2>7, <3>1, <3>2, <3>3
            DEF BlockRowsInv, RowIsOwn, RowsExact
    <2>9. CASE row # NoBlock
        <3>1. row' = row
            BY <2>1, <2>9
        <3> QED
            BY <1>0, <2>1, <2>2, <2>3, <2>4, <2>5, <2>6, <2>7, <3>1
            DEF BlockRowsInv, RowIsOwn, RowsExact
    <2> QED
        BY <2>8, <2>9
<1>4. ASSUME NEW w \in BlockWriter, InsertTransactions(w) PROVE BlockRowsInv'
    <2> DEFINE T == TxsOf[got[w].v]
    <2>1. /\ step[w] = "transactions" /\ Active(w) /\ Goto(w, "internal")
          /\ txs' = Adding(Adding(txs, got[w].receipts, got[w].v), T \ got[w].receipts, Default)
          /\ UNCHANGED <<chain, row, trades, itxs, passed, finished, got, aborts>>
        BY <1>4 DEF InsertTransactions, Active
    <2>2. /\ step' \in [BlockWriter -> Statements] /\ step'[w] = "internal"
          /\ \A u \in BlockWriter : u # w => step'[u] = step[u]
        BY <1>s, <1>t, <2>1
    <2>3. \A u \in BlockWriter : Active(u)' <=> Active(u)
        BY <2>1, <2>2 DEF Active
    <2>4. txs' = Adding(txs, T, got[w].v)
        <3>1. got[w].receipts = T /\ T \ got[w].receipts = {}
            BY <1>f, <2>1
        <3> QED
            BY <2>1, <3>1, AddingNothing
    <2>5. txs' \in SUBSET (BlockTxs \X (Versions \cup {Default}))
        <3>1. txs \in SUBSET (BlockTxs \X (Versions \cup {Default}))
            BY <1>0 DEF BlockRowsTypeOK
        <3>2. T \in SUBSET BlockTxs /\ got[w].v \in Versions \cup {Default}
            BY <1>f, <2>1
        <3> HIDE DEF T
        <3> QED
            BY <2>4, <3>1, <3>2, AddingType
    <2>6. BlockRowsTypeOK'
        BY <1>0, <2>1, <2>2, <2>5 DEF BlockRowsTypeOK
    <2>7. WritersKnow'
        BY <1>0, <2>1, <2>3 DEF WritersKnow
    <2>8. row # NoBlock
        BY <1>0, <2>1 DEF ParentFirst
    <2>9. UnwindAlone' /\ ParentFirst'
        BY <1>f, <2>1, <2>2, <2>8 DEF UnwindAlone, Unwinding, ParentFirst
    <2>10. row = chain => txs' = TxsOf[chain] \X {chain}
        <3> SUFFICES ASSUME row = chain PROVE txs' = TxsOf[chain] \X {chain}
            OBVIOUS
        <3>1. got[w].v = chain /\ txs \in SUBSET (TxsOf[chain] \X {chain})
            BY <1>0, <2>1 DEF RowIsOwn
        <3>2. /\ Adding(txs, TxsOf[chain], chain) \subseteq TxsOf[chain] \X {chain}
              /\ TxsOf[chain] \X {chain} \subseteq Adding(txs, TxsOf[chain], chain)
            BY <3>1, AddingOwn
        <3> QED
            BY <2>4, <3>1, <3>2
    <2>11. RowIsOwn' /\ RowsExact'
        BY <1>0, <2>1, <2>2, <2>3, <2>10 DEF RowIsOwn, RowsExact
    <2> QED
        BY <2>6, <2>7, <2>9, <2>11 DEF BlockRowsInv
<1>5. ASSUME NEW w \in BlockWriter, InsertInternal(w) PROVE BlockRowsInv'
    <2>1. /\ step[w] = "internal" /\ Active(w) /\ Goto(w, "trades")
          /\ itxs' \in {itxs, Adding(itxs, TxsOf[got[w].v], got[w].v)}
          /\ UNCHANGED <<chain, row, txs, trades, passed, finished, got, aborts>>
        BY <1>5 DEF InsertInternal, Active
    <2>2. /\ step' \in [BlockWriter -> Statements] /\ step'[w] = "trades"
          /\ \A u \in BlockWriter : u # w => step'[u] = step[u]
        BY <1>s, <1>t, <2>1
    <2>3. \A u \in BlockWriter : Active(u)' <=> Active(u)
        BY <2>1, <2>2 DEF Active
    <2>4. itxs' \in SUBSET (BlockTxs \X Versions)
        BY <1>0, <1>f, <2>1, AddingType DEF BlockRowsTypeOK
    <2>5. BlockRowsTypeOK'
        BY <1>0, <2>1, <2>2, <2>4 DEF BlockRowsTypeOK
    <2>6. WritersKnow'
        BY <1>0, <2>1, <2>3 DEF WritersKnow
    <2>7. UnwindAlone' /\ ParentFirst'
        BY <1>0, <1>f, <2>1, <2>2 DEF UnwindAlone, Unwinding, ParentFirst
    <2>8. RowIsOwn' /\ RowsExact'
        BY <1>0, <2>1, <2>2, <2>3 DEF RowIsOwn, RowsExact
    <2> QED
        BY <2>5, <2>6, <2>7, <2>8 DEF BlockRowsInv
<1>6. ASSUME NEW w \in BlockWriter, InsertTrades(w) PROVE BlockRowsInv'
    <2>1. PICK known \in SUBSET got[w].receipts : trades' = Adding(trades, known, got[w].v)
        BY <1>6 DEF InsertTrades
    <2>2. /\ step[w] = "trades" /\ Active(w) /\ Goto(w, "idle")
          /\ got' = [got EXCEPT ![w] = Nothing] /\ passed' = TRUE /\ finished' = TRUE
          /\ UNCHANGED <<chain, row, txs, itxs, aborts>>
        BY <1>6 DEF InsertTrades, Active
    <2>3. /\ step' \in [BlockWriter -> Statements] /\ step'[w] = "idle"
          /\ \A u \in BlockWriter : u # w => step'[u] = step[u]
        BY <1>s, <1>t, <2>2
    <2>4. /\ got' \in [BlockWriter -> Fetches] /\ got'[w] = Nothing
          /\ \A u \in BlockWriter : u # w => got'[u] = got[u]
        BY <1>0, <1>s, <2>2 DEF BlockRowsTypeOK, Fetches
    <2>5. trades' \in SUBSET (BlockTxs \X Versions)
        BY <1>0, <1>f, <2>1, <2>2, AddingType DEF BlockRowsTypeOK
    <2>6. BlockRowsTypeOK'
        BY <1>0, <2>2, <2>3, <2>4, <2>5 DEF BlockRowsTypeOK, Fetches
    <2>7. WritersKnow'
        BY <1>0, <2>2, <2>3, <2>4 DEF WritersKnow, Active
    <2>8. row # NoBlock
        BY <1>0, <2>2 DEF ParentFirst
    <2>9. UnwindAlone' /\ ParentFirst'
        BY <1>f, <2>2, <2>3, <2>8 DEF UnwindAlone, Unwinding, ParentFirst
    <2>10. row = chain => trades' \subseteq TxsOf[chain] \X {chain}
        <3> SUFFICES ASSUME row = chain PROVE trades' \subseteq TxsOf[chain] \X {chain}
            OBVIOUS
        <3>1. got[w].v = chain /\ trades \in SUBSET (TxsOf[chain] \X {chain})
            BY <1>0, <2>2 DEF RowIsOwn
        <3>2. known \in SUBSET TxsOf[chain]
            BY <1>f, <2>2, <3>1
        <3> QED
            BY <2>1, <3>1, <3>2, AddingOwn
    <2>11. RowIsOwn' /\ RowsExact'
        BY <1>0, <2>2, <2>3, <2>4, <2>10 DEF RowIsOwn, RowsExact, Active
    <2> QED
        BY <2>6, <2>7, <2>9, <2>11 DEF BlockRowsInv
<1>b. ASSUME NEW w \in BlockWriter, NEW left \in TradesLeft(w)
      PROVE  /\ left \in SUBSET (BlockTxs \X Versions)
             /\ row = NoBlock => left = {}
             /\ step[w] \in Unwinding => left = trades
             /\ row = chain => left \subseteq TxsOf[chain] \X {chain}
    <2>1. CASE left = trades
        BY <1>0, <2>1 DEF BlockRowsTypeOK, ParentFirst, RowIsOwn
    <2>2. CASE left # trades
        <3>1. step[w] = "trades" /\ Active(w) /\ step[w] \notin Unwinding
            BY <1>b, <2>2 DEF TradesLeft, Active, Unwinding
        <3>2. PICK known \in SUBSET got[w].receipts : left = Adding(trades, known, got[w].v)
            BY <1>b, <2>2, <3>1 DEF TradesLeft
        <3>3. left \in SUBSET (BlockTxs \X Versions)
            BY <1>0, <1>f, <3>1, <3>2, AddingType DEF BlockRowsTypeOK
        <3>4. row # NoBlock
            BY <1>0, <3>1 DEF ParentFirst
        <3>5. row = chain => left \subseteq TxsOf[chain] \X {chain}
            <4> SUFFICES ASSUME row = chain PROVE left \subseteq TxsOf[chain] \X {chain}
                OBVIOUS
            <4>1. got[w].v = chain /\ trades \in SUBSET (TxsOf[chain] \X {chain})
                BY <1>0, <3>1 DEF RowIsOwn
            <4>2. known \in SUBSET TxsOf[chain]
                BY <1>f, <3>1, <3>2, <4>1
            <4> QED
                BY <3>2, <4>1, <4>2, AddingOwn
        <3> QED
            BY <3>1, <3>3, <3>4, <3>5
    <2> QED
        BY <2>1, <2>2
<1>7. ASSUME NEW w \in BlockWriter, StatementFails(w) \/ ProcessDies(w) PROVE BlockRowsInv'
    <2>1. /\ Goto(w, "idle") /\ got' = [got EXCEPT ![w] = Nothing]
          /\ passed' \in BOOLEAN /\ aborts' \in Nat
          /\ trades' \in TradesLeft(w)
          /\ UNCHANGED <<chain, row, txs, itxs, finished>>
        <3>1. CASE StatementFails(w)
            BY <1>0, <3>1 DEF StatementFails, Abort, BlockRowsTypeOK
        <3>2. CASE ProcessDies(w)
            <4>1. aborts' \in Nat
                BY <1>0, <3>2 DEF ProcessDies, Abort, BlockRowsTypeOK
            <4>2. passed' \in BOOLEAN
                <5>1. passed \in BOOLEAN
                    BY <1>0 DEF BlockRowsTypeOK
                <5>2. passed' \in {passed, FALSE, row # NoBlock}
                    BY <3>2 DEF ProcessDies
                <5> QED
                    BY <5>1, <5>2
            <4> QED
                BY <3>2, <4>1, <4>2 DEF ProcessDies
        <3> QED
            BY <1>7, <3>1, <3>2
    <2>2. /\ step' \in [BlockWriter -> Statements] /\ step'[w] = "idle"
          /\ \A u \in BlockWriter : u # w => step'[u] = step[u]
        BY <1>s, <1>t, <2>1
    <2>3. /\ got' \in [BlockWriter -> Fetches] /\ got'[w] = Nothing
          /\ \A u \in BlockWriter : u # w => got'[u] = got[u]
        BY <1>0, <1>s, <2>1 DEF BlockRowsTypeOK, Fetches
    <2>4. /\ trades' \in SUBSET (BlockTxs \X Versions)
          /\ row = NoBlock => trades' = {}
          /\ row = chain => trades' \subseteq TxsOf[chain] \X {chain}
        BY <1>b, <2>1
    <2>5. BlockRowsTypeOK'
        BY <1>0, <2>1, <2>2, <2>3, <2>4 DEF BlockRowsTypeOK, Fetches
    <2>6. WritersKnow'
        BY <1>0, <2>1, <2>2, <2>3 DEF WritersKnow, Active
    <2>7. UnwindAlone'
        <3> SUFFICES ASSUME NEW u \in BlockWriter, step'[u] \in Unwinding
                     PROVE  /\ row # NoBlock /\ row # chain
                            /\ \A x \in BlockWriter \ {u} : step'[x] = "idle"
                            /\ step'[u] # "unwind trades" => trades' = {}
                            /\ step'[u] = "unwind blocks" => txs = {}
            BY <2>1 DEF UnwindAlone
        <3>1. u # w /\ step'[u] = step[u]
            BY <2>2 DEF Unwinding
        <3>2. step[w] = "idle"
            BY <1>0, <3>1 DEF UnwindAlone
        <3>3. trades' = trades
            BY <2>1, <3>2 DEF TradesLeft
        <3> QED
            BY <1>0, <2>2, <3>1, <3>3 DEF UnwindAlone
    <2>8. ParentFirst'
        BY <1>0, <2>1, <2>2, <2>4 DEF ParentFirst
    <2>9. RowIsOwn' /\ RowsExact'
        BY <1>0, <2>1, <2>2, <2>3, <2>4 DEF RowIsOwn, RowsExact, Active
    <2> QED
        BY <2>5, <2>6, <2>7, <2>8, <2>9 DEF BlockRowsInv
<1>j. ASSUME NEW w \in BlockWriter, CursorJumps(w) PROVE BlockRowsInv'
    BY <1>0, <1>j DEF CursorJumps, BlockRowsInv, BlockRowsTypeOK, WritersKnow, Active,
                      UnwindAlone, ParentFirst, RowIsOwn, RowsExact
<1>l. ASSUME NEW w \in BlockWriter, LastDeleteLost(w) PROVE BlockRowsInv'
    <2>1. /\ step[w] = "unwind blocks" /\ row' = NoBlock /\ finished' = FALSE /\ Goto(w, "idle")
          /\ UNCHANGED <<chain, txs, trades, itxs, passed, got>>
        BY <1>l DEF LastDeleteLost
    <2>2. aborts' \in Nat
        <3>1. aborts \in Nat
            BY <1>0 DEF BlockRowsTypeOK
        <3>2. aborts' = aborts + 1
            BY <1>l DEF LastDeleteLost, Abort
        <3> QED
            BY <3>1, <3>2
    <2>3. /\ txs = {} /\ trades = {}
          /\ \A u \in BlockWriter \ {w} : step[u] = "idle"
        BY <1>0, <2>1 DEF UnwindAlone, Unwinding
    <2>4. step' \in [BlockWriter -> Statements] /\ \A u \in BlockWriter : step'[u] = "idle"
        BY <1>s, <1>t, <2>1, <2>3
    <2>5. BlockRowsTypeOK'
        BY <1>0, <2>1, <2>2, <2>4 DEF BlockRowsTypeOK
    <2>6. WritersKnow'
        BY <1>0, <2>1, <2>3, <2>4 DEF WritersKnow, Active
    <2>7. UnwindAlone' /\ ParentFirst'
        BY <2>1, <2>3, <2>4 DEF UnwindAlone, Unwinding, ParentFirst
    <2>8. RowIsOwn' /\ RowsExact'
        BY <1>c, <2>1
    <2> QED
        BY <2>5, <2>6, <2>7, <2>8 DEF BlockRowsInv
<1>8. ASSUME NEW w \in BlockWriter, Unwind(w) PROVE BlockRowsInv'
    <2> USE DEF Unwind, UnwindInOrder
    <2>0. UNCHANGED <<chain, itxs, got, aborts>>
        BY <1>8
    <2>1. CASE step[w] = "idle"
        <3>1. /\ Quiet /\ row # NoBlock /\ row # chain
              /\ Goto(w, "unwind trades") /\ UNCHANGED <<row, txs, trades, passed, finished>>
            BY <1>8, <2>1
        <3>2. /\ step' \in [BlockWriter -> Statements] /\ step'[w] = "unwind trades"
              /\ \A u \in BlockWriter : u # w => step'[u] = "idle"
            BY <1>s, <1>t, <3>1 DEF Quiet, Unwinding
        <3>3. \A u \in BlockWriter : ~Active(u) /\ ~Active(u)'
            BY <3>1, <3>2 DEF Active, Quiet
        <3> QED
            BY <1>0, <2>0, <3>1, <3>2, <3>3
            DEF BlockRowsInv, BlockRowsTypeOK, WritersKnow, UnwindAlone, Unwinding, ParentFirst,
                RowIsOwn, RowsExact
    <2>2. CASE step[w] \in Unwinding
        <3>1. /\ row # NoBlock /\ row # chain
              /\ \A u \in BlockWriter \ {w} : step[u] = "idle"
              /\ step[w] # "unwind trades" => trades = {}
              /\ step[w] = "unwind blocks" => txs = {}
            BY <1>0, <2>2 DEF UnwindAlone
        <3>2. \A u \in BlockWriter : ~Active(u)
            BY <2>2, <3>1 DEF Active, Unwinding
        <3>3. PICK s \in {"unwind transactions", "unwind blocks", "idle"} : Goto(w, s)
            BY <1>8, <2>2 DEF Unwinding
        <3>4. /\ step' \in [BlockWriter -> Statements] /\ step'[w] = s
              /\ \A u \in BlockWriter : u # w => step'[u] = "idle"
            BY <1>s, <1>t, <3>1, <3>3 DEF Unwinding
        <3>5. \A u \in BlockWriter : ~Active(u)'
            BY <3>4 DEF Active
        <3>6. WritersKnow'
            BY <1>0, <2>0, <3>2, <3>5 DEF WritersKnow
        <3>7. CASE step[w] = "unwind trades"
            <4>1. trades' = {} /\ UNCHANGED <<row, txs, passed, finished>>
                  /\ Goto(w, "unwind transactions")
                BY <1>8, <3>7
            <4>2. step'[w] = "unwind transactions"
                BY <1>s, <1>t, <4>1 DEF Unwinding
            <4> QED
                BY <1>0, <2>0, <3>1, <3>4, <3>6, <4>1, <4>2
                DEF BlockRowsInv, BlockRowsTypeOK, UnwindAlone, Unwinding, ParentFirst,
                    RowIsOwn, RowsExact
        <3>8. CASE step[w] = "unwind transactions"
            <4>1. txs' = {} /\ UNCHANGED <<row, trades, passed, finished>>
                BY <1>8, <3>8
            <4> QED
                BY <1>0, <2>0, <3>1, <3>4, <3>6, <3>8, <4>1
                DEF BlockRowsInv, BlockRowsTypeOK, UnwindAlone, Unwinding, ParentFirst,
                    RowIsOwn, RowsExact
        <3>9. CASE step[w] = "unwind blocks"
            <4>1. /\ row' = NoBlock /\ passed' = FALSE /\ finished' = FALSE
                  /\ UNCHANGED <<txs, trades>>
                  /\ txs = {} /\ trades = {} /\ Goto(w, "idle")
                BY <1>8, <3>1, <3>9
            <4>2. \A u \in BlockWriter : step'[u] = "idle"
                BY <1>s, <1>t, <3>4, <4>1
            <4>3. BlockRowsTypeOK'
                BY <1>0, <2>0, <3>4, <4>1 DEF BlockRowsTypeOK
            <4>4. UnwindAlone' /\ ParentFirst'
                BY <4>1, <4>2 DEF UnwindAlone, Unwinding, ParentFirst
            <4>5. RowIsOwn' /\ RowsExact'
                BY <1>c, <2>0, <4>1
            <4> QED
                BY <3>6, <4>3, <4>4, <4>5 DEF BlockRowsInv
        <3> QED
            BY <2>2, <3>7, <3>8, <3>9 DEF Unwinding
    <2> QED
        BY <1>8, <2>1, <2>2 DEF Unwinding
<1>9. CASE UNCHANGED brVars
    BY <1>0, <1>9 DEF brVars, brTables, BlockRowsInv, BlockRowsTypeOK, WritersKnow, Active,
                      UnwindAlone, ParentFirst, RowIsOwn, RowsExact
<1> QED
    BY <1>1, <1>2, <1>3, <1>4, <1>5, <1>6, <1>7, <1>j, <1>l, <1>8, <1>9 DEF BlockRowsNext

(***************************************************************************)
(* The rows of one height and what its writers know of them.               *)
(***************************************************************************)
THEOREM BlockRowsInvariance == BlockRowsSpec => []BlockRowsInv
<1>1. BlockRowsInit => BlockRowsInv
    <2> SUFFICES ASSUME BlockRowsInit PROVE BlockRowsInv
        OBVIOUS
    <2> USE VersionsAssumption DEF BlockRowsInit, Nothing, NoBlock, SameAsBlock
    <2>1. BlockRowsTypeOK
        BY DEF BlockRowsTypeOK, Statements
    <2>2. WritersKnow /\ UnwindAlone /\ ParentFirst
        BY DEF WritersKnow, Active, UnwindAlone, Unwinding, ParentFirst
    <2>3. RowIsOwn /\ RowsExact
        BY DEF RowIsOwn, RowsExact
    <2> QED
        BY <2>1, <2>2, <2>3 DEF BlockRowsInv
<1> QED
    BY <1>1, BlockRowsStep, PTL DEF BlockRowsSpec

(***************************************************************************)
(* Once a writer has got through a height that bears its canonical block,  *)
(* the rows are exactly that block's (reorg-handler.ts:196-256,            *)
(* block-processor.ts:357-398), wherever a restart or a jump has put the   *)
(* cursor.                                                                 *)
(***************************************************************************)
THEOREM RowsExactSafe == BlockRowsSpec => []RowsExact
<1>1. BlockRowsInv => RowsExact
    BY DEF BlockRowsInv
<1> QED
    BY <1>1, BlockRowsInvariance, PTL

(***************************************************************************)
(* Token rows: any number of workers and of tokens.                        *)
(***************************************************************************)

Calls == [at : {"idle", "fetch", "insert"}, valid : SUBSET Token,
          todo : SUBSET Token, held : SUBSET Token]

(***************************************************************************)
(* A set of tokens that is not empty has a greatest one.                   *)
(***************************************************************************)
LEMMA GreatestToken ==
    ASSUME NEW S \in SUBSET Token, S # {}
    PROVE  \E t \in S : \A u \in S : u <= t
<1> DEFINE Below == {NumTokens - t : t \in S}
           Less == {pair \in Nat \X Nat : pair[1] < pair[2]}
<1>0. S \subseteq Token /\ \A t \in S : t \in Nat /\ NumTokens - t \in Nat
    <2> HIDE DEF Less, Below
    <2> QED
        BY TokenRowsAssumption DEF Token
<1>1. Below \subseteq Nat /\ Below # {}
    <2> HIDE DEF Less
    <2> QED
        BY <1>0
<1>2. IsWellFoundedOn(Less, Nat)
    BY NatLessThanWellFounded DEF OpToRel
<1>3. \A x, y \in Nat : x < y => <<x, y>> \in Less
    OBVIOUS
<1> HIDE DEF Less
<1>4. PICK least \in Below : \A y \in Below : ~(<<y, least>> \in Less)
    <2> HIDE DEF Below
    <2> QED
        BY <1>1, <1>2, WFMin
<1>5. \A y \in Below : least <= y
    <2> HIDE DEF Below
    <2>1. least \in Nat
        BY <1>1
    <2>2. \A y \in Below : y \in Nat /\ ~(y < least)
        BY <1>1, <1>3, <1>4, <2>1
    <2> QED
        BY <2>1, <2>2
<1>6. PICK t \in S : least = NumTokens - t
    BY <1>4
<1>7. \A u \in S : u <= t
    <2>1. \A u \in S : NumTokens - t <= NumTokens - u
        BY <1>5, <1>6
    <2> QED
        BY <1>0, <2>1, TokenRowsAssumption
<1> QED
    BY <1>7

-----------------------------------------------------------------------------
(* The inductive invariant. *)

\* What a statement holds comes before what it still has to take.
TakenInOrder == \A w \in Inserter : \A t \in ens[w].held, u \in ens[w].todo : t < u

\* Rows are taken by statements only, and what one no longer has to take is there.
RowsOfStatements ==
    \A w \in Inserter :
        /\ ens[w].at # "insert" => ens[w].todo = {} /\ ens[w].held = {}
        /\ ens[w].at = "insert" => ens[w].valid \subseteq ens[w].todo \cup ens[w].held \cup tokens

TokenRowsInv == TokenRowsTypeOK /\ TakenInOrder /\ RowsOfStatements /\ CachedIsStored

-----------------------------------------------------------------------------
(* The steps. *)

\* A call of ensureTokenRows moves: what its new state must satisfy.
LEMMA CallMoves ==
    ASSUME TokenRowsInv, tokens \subseteq tokens', tokens' \subseteq Token,
           tokenCache' \subseteq tokens',
           NEW w \in Inserter, NEW c \in Calls, ens' = [ens EXCEPT ![w] = c],
           \A t \in c.held, u \in c.todo : t < u,
           c.at # "insert" => c.todo = {} /\ c.held = {},
           c.at = "insert" => c.valid \subseteq c.todo \cup c.held \cup tokens'
    PROVE  TokenRowsInv'
<1>1. ens \in [Inserter -> Calls]
    BY DEF TokenRowsInv, TokenRowsTypeOK, Calls
<1>2. ens' \in [Inserter -> Calls]
    BY <1>1
<1>3. TokenRowsTypeOK'
    BY <1>2 DEF TokenRowsTypeOK, Calls
<1>4. \A v \in Inserter : ens'[v] = IF v = w THEN c ELSE ens[v]
    BY <1>1
<1> QED
    BY <1>3, <1>4 DEF TokenRowsInv, TakenInOrder, RowsOfStatements, CachedIsStored

\* One step per statement of the three kinds of inserters.
LEMMA TokenRowsStep == TokenRowsInv /\ [TokenRowsNext]_tkVars => TokenRowsInv'
<1> SUFFICES ASSUME TokenRowsInv, [TokenRowsNext]_tkVars
             PROVE  TokenRowsInv'
    OBVIOUS
<1>0. /\ ens \in [Inserter -> Calls] /\ tokens \subseteq Token /\ tokenCache \subseteq tokens
      /\ NoCall \in Calls
    BY DEF TokenRowsInv, TokenRowsTypeOK, CachedIsStored, Calls, NoCall
<1>1. ASSUME NEW w \in Inserter, NEW S \in SUBSET Token, LookUp(w, S)
      PROVE  TokenRowsInv'
    <2> DEFINE c == [NoCall EXCEPT !.at = "fetch", !.valid = S \ tokens]
    <2>1. c \in Calls /\ c.at # "insert" /\ c.todo = {} /\ c.held = {}
        BY DEF NoCall, Calls
    <2>2. /\ ens' = [ens EXCEPT ![w] = c] /\ tokens' = tokens
          /\ tokenCache' \subseteq tokens
        BY <1>0, <1>1 DEF LookUp
    <2> HIDE DEF c
    <2> QED
        BY <1>0, <2>1, <2>2, CallMoves
<1>2. ASSUME NEW w \in Inserter, NEW S \in SUBSET Token, FetchMetadata(w, S)
      PROVE  TokenRowsInv'
    <2> DEFINE c == [at |-> "insert", valid |-> S, todo |-> S, held |-> {}]
    <2>1. c \in Calls /\ c.at = "insert" /\ c.valid = S /\ c.todo = S /\ c.held = {}
        BY DEF Calls
    <2>2. ens' = [ens EXCEPT ![w] = c] /\ UNCHANGED <<tokens, tokenCache>>
        BY <1>2 DEF FetchMetadata
    <2> HIDE DEF c
    <2> QED
        BY <1>0, <2>1, <2>2, CallMoves
<1>3. ASSUME NEW w \in Inserter, NEW t \in Token, TakeRow(w, t)
      PROVE  TokenRowsInv'
    <2> DEFINE c == [ens[w] EXCEPT !.todo = @ \ {t},
                                   !.held = IF t \in tokens THEN @ ELSE @ \cup {t}]
    <2>1. /\ ens' = [ens EXCEPT ![w] = c] /\ UNCHANGED <<tokens, tokenCache>>
          /\ ens[w].at = "insert" /\ t \in ens[w].todo /\ \A u \in ens[w].todo : t <= u
        BY <1>0, <1>3 DEF TakeRow, NextRow, Calls
    <2>2. ens[w] \in Calls
        BY <1>0
    <2>3. /\ c \in Calls /\ c.at = ens[w].at /\ c.valid = ens[w].valid
          /\ c.todo = ens[w].todo \ {t}
          /\ c.held = IF t \in tokens THEN ens[w].held ELSE ens[w].held \cup {t}
        BY <2>2 DEF Calls
    <2> HIDE DEF c
    <2>4. \A u \in c.todo : t < u
        BY <2>1, <2>2, <2>3 DEF Calls, Token
    <2>5. \A s \in c.held, u \in c.todo : s < u
        BY <2>3, <2>4 DEF TokenRowsInv, TakenInOrder
    <2>6. c.valid \subseteq c.todo \cup c.held \cup tokens
        BY <2>1, <2>3 DEF TokenRowsInv, RowsOfStatements
    <2> QED
        BY <1>0, <2>1, <2>3, <2>5, <2>6, CallMoves
<1>4. ASSUME NEW w \in Inserter, CommitRows(w)
      PROVE  TokenRowsInv'
    <2>1. /\ ens' = [ens EXCEPT ![w] = NoCall]
          /\ tokens' = tokens \cup ens[w].held
          /\ tokenCache' = tokenCache \cup ens[w].valid
          /\ ens[w].at = "insert" /\ ens[w].todo = {}
        BY <1>4 DEF CommitRows
    <2>2. ens[w].valid \subseteq ens[w].held \cup tokens /\ ens[w].held \subseteq Token
        BY <1>0, <2>1 DEF TokenRowsInv, RowsOfStatements, Calls
    <2>3. NoCall.at = "idle" /\ NoCall.todo = {} /\ NoCall.held = {}
        BY DEF NoCall
    <2> QED
        BY <1>0, <2>1, <2>2, <2>3, CallMoves
<1>5. ASSUME NEW w \in Inserter, InsertFails(w)
      PROVE  TokenRowsInv'
    <2> DEFINE c == [ens[w] EXCEPT !.todo = ens[w].valid, !.held = {}]
    <2>1. UNCHANGED <<tokens, tokenCache>> /\ ens[w].at = "insert"
        BY <1>5 DEF InsertFails
    <2>2. ens[w] \in Calls
        BY <1>0
    <2>3. /\ c \in Calls /\ c.at = ens[w].at /\ c.valid = ens[w].valid
          /\ c.todo = ens[w].valid /\ c.held = {}
        BY <2>2 DEF Calls
    <2>4. NoCall.at = "idle" /\ NoCall.todo = {} /\ NoCall.held = {}
        BY DEF NoCall
    <2>5. ens' = [ens EXCEPT ![w] = c] \/ ens' = [ens EXCEPT ![w] = NoCall]
        BY <1>0, <1>5, <2>2 DEF InsertFails, Calls
    <2> HIDE DEF c
    <2>6. CASE ens' = [ens EXCEPT ![w] = c]
        BY <1>0, <2>1, <2>3, <2>6, CallMoves
    <2>7. CASE ens' = [ens EXCEPT ![w] = NoCall]
        BY <1>0, <2>1, <2>4, <2>7, CallMoves
    <2> QED
        BY <2>5, <2>6, <2>7
<1>6. CASE ClearCache \/ UNCHANGED tkVars
    BY <1>6 DEF ClearCache, tkVars, TokenRowsInv, TokenRowsTypeOK, TakenInOrder,
                RowsOfStatements, CachedIsStored
<1> QED
    BY <1>1, <1>2, <1>3, <1>4, <1>5, <1>6 DEF TokenRowsNext

(***************************************************************************)
(* Statements take their rows in order, and what is cached is stored.      *)
(***************************************************************************)
THEOREM TokenRowsInvariance == TokenRowsSpec => []TokenRowsInv
<1>1. TokenRowsInit => TokenRowsInv
    BY DEF TokenRowsInit, TokenRowsInv, TokenRowsTypeOK, TakenInOrder, RowsOfStatements,
           CachedIsStored, NoCall
<1> QED
    BY <1>1, TokenRowsStep, PTL DEF TokenRowsSpec

(***************************************************************************)
(* Of any circle of workers, the one whose statement waits for the greatest*)
(* row waits for a worker that does not wait.                              *)
(***************************************************************************)
LEMMA OrderBreaksCircles == TokenRowsInv => NoCircularWait
<1> SUFFICES ASSUME TokenRowsInv, NEW circle \in SUBSET Inserter, circle # {},
                    \A w \in circle : \E u \in circle : Waits(w, u)
             PROVE  FALSE
    BY DEF NoCircularWait
<1> DEFINE Awaited(t) == \E w, u \in circle : /\ ens[w].at = "insert" /\ NextRow(ens[w].todo, t)
                                              /\ t \in ens[u].held
           S == {t \in Token : Awaited(t)}
<1>0. \A w \in Inserter : ens[w].held \subseteq Token /\ ens[w].todo \subseteq Token
    BY DEF TokenRowsInv, TokenRowsTypeOK
<1>1. \A w \in circle : \E u \in circle : \E t \in ens[u].held :
          ens[w].at = "insert" /\ NextRow(ens[w].todo, t)
    BY DEF Waits
<1>2. S # {}
    BY <1>0, <1>1
<1>3. PICK t \in S : \A u \in S : u <= t
    <2> HIDE DEF S
    <2>1. S \subseteq Token
        BY DEF S
    <2> QED
        BY <1>2, <2>1, GreatestToken
<1>4. PICK u \in circle : t \in ens[u].held
    OBVIOUS
<1>5. PICK v \in circle : \E s \in ens[v].held : NextRow(ens[u].todo, s) /\ ens[u].at = "insert"
    BY <1>1
<1>6. PICK s \in ens[v].held : NextRow(ens[u].todo, s) /\ ens[u].at = "insert"
    BY <1>5
<1>7. s \in S
    BY <1>0, <1>6
<1>8. t < s
    BY <1>4, <1>6 DEF TokenRowsInv, TakenInOrder, NextRow
<1> QED
    BY <1>0, <1>3, <1>7, <1>8 DEF Token

(***************************************************************************)
(* Workers never wait for each other in a circle, however many there are   *)
(* (block-processor.ts:1735-1756).                                         *)
(***************************************************************************)
THEOREM NoCircularWaitSafe == TokenRowsSpec => []NoCircularWait
    BY TokenRowsInvariance, OrderBreaksCircles, PTL

(***************************************************************************)
(* A cached token has its row (block-processor.ts:1693-1696, 1771-1774).   *)
(***************************************************************************)
THEOREM CacheSafe == TokenRowsSpec => []CachedIsStored
<1>1. TokenRowsInv => CachedIsStored
    BY DEF TokenRowsInv
<1> QED
    BY <1>1, TokenRowsInvariance, PTL

(***************************************************************************)
(* Address counts: any addresses, rollbacks, failures and restarts.        *)
(***************************************************************************)

(***************************************************************************)
(* Lemmas on counts: what Plus, Take and LeftOut return.                   *)
(***************************************************************************)
LEMMA PlusType ==
    ASSUME NEW f \in Counts, NEW g \in Counts
    PROVE  /\ Plus(f, g) \in Counts
           /\ \A a \in Addr : Plus(f, g)[a] = f[a] + g[a]
    BY DEF Plus, Counts

\* The empty batch of counts.
LEMMA ZeroType == Zero \in Counts /\ \A a \in Addr : Zero[a] = 0
    BY DEF Zero, Counts

\* The 1000-row chunks of a flush split what is left of it.
LEMMA ChunkType ==
    ASSUME AddressFlushTypeOK, NEW chunk \in SUBSET Addr
    PROVE  /\ Take(chunk) \in Counts /\ LeftOut(chunk) \in Counts
           /\ \A a \in Addr : Take(chunk)[a] + LeftOut(chunk)[a] = flight.left[a]
    BY DEF Take, LeftOut, Counts, AddressFlushTypeOK

\* A flush that takes off, and one that has landed.
LEMMA FlightType ==
    ASSUME NEW f \in Counts
    PROVE  /\ [left |-> f, attempt |-> 1] \in [left : Counts, attempt : 0..Attempts]
           /\ Landed \in [left : Counts, attempt : 0..Attempts]
           /\ Landed.left = Zero /\ Landed.attempt = 0
    BY ZeroType DEF Landed, Attempts

-----------------------------------------------------------------------------
(* The inductive invariant. *)

\* A snapshot is there only while its flush is in flight.
LandedIsEmpty == ~Flying => flight.left = Zero

CountsInv == AddressFlushTypeOK /\ LandedIsEmpty /\ PendingHasFlight /\ CountsConserved

(***************************************************************************)
(* What a landing does with the map: it takes it whole, and leaves nothing *)
(* without a flush.                                                        *)
(***************************************************************************)
LEMMA LandMoves ==
    ASSUME AddressFlushTypeOK, Land
    PROVE  /\ flight' \in [left : Counts, attempt : 0..Attempts]
           /\ addressPending' \in Counts
           /\ LandedIsEmpty' /\ PendingHasFlight'
           /\ \A a \in Addr : flight'.left[a] + addressPending'[a] = addressPending[a]
<1> USE DEF AddressFlushTypeOK
<1>1. CASE addressPending = Zero
    BY <1>1, ZeroType, FlightType DEF Land, LandedIsEmpty, PendingHasFlight, Flying
<1>2. CASE addressPending # Zero
    <2>1. flight' = [left |-> addressPending, attempt |-> 1] /\ addressPending' = Zero
        BY <1>2 DEF Land
    <2> QED
        BY <2>1, ZeroType, FlightType DEF LandedIsEmpty, PendingHasFlight, Flying, Counts
<1> QED
    BY <1>1, <1>2

\* enqueueAddressFlush: what waited is in flight or still waits, and nothing is dropped.
LEMMA EnqueueMoves ==
    ASSUME AddressFlushTypeOK, LandedIsEmpty, NEW pending \in Counts, EnqueueOrKick(pending)
    PROVE  /\ flight' \in [left : Counts, attempt : 0..Attempts]
           /\ addressPending' \in Counts
           /\ LandedIsEmpty' /\ PendingHasFlight'
           /\ \A a \in Addr : flight'.left[a] + addressPending'[a] = flight.left[a] + pending[a]
<1> USE DEF AddressFlushTypeOK
<1>1. CASE Flying \/ pending = Zero
    BY <1>1, ZeroType DEF EnqueueOrKick, LandedIsEmpty, PendingHasFlight, Flying
<1>2. CASE ~(Flying \/ pending = Zero)
    <2>1. /\ flight' = [left |-> pending, attempt |-> 1] /\ addressPending' = Zero
          /\ flight.left = Zero
        BY <1>2 DEF EnqueueOrKick, LandedIsEmpty
    <2> QED
        BY <2>1, ZeroType, FlightType DEF LandedIsEmpty, PendingHasFlight, Flying, Counts
<1> QED
    BY <1>1, <1>2

-----------------------------------------------------------------------------
(* The steps. *)

\* One step per enqueue, chunk, failure, rollback and restart.
LEMMA CountsStep == CountsInv /\ [AddressFlushNext]_afVars => CountsInv'
<1> SUFFICES ASSUME CountsInv, [AddressFlushNext]_afVars
             PROVE  CountsInv'
    OBVIOUS
<1> USE AddressFlushAssumption DEF CountsInv
<1>0. /\ births \in Counts /\ addressPending \in Counts /\ txCount \in Counts
      /\ flight.left \in Counts /\ undone \in Nat /\ upsets \in Nat /\ rows \subseteq TxRow
    BY DEF AddressFlushTypeOK
<1>1. ASSUME NEW t \in TxRow, InsertTransaction(t)
      PROVE  CountsInv'
    <2>1. CASE t \in rows
        <3>1. UNCHANGED afVars
            BY <1>1, <2>1 DEF InsertTransaction, afVars
        <3> QED
            BY <3>1 DEF afVars, AddressFlushTypeOK, LandedIsEmpty, PendingHasFlight,
                        CountsConserved, Counted, Flying
    <2>2. CASE t \notin rows
        <3> DEFINE pending == Plus(addressPending, AddrsOf[t])
        <3>1. /\ EnqueueOrKick(pending) /\ births' = Plus(births, AddrsOf[t])
              /\ rows' = rows \cup {t} /\ UNCHANGED <<txCount, undone, upsets>>
            BY <1>1, <2>2 DEF InsertTransaction
        <3>2. /\ AddrsOf[t] \in Counts /\ pending \in Counts
              /\ \A a \in Addr : pending[a] = addressPending[a] + AddrsOf[t][a]
            BY <1>0, PlusType
        <3>3. births' \in Counts /\ \A a \in Addr : births'[a] = births[a] + AddrsOf[t][a]
            BY <1>0, <3>1, <3>2, PlusType
        <3> HIDE DEF pending
        <3>4. /\ flight' \in [left : Counts, attempt : 0..Attempts]
              /\ addressPending' \in Counts /\ LandedIsEmpty' /\ PendingHasFlight'
              /\ \A a \in Addr :
                    flight'.left[a] + addressPending'[a] = flight.left[a] + pending[a]
            BY <3>1, <3>2, EnqueueMoves
        <3>5. AddressFlushTypeOK'
            BY <1>0, <3>1, <3>3, <3>4 DEF AddressFlushTypeOK
        <3>6. \A a \in Addr : Counted(a)' = Counted(a) + AddrsOf[t][a]
            <4> SUFFICES ASSUME NEW a \in Addr
                         PROVE  Counted(a)' = Counted(a) + AddrsOf[t][a]
                OBVIOUS
            <4>1. /\ addressPending[a] \in Nat /\ AddrsOf[t][a] \in Nat /\ txCount[a] \in Nat
                  /\ flight.left[a] \in Nat
                BY <1>0, <3>2 DEF Counts
            <4>2. /\ flight'.left[a] \in Nat /\ addressPending'[a] \in Nat
                  /\ flight'.left[a] + addressPending'[a]
                         = flight.left[a] + (addressPending[a] + AddrsOf[t][a])
                BY <3>2, <3>4 DEF Counts
            <4>3. txCount'[a] = txCount[a]
                BY <3>1
            <4> QED
                BY <4>1, <4>2, <4>3 DEF Counted
        <3>7. CountsConserved'
            BY <1>0, <3>1, <3>2, <3>3, <3>6 DEF CountsConserved, Counted, Counts
        <3> QED
            BY <3>4, <3>5, <3>7
    <2> QED
        BY <2>1, <2>2
<1>2. ASSUME NEW t \in TxRow, UnwindTransaction(t)
      PROVE  CountsInv'
    BY <1>0, <1>2 DEF UnwindTransaction, AddressFlushTypeOK, LandedIsEmpty, PendingHasFlight,
                      CountsConserved, Counted, Flying
<1>3. ASSUME NEW chunk \in SUBSET Addr, FlushChunk(chunk)
      PROVE  CountsInv'
    <2>1. /\ Take(chunk) \in Counts /\ LeftOut(chunk) \in Counts
          /\ \A a \in Addr : Take(chunk)[a] + LeftOut(chunk)[a] = flight.left[a]
        BY ChunkType
    <2>2. txCount' \in Counts /\ \A a \in Addr : txCount'[a] = txCount[a] + Take(chunk)[a]
        BY <1>0, <1>3, <2>1, PlusType DEF FlushChunk
    <2>3. UNCHANGED <<rows, births, undone, upsets>>
        BY <1>3 DEF FlushChunk
    <2>4. CASE LeftOut(chunk) = Zero
        <3>1. Land
            BY <1>3, <2>4 DEF FlushChunk
        <3>2. AddressFlushTypeOK' /\ LandedIsEmpty' /\ PendingHasFlight'
            BY <1>0, <2>2, <2>3, <3>1, LandMoves DEF AddressFlushTypeOK
        <3>3. \A a \in Addr : flight'.left[a] + addressPending'[a] = addressPending[a]
            BY <3>1, LandMoves
        <3>4. \A a \in Addr : Take(chunk)[a] = flight.left[a]
            BY <1>0, <2>1, <2>4, ZeroType DEF Counts
        <3>5. CountsConserved'
            BY <1>0, <2>1, <2>2, <2>3, <3>2, <3>3, <3>4
            DEF CountsConserved, Counted, Counts, AddressFlushTypeOK
        <3> QED
            BY <3>2, <3>5
    <2>5. CASE LeftOut(chunk) # Zero
        <3>1. /\ flight' = [left |-> LeftOut(chunk), attempt |-> 1]
              /\ UNCHANGED addressPending
            BY <1>3, <2>5 DEF FlushChunk
        <3>2. AddressFlushTypeOK' /\ LandedIsEmpty' /\ PendingHasFlight'
            BY <1>0, <2>1, <2>2, <2>3, <3>1, FlightType
            DEF AddressFlushTypeOK, LandedIsEmpty, PendingHasFlight, Flying
        <3>3. CountsConserved'
            BY <1>0, <2>1, <2>2, <2>3, <3>1 DEF CountsConserved, Counted, Counts
        <3> QED
            BY <3>2, <3>3
    <2> QED
        BY <2>4, <2>5
<1>4. ASSUME NEW chunk \in SUBSET Addr, FlushFails(chunk)
      PROVE  CountsInv'
    <2>1. /\ Take(chunk) \in Counts /\ LeftOut(chunk) \in Counts
          /\ \A a \in Addr : Take(chunk)[a] + LeftOut(chunk)[a] = flight.left[a]
        BY ChunkType
    <2>2. /\ txCount' \in Counts
          /\ \A a \in Addr : txCount'[a] = txCount[a] \/ txCount'[a] = txCount[a] + Take(chunk)[a]
        BY <1>0, <1>4, <2>1, PlusType DEF FlushFails
    <2>3. Land /\ upsets' = upsets + 1 /\ UNCHANGED <<rows, births, undone>>
        BY <1>4 DEF FlushFails, Upset
    <2>4. AddressFlushTypeOK' /\ LandedIsEmpty' /\ PendingHasFlight'
        BY <1>0, <2>2, <2>3, LandMoves DEF AddressFlushTypeOK
    <2>5. \A a \in Addr : flight'.left[a] + addressPending'[a] = addressPending[a]
        BY <2>3, LandMoves
    <2>6. \A a \in Addr : Counted(a)' <= Counted(a)
        <3> SUFFICES ASSUME NEW a \in Addr PROVE Counted(a)' <= Counted(a)
            OBVIOUS
        <3>1. txCount'[a] <= txCount[a] + flight.left[a]
            BY <1>0, <2>1, <2>2 DEF Counts
        <3>2. /\ txCount[a] \in Nat /\ txCount'[a] \in Nat /\ flight.left[a] \in Nat
              /\ flight'.left[a] \in Nat /\ addressPending'[a] \in Nat
            BY <1>0, <2>2, <2>4 DEF Counts, AddressFlushTypeOK
        <3> QED
            BY <1>0, <2>5, <3>1, <3>2 DEF Counted, Counts
    <2>7. upsets' # 0 /\ \A a \in Addr : Counted(a) \in Nat /\ Counted(a)' \in Nat
        BY <1>0, <2>2, <2>3, <2>4 DEF Counted, Counts, AddressFlushTypeOK
    <2>8. CountsConserved'
        BY <1>0, <2>3, <2>6, <2>7 DEF CountsConserved, Counts
    <2> QED
        BY <2>4, <2>8
<1>5. CASE FlushDeadlock
    BY <1>0, <1>5 DEF FlushDeadlock, AddressFlushTypeOK, LandedIsEmpty, PendingHasFlight,
                      CountsConserved, Counted, Flying, Attempts
<1>6. CASE IndexerDies
    <2>1. /\ flight' = Landed /\ addressPending' = Zero /\ upsets' = upsets + 1
          /\ UNCHANGED <<rows, births, txCount, undone>>
        BY <1>6 DEF IndexerDies, Upset
    <2>2. AddressFlushTypeOK' /\ LandedIsEmpty' /\ PendingHasFlight'
        BY <1>0, <2>1, ZeroType, FlightType
        DEF AddressFlushTypeOK, LandedIsEmpty, PendingHasFlight
    <2>3. CountsConserved'
        BY <1>0, <2>1, ZeroType, FlightType DEF CountsConserved, Counted, Counts
    <2> QED
        BY <2>2, <2>3
<1>8. ASSUME NEW t \in TxRow, InsertUnanswered(t)
      PROVE  CountsInv'
    <2>1. /\ rows' = rows \cup {t} /\ births' = Plus(births, AddrsOf[t])
          /\ upsets' = upsets + 1
          /\ UNCHANGED <<addressPending, flight, txCount, undone>>
        BY <1>8 DEF InsertUnanswered, Upset
    <2>2. AddrsOf[t] \in Counts
        OBVIOUS
    <2>3. births' \in Counts /\ \A a \in Addr : births'[a] = births[a] + AddrsOf[t][a]
        BY <1>0, <2>1, <2>2, PlusType
    <2>4. AddressFlushTypeOK' /\ LandedIsEmpty' /\ PendingHasFlight'
        BY <1>0, <2>1, <2>3 DEF AddressFlushTypeOK, LandedIsEmpty, PendingHasFlight, Flying
    <2>5. ASSUME NEW a \in Addr
          PROVE  Counted(a)' <= births'[a]
        <3>1. Counted(a)' = Counted(a) /\ Counted(a) <= births[a]
            BY <2>1 DEF Counted, CountsConserved
        <3>2. Counted(a) \in Nat /\ births[a] \in Nat /\ AddrsOf[t][a] \in Nat
            BY <1>0, <2>2 DEF Counted, Counts
        <3> QED
            BY <2>3, <3>1, <3>2
    <2>6. upsets' # 0
        BY <1>0, <2>1
    <2>7. CountsConserved'
        BY <2>5, <2>6 DEF CountsConserved
    <2> QED
        BY <2>4, <2>7
<1>7. CASE UNCHANGED afVars
    BY <1>7 DEF afVars, AddressFlushTypeOK, LandedIsEmpty, PendingHasFlight, CountsConserved,
                Counted, Flying
<1> QED
    BY <1>1, <1>2, <1>3, <1>4, <1>5, <1>6, <1>7, <1>8 DEF AddressFlushNext, Chunks

(***************************************************************************)
(* The map, the snapshot and the stored counts add up after every step.     *)
(***************************************************************************)
THEOREM CountsInvariance == AddressFlushSpec => []CountsInv
<1>1. AddressFlushInit => CountsInv
    BY AddressFlushAssumption, ZeroType, FlightType
    DEF AddressFlushInit, CountsInv, AddressFlushTypeOK, LandedIsEmpty, PendingHasFlight,
        CountsConserved, Counted, Flying
<1> QED
    BY <1>1, CountsStep, PTL DEF AddressFlushSpec

(***************************************************************************)
(* An address is never credited with more transactions than were inserted  *)
(* for it, and with no fewer while nothing fails (block-processor.ts:      *)
(* 416-434, 738-807).                                                      *)
(***************************************************************************)
THEOREM CountsSafe == AddressFlushSpec => []CountsConserved
<1>1. CountsInv => CountsConserved
    BY DEF CountsInv
<1> QED
    BY <1>1, CountsInvariance, PTL

(***************************************************************************)
(* Counts that wait have a flush in flight that will take them, so none is *)
(* stranded until the next block (block-processor.ts:758-770).             *)
(***************************************************************************)
THEOREM NothingStranded == AddressFlushSpec => []PendingHasFlight
<1>1. CountsInv => PendingHasFlight
    BY DEF CountsInv
<1> QED
    BY <1>1, CountsInvariance, PTL

(***************************************************************************)
(* Webhooks: any number of notifications, failed statements and deaths.    *)
(***************************************************************************)

Notes == [at : {"idle", "next", "claim", "post"}, hash : SUBSET Hash,
          left : SUBSET Webhook, turn : SUBSET Webhook,
          ok : SUBSET Webhook, failed : SUBSET Webhook]

(***************************************************************************)
(* The parts of WebhooksTypeOK, so that a step shows those it changes.     *)
(***************************************************************************)
NotesOK  == note \in [Notifier -> Notes]
LedgerOK == ledger \subseteq Webhook \X Hash
PostsOK  == posts \in [Webhook -> [Hash -> Nat]]
HooksOK  == hook \in [Webhook -> [active : BOOLEAN, failCount : Nat]]

\* The type invariant by parts, which the steps disturb separately.
LEMMA TypeParts ==
    /\ WebhooksTypeOK <=> NotesOK /\ LedgerOK /\ PostsOK /\ HooksOK /\ stumbles \in Nat
    /\ WebhooksTypeOK' <=> NotesOK' /\ LedgerOK' /\ PostsOK' /\ HooksOK' /\ stumbles' \in Nat
    BY DEF WebhooksTypeOK, NotesOK, LedgerOK, PostsOK, HooksOK, Notes

-----------------------------------------------------------------------------
(* The inductive invariant. *)

\* n has claimed <<h, b>> and is about to send it.
Sending(n, h, b) == note[n].at = "post" /\ note[n].turn = {h} /\ note[n].hash = {b}

\* What was sent or is about to be is in the ledger.
SentIsClaimed == \A h \in Webhook, b \in Hash : posts[h][b] > 0 => <<h, b>> \in ledger
SendingIsClaimed ==
    \A n \in Notifier, h \in Webhook, b \in Hash :
        Sending(n, h, b) => <<h, b>> \in ledger /\ posts[h][b] = 0

\* A claim has one winner.
OneSender ==
    \A m, n \in Notifier, h \in Webhook, b \in Hash :
        Sending(m, h, b) /\ Sending(n, h, b) => m = n

WebhooksInv ==
    /\ WebhooksTypeOK
    /\ SentIsClaimed /\ SendingIsClaimed /\ OneSender
    /\ AtMostOnce

(***************************************************************************)
(* A step that sends nothing and claims nothing keeps the invariant, when  *)
(* it makes no notification start to send.                                 *)
(***************************************************************************)
LEMMA AtRest ==
    ASSUME WebhooksInv, WebhooksTypeOK', ledger \subseteq ledger', posts' = posts,
           \A m \in Notifier, h \in Webhook, b \in Hash : Sending(m, h, b)' => Sending(m, h, b)
    PROVE  WebhooksInv'
    BY DEF WebhooksInv, SentIsClaimed, SendingIsClaimed, OneSender, AtMostOnce

\* The notification of n moves to a state in which it does not send.
LEMMA MovesQuietly ==
    ASSUME NotesOK, NEW n \in Notifier, NEW s \in Notes, s.at # "post",
           note' = [note EXCEPT ![n] = s]
    PROVE  /\ NotesOK'
           /\ \A m \in Notifier, h \in Webhook, b \in Hash : Sending(m, h, b)' => Sending(m, h, b)
    BY DEF NotesOK, Sending

-----------------------------------------------------------------------------
(* The steps. *)

\* One step per statement of the matcher, the deliveries and the retry pass.
LEMMA WebhooksStep == WebhooksInv /\ [WebhooksNext]_whVars => WebhooksInv'
<1> SUFFICES ASSUME WebhooksInv, [WebhooksNext]_whVars
             PROVE  WebhooksInv'
    OBVIOUS
<1>0. WebhooksTypeOK /\ NotesOK /\ LedgerOK /\ PostsOK /\ HooksOK /\ stumbles \in Nat
    BY TypeParts DEF WebhooksInv
<1>s. NoNote \in Notes /\ NoNote.at # "post"
    BY DEF NoNote, Notes
<1>1. ASSUME NEW n \in Notifier, NEW b \in Hash, notifyWebhooks(n, b)
      PROVE  WebhooksInv'
    <2> DEFINE s == [NoNote EXCEPT !.at = "next", !.hash = {b},
                                   !.left = {h \in Webhook : hook[h].active}]
    <2>1. s \in Notes /\ s.at # "post"
        BY DEF NoNote, Notes
    <2>2. note' = [note EXCEPT ![n] = s] /\ UNCHANGED <<ledger, posts, hook, stumbles>>
        BY <1>1 DEF notifyWebhooks
    <2> HIDE DEF s
    <2> QED
        BY <1>0, <2>1, <2>2, MovesQuietly, AtRest, TypeParts DEF LedgerOK, PostsOK, HooksOK
<1>2. ASSUME NEW n \in Notifier, NEW h \in Webhook, NextWebhook(n, h)
      PROVE  WebhooksInv'
    <2> DEFINE s == [note[n] EXCEPT !.at = "claim", !.left = @ \ {h}, !.turn = {h}]
    <2>1. s \in Notes /\ s.at # "post"
        BY <1>0 DEF NotesOK, Notes
    <2>2. note' = [note EXCEPT ![n] = s] /\ UNCHANGED <<ledger, posts, hook, stumbles>>
        BY <1>0, <1>2 DEF NextWebhook, NotesOK, Notes
    <2> HIDE DEF s
    <2> QED
        BY <1>0, <2>1, <2>2, MovesQuietly, AtRest, TypeParts DEF LedgerOK, PostsOK, HooksOK
<1>3. ASSUME NEW n \in Notifier, NEW h \in Webhook, NEW b \in Hash, ClaimDelivery(n, h, b)
      PROVE  WebhooksInv'
    <2> DEFINE s(stage) == [note[n] EXCEPT !.at = stage]
    <2>1. s("next") \in Notes /\ s("next").at # "post" /\ s("post") \in Notes
        BY <1>0 DEF NotesOK, Notes
    <2>2. /\ ledger \subseteq ledger' /\ ledger' \subseteq ledger \cup {<<h, b>>}
          /\ stumbles' \in Nat /\ UNCHANGED <<posts, hook>>
        BY <1>0, <1>3 DEF ClaimDelivery, Stumble
    <2>3. LedgerOK' /\ PostsOK' /\ HooksOK'
        BY <1>0, <2>2 DEF LedgerOK, PostsOK, HooksOK
    <2>4. CASE note' = [note EXCEPT ![n] = s("next")]
        BY <1>0, <2>1, <2>2, <2>3, <2>4, MovesQuietly, AtRest, TypeParts
    <2>5. CASE /\ note' = [note EXCEPT ![n] = s("post")]
               /\ <<h, b>> \notin ledger /\ <<h, b>> \in ledger'
        <3>1. NotesOK'
            BY <1>0, <2>1, <2>5 DEF NotesOK
        <3>2. WebhooksTypeOK'
            BY <2>2, <2>3, <3>1, TypeParts
        <3>3. note[n].turn = {h} /\ note[n].hash = {b}
            BY <1>3 DEF ClaimDelivery
        <3>4. \A g \in Webhook, c \in Hash : Sending(n, g, c)' => g = h /\ c = b
            <4>1. note'[n].turn = {h} /\ note'[n].hash = {b}
                BY <1>0, <2>5, <3>3 DEF NotesOK, Notes
            <4> QED
                BY <4>1 DEF Sending
        <3>5. \A m \in Notifier \ {n}, g \in Webhook, c \in Hash :
                  Sending(m, g, c)' => Sending(m, g, c)
            BY <1>0, <2>5 DEF Sending, NotesOK
        <3>6. \A m \in Notifier : ~Sending(m, h, b)
            BY <2>5 DEF WebhooksInv, SendingIsClaimed
        <3>7. posts[h][b] = 0
            BY <1>0, <2>5 DEF WebhooksInv, SentIsClaimed, PostsOK
        <3>8. SendingIsClaimed'
            BY <2>2, <2>5, <3>4, <3>5, <3>7 DEF WebhooksInv, SendingIsClaimed
        <3>9. OneSender'
            BY <3>4, <3>5, <3>6 DEF WebhooksInv, OneSender
        <3> QED
            BY <2>2, <3>2, <3>8, <3>9 DEF WebhooksInv, SentIsClaimed, AtMostOnce
    <2> QED
        BY <1>3, <2>4, <2>5 DEF ClaimDelivery
<1>4. ASSUME NEW n \in Notifier, NEW h \in Webhook, NEW b \in Hash, deliverWebhook(n, h, b)
      PROVE  WebhooksInv'
    <2> DEFINE s(done) == IF done THEN [note[n] EXCEPT !.at = "next", !.ok = @ \cup {h}]
                                  ELSE [note[n] EXCEPT !.at = "next", !.failed = @ \cup {h}]
    <2>1. \A done \in BOOLEAN : s(done) \in Notes /\ s(done).at # "post"
        BY <1>0 DEF NotesOK, Notes
    <2>2. /\ UNCHANGED <<ledger, hook, stumbles>> /\ Sending(n, h, b)
          /\ \E done \in BOOLEAN : note' = [note EXCEPT ![n] = s(done)]
        BY <1>0, <1>4 DEF deliverWebhook, Sending, NotesOK, Notes
    <2> HIDE DEF s
    <2>3. /\ NotesOK'
          /\ \A m \in Notifier, g \in Webhook, c \in Hash : Sending(m, g, c)' => Sending(m, g, c)
        BY <1>0, <2>1, <2>2, MovesQuietly
    <2>4. CASE posts' = posts
        BY <1>0, <2>2, <2>3, <2>4, AtRest, TypeParts DEF LedgerOK, PostsOK, HooksOK
    <2>5. CASE posts' = [posts EXCEPT ![h][b] = @ + 1]
        <3>1. PostsOK'
            BY <1>0, <2>5 DEF PostsOK
        <3>2. WebhooksTypeOK'
            BY <1>0, <2>2, <2>3, <3>1, TypeParts DEF LedgerOK, HooksOK
        <3>3. <<h, b>> \in ledger /\ posts[h][b] = 0
            BY <2>2 DEF WebhooksInv, SendingIsClaimed
        <3>4. /\ posts'[h][b] = 1
              /\ \A g \in Webhook, c \in Hash : <<g, c>> # <<h, b>> => posts'[g][c] = posts[g][c]
            BY <1>0, <2>5, <3>3 DEF PostsOK
        <3>5. \A m \in Notifier : ~Sending(m, h, b)'
            <4>1. ~Sending(n, h, b)'
                BY <1>0, <2>1, <2>2 DEF Sending, NotesOK
            <4> QED
                BY <2>2, <2>3, <4>1 DEF WebhooksInv, OneSender
        <3>6. SendingIsClaimed'
            BY <2>2, <2>3, <3>4, <3>5 DEF WebhooksInv, SendingIsClaimed
        <3>7. OneSender'
            BY <2>3 DEF WebhooksInv, OneSender
        <3>8. SentIsClaimed'
            BY <2>2, <3>3, <3>4 DEF WebhooksInv, SentIsClaimed
        <3>9. AtMostOnce'
            BY <3>4 DEF WebhooksInv, AtMostOnce
        <3> QED
            BY <3>2, <3>6, <3>7, <3>8, <3>9 DEF WebhooksInv
    <2> QED
        BY <1>4, <2>4, <2>5 DEF deliverWebhook
<1>5. ASSUME NEW n \in Notifier, RecordOutcomes(n)
      PROVE  WebhooksInv'
    <2>1. note' = [note EXCEPT ![n] = NoNote] /\ UNCHANGED <<ledger, posts>>
        BY <1>5 DEF RecordOutcomes
    <2>2. stumbles' \in Nat
        BY <1>0, <1>5 DEF RecordOutcomes, Stumble
    <2>3. HooksOK'
        <3> DEFINE saves(saved) ==
                [h \in Webhook |->
                    IF h \notin saved THEN hook[h]
                    ELSE IF h \in note[n].ok THEN [hook[h] EXCEPT !.failCount = 0]
                    ELSE [active |-> hook[h].active /\ 0 + 1 < DeactivateAfter,
                          failCount |-> 0 + 1]]
        <3>1. \E saved \in SUBSET (note[n].ok \cup note[n].failed) : hook' = saves(saved)
            BY <1>5 DEF RecordOutcomes
        <3>2. \A saved, h : h \in Webhook =>
                  saves(saved)[h] \in [active : BOOLEAN, failCount : Nat]
            BY <1>0 DEF HooksOK, DeactivateAfter
        <3> QED
            BY <3>1, <3>2 DEF HooksOK
    <2> QED
        BY <1>0, <1>s, <2>1, <2>2, <2>3, MovesQuietly, AtRest, TypeParts DEF LedgerOK, PostsOK
<1>6. ASSUME NEW n \in Notifier, NotifierDies(n)
      PROVE  WebhooksInv'
    <2>1. /\ note' = [note EXCEPT ![n] = NoNote] /\ stumbles' \in Nat
          /\ UNCHANGED <<ledger, posts, hook>>
        BY <1>0, <1>6 DEF NotifierDies, Stumble
    <2> QED
        BY <1>0, <1>s, <2>1, MovesQuietly, AtRest, TypeParts DEF LedgerOK, PostsOK, HooksOK
<1>7. CASE UNCHANGED whVars
    BY <1>0, <1>7, AtRest, TypeParts DEF whVars, NotesOK, LedgerOK, PostsOK, HooksOK, Sending
<1> QED
    BY <1>1, <1>2, <1>3, <1>4, <1>5, <1>6, <1>7 DEF WebhooksNext

(***************************************************************************)
(* Every delivery has one claim, and every claim one sender.               *)
(***************************************************************************)
THEOREM WebhooksInvariance == WebhooksSpec => []WebhooksInv
<1>1. WebhooksInit => WebhooksInv
    <2> SUFFICES ASSUME WebhooksInit PROVE WebhooksInv
        OBVIOUS
    <2>1. NotesOK /\ \A n \in Notifier : note[n].at = "idle"
        BY DEF WebhooksInit, NotesOK, NoNote, Notes
    <2>2. WebhooksTypeOK
        BY <2>1, TypeParts DEF WebhooksInit, LedgerOK, PostsOK, HooksOK
    <2> QED
        BY <2>1, <2>2 DEF WebhooksInit, WebhooksInv, SentIsClaimed, SendingIsClaimed,
                          OneSender, AtMostOnce, Sending
<1> QED
    BY <1>1, WebhooksStep, PTL DEF WebhooksSpec

(***************************************************************************)
(* A webhook hears of a block at most once, however many notifications of  *)
(* it run, die or lose an answer (webhook-notifier.ts:184-229).            *)
(***************************************************************************)
THEOREM AtMostOnceSafe == WebhooksSpec => []AtMostOnce
<1>1. WebhooksInv => AtMostOnce
    BY DEF WebhooksInv
<1> QED
    BY <1>1, WebhooksInvariance, PTL
===============================================================================
