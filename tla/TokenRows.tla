------------------------------ MODULE TokenRows ------------------------------
(***************************************************************************)
(* ensureTokensBatch (apps/indexer/src/block-processor.ts): the block      *)
(* workers of one or more processes store the tokens they have not seen    *)
(* yet, many of them the same ones at the same time.  An INSERT .. ON      *)
(* CONFLICT DO NOTHING takes its rows one after the other and waits for    *)
(* the uncommitted row of another worker; what it took is committed at     *)
(* its end.                                                                *)
(*                                                                         *)
(* Tokens are numbered in byte order of their addresses.  A statement is   *)
(* one chunk.  The metadata of a token is left out.                        *)
(***************************************************************************)
EXTENDS Integers

CONSTANTS
    Inserter,       \* block workers
    NumTokens

Token == 1..NumTokens

ASSUME TokenRowsAssumption == NumTokens \in Nat

VARIABLES
    tokens,         \* rows of tokens, committed
    tokenCache,
    ens             \* worker -> the call it is in

tkVars == <<tokens, tokenCache, ens>>

\* valid: rows of the statement; todo: those still to take; held: those taken.
NoCall == [at |-> "idle", valid |-> {}, todo |-> {}, held |-> {}]

TokenRowsInit ==
    /\ tokens = {} /\ tokenCache = {}
    /\ ens = [w \in Inserter |-> NoCall]

\* What the cache does not know is looked up.
LookUp(w, unknown) ==
    /\ ens[w].at = "idle"
    /\ unknown \cap tokenCache = {}
    /\ tokenCache' = tokenCache \cup (unknown \cap tokens)
    /\ ens' = [ens EXCEPT ![w] = [NoCall EXCEPT !.at = "fetch", !.valid = unknown \ tokens]]
    /\ UNCHANGED tokens

\* A token whose metadata cannot be read is left out.
CacheEarly(w, valid) ==  \* Wrong on purpose: cached before they are stored.
    /\ ens[w].at = "fetch" /\ valid \subseteq ens[w].valid
    /\ tokenCache' = tokenCache \cup valid
    /\ ens' = [ens EXCEPT ![w] = [at |-> "insert", valid |-> valid, todo |-> valid, held |-> {}]]
    /\ UNCHANGED tokens
FetchMetadata(w, valid) ==
    /\ ens[w].at = "fetch" /\ valid \subseteq ens[w].valid
    /\ ens' = [ens EXCEPT ![w] = [at |-> "insert", valid |-> valid, todo |-> valid, held |-> {}]]
    /\ UNCHANGED <<tokens, tokenCache>>

\* orderByAddress: the row the statement takes next.
AnyRow(todo, t)  == t \in todo  \* Wrong on purpose: in the order of discovery.
NextRow(todo, t) == t \in todo /\ \A u \in todo : t <= u

Waits(w, u) ==
    /\ ens[w].at = "insert"
    /\ w # u /\ \E t \in ens[u].held : NextRow(ens[w].todo, t)

TakeRow(w, t) ==
    /\ ens[w].at = "insert" /\ NextRow(ens[w].todo, t)
    /\ \A u \in Inserter : u # w => t \notin ens[u].held
    /\ ens' = [ens EXCEPT ![w].todo = @ \ {t},
                          ![w].held = IF t \in tokens THEN @ ELSE @ \cup {t}]
    /\ UNCHANGED <<tokens, tokenCache>>

CommitRows(w) ==
    /\ ens[w].at = "insert" /\ ens[w].todo = {}
    /\ tokens' = tokens \cup ens[w].held
    /\ tokenCache' = tokenCache \cup ens[w].valid
    /\ ens' = [ens EXCEPT ![w] = NoCall]

\* The statement fails: it is tried again (a deadlock) or the block fails.
InsertFails(w) ==
    /\ ens[w].at = "insert"
    /\ \/ ens' = [ens EXCEPT ![w].todo = ens[w].valid, ![w].held = {}]
       \/ ens' = [ens EXCEPT ![w] = NoCall]
    /\ UNCHANGED <<tokens, tokenCache>>

\* The cache is cleared when it is full, and with the process.
ClearCache ==
    /\ tokenCache' = {}
    /\ UNCHANGED <<tokens, ens>>

TokenRowsNext ==
    \/ \E w \in Inserter :
          \/ \E S \in SUBSET Token : LookUp(w, S) \/ FetchMetadata(w, S)
          \/ \E t \in Token : TakeRow(w, t)
          \/ CommitRows(w) \/ InsertFails(w)
    \/ ClearCache

TokenRowsSpec == TokenRowsInit /\ [][TokenRowsNext]_tkVars

-----------------------------------------------------------------------------
(* Properties. *)

TokenRowsTypeOK ==
    /\ tokens \subseteq Token /\ tokenCache \subseteq Token
    /\ ens \in [Inserter -> [at : {"idle", "fetch", "insert"}, valid : SUBSET Token,
                             todo : SUBSET Token, held : SUBSET Token]]

(***************************************************************************)
(* Workers never wait for each other in a circle (block-processor.ts:      *)
(* 1735-1756): the database has no deadlock to break and no block to fail. *)
(***************************************************************************)
NoCircularWait ==
    \A circle \in (SUBSET Inserter) \ {{}} :
        \E w \in circle : \A u \in circle : ~Waits(w, u)

(***************************************************************************)
(* A cached token has its row, so transfers that skip the lookup are not   *)
(* left without one (block-processor.ts:1693-1696, 1771-1774).             *)
(***************************************************************************)
CachedIsStored == tokenCache \subseteq tokens
=============================================================================
