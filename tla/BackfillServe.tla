---------------------------- MODULE BackfillServe ----------------------------
(***************************************************************************)
(* The address page of the explorer over the backfill cache                *)
(* (apps/explorer/lib/backfill-serve.ts and the history and transfers      *)
(* routes): page one is always the provider's, deeper pages come from the  *)
(* cache once it is known to join page one, and from the provider again    *)
(* below the cache.  One reader pages through one entity while the worker  *)
(* of Backfill fills the cache it reads.                                   *)
(*                                                                         *)
(* A request is split at its awaits: it reads the watermark, then a cache  *)
(* page or a provider page, then perhaps whether the cache covers it.  All *)
(* its state between requests is in the cursor the client sends back.      *)
(***************************************************************************)
EXTENDS Backfill

CONSTANTS
    Seen,           \* the entity the reader looks at
    KeyOf,          \* row -> rank of its hash, unrelated to the provider's order
    LocalPage,      \* PAGE: rows of a cached page
    SeenCap         \* SEEN_CAP

ASSUME ServeAssumption ==
    /\ Seen \in Entity
    /\ KeyOf \in [Rows -> 1..MaxRow]
    /\ LocalPage \in Nat \ {0} /\ SeenCap \in Nat /\ SeenCap >= ProviderPage

VARIABLE view       \* the reader's session

bsVars == <<view, top, wm, cached, pagesUsed, at, job, mishaps>>

BlockOf(r) == 1 + Cardinality({b \in BlockEnds : b < r})
TopKey == MaxRow + 1

\* ServeCursor; NoCursor is the null that ends a listing.
Cursor(source, block, key, seen, pos) ==
    [source |-> source, block |-> block, key |-> key, seen |-> seen, pos |-> pos]
HeadCursor == Cursor("head", 0, 0, {}, 0)
LocalAt(block, key, seen) == Cursor("local", block, key, seen, 0)
ProviderAt(pos) == Cursor("provider", 0, 0, {}, pos)
NoCursor == Cursor("none", 0, 0, {}, 0)

\* decodeCursor: what does not have a shape the routes mint is the head.
Decoded(c) ==
    IF c.source = "local" /\ (\/ \E r \in c.seen : BlockOf(r) # c.block
                              \/ Cardinality(c.seen) > SeenCap)
    THEN HeadCursor ELSE c

NoWatermark == [status |-> "none", cursor |-> 0]

ServeInit == view = [pc |-> "ask", cur |-> HeadCursor, snap |-> NoWatermark,
                     page |-> {}, shown |-> {}, due |-> {}]

cacheUsable == view.snap.status \in {"complete", "capped", "partial"}

FromCache == cacheUsable /\ view.cur.source = "local"

\* The rows a page shows, and the request or the end that follows it.
Show(page, next, due) ==
    view' = [view EXCEPT !.pc = IF next = NoCursor THEN "done" ELSE "ask",
                         !.cur = next, !.page = page, !.shown = @ \cup page, !.due = due]

-----------------------------------------------------------------------------
(* Reading the cache. *)

Order(r, s) == BlockOf(r) < BlockOf(s) \/ (BlockOf(r) = BlockOf(s) /\ KeyOf[r] < KeyOf[s])

\* The rows under a keyset cursor, without the ones the live page had shown.
RowsUnder(cur) ==
    {r \in cached[Seen] : /\ BlockOf(r) < cur.block \/ (BlockOf(r) = cur.block /\ KeyOf[r] < cur.key)
                          /\ r \notin cur.seen}
Newest(rows) == {r \in rows : Cardinality({s \in rows : Order(r, s)}) < LocalPage}
LastOf(page) == CHOOSE r \in page : \A s \in page : ~Order(s, r)

carryOnce(cur, block) == {}  \* Wrong on purpose: the exclusions serve one page only.
carrySeamExclusions(cur, block) == IF block = cur.block THEN cur.seen ELSE {}

\* Below the cache: where the worker stopped, unless there is nothing below.
UnderCache ==
    IF view.snap.status # "complete" /\ view.snap.cursor # 0
    THEN ProviderAt(view.snap.cursor) ELSE NoCursor

\* A keyset page of the cache and the cursor after it.
LocalAnswer(cur, due) ==
    LET rows == RowsUnder(cur)
        page == Newest(rows)
        last == LastOf(page)
    IN  Show(page,
             IF rows = page THEN UnderCache
             ELSE LocalAt(BlockOf(last), KeyOf[last], carrySeamExclusions(cur, BlockOf(last))),
             due)

-----------------------------------------------------------------------------
(* One request. *)

\* readWatermark; an error of the database counts as no watermark.
ReadWatermark ==
    /\ view.pc = "ask"
    /\ \/ /\ view' = [view EXCEPT !.pc = "serve", !.cur = Decoded(@),
                        !.snap = [status |-> wm[Seen].status, cursor |-> wm[Seen].cursor]]
          /\ UNCHANGED mishaps
       \/ /\ Mishap
          /\ view' = [view EXCEPT !.pc = "serve", !.cur = Decoded(@), !.snap = NoWatermark]
    /\ UNCHANGED <<top, wm, cached, pagesUsed, at, job>>

\* Step 3 of the serving rule: a cached page.
ServeLocal ==
    /\ view.pc = "serve" /\ FromCache
    /\ LocalAnswer(view.cur, view.due)
    /\ UNCHANGED bfVars

\* Steps 1 and 4: the live head or a page of the provider's tail.  A local
\* cursor that meets an unusable cache starts again at the head.
AskProvider ==
    /\ view.pc = "serve" /\ ~FromCache
    /\ LET pos == view.cur.pos
           first == First(Seen, pos)
           page == first..Last(Seen, pos)
           due == IF view.due = {} THEN 1..top[Seen] ELSE view.due
       IN  IF view.cur.source = "head" /\ cacheUsable /\ page # {}
           THEN view' = [view EXCEPT !.pc = "cover", !.page = page,
                                     !.shown = @ \cup page, !.due = due]
           ELSE Show(page, IF first > 1 THEN ProviderAt(first) ELSE NoCursor, due)
    /\ UNCHANGED bfVars

\* The provider is out: the cached head if there is one, else a banner.
ProviderOut ==
    /\ view.pc = "serve" /\ ~FromCache
    /\ Mishap
    /\ IF view.cur.source = "head" /\ cacheUsable /\ cached[Seen] # {}
       THEN LocalAnswer(LocalAt(BlockOf(MaxRow) + 1, TopKey, {}),
                        {r \in Rows : \E c \in cached[Seen] : r <= c})
       ELSE view' = [view EXCEPT !.pc = "limited"]
    /\ UNCHANGED <<top, wm, cached, pagesUsed, at, job>>

\* cacheCoversFrom: the cache reaches up to the live page.
coversBelow(block) == \E r \in cached[Seen] : BlockOf(r) <= block  \* Wrong on purpose: rows below are enough.
cacheCoversFrom(block) == \E r \in cached[Seen] : BlockOf(r) >= block

\* Step 2: hand over to the cache if it covers the live page and, for
\* transfers, the provider keyed every row of the boundary block (which it
\* does not do consistently from one call to the next).  An error of the
\* database counts as no cover.
HandOver ==
    /\ view.pc = "cover"
    /\ LET oldest == CHOOSE r \in view.page : \A s \in view.page : r <= s
           boundary == {r \in view.page : BlockOf(r) = BlockOf(oldest)}
           handoff == LocalAt(BlockOf(oldest), TopKey, boundary)
           provider == IF oldest > 1 THEN ProviderAt(oldest) ELSE NoCursor
       IN  \/ /\ \E keyed \in IF KindOf[Seen] = "assets" THEN SUBSET boundary ELSE {boundary} :
                    Show(view.page,
                         IF cacheCoversFrom(BlockOf(oldest)) /\ keyed = boundary
                         THEN handoff ELSE provider,
                         view.due)
              /\ UNCHANGED mishaps
           \/ Mishap /\ Show(view.page, provider, view.due)
    /\ UNCHANGED <<top, wm, cached, pagesUsed, at, job>>

ServeStep == ReadWatermark \/ ServeLocal \/ AskProvider \/ ProviderOut \/ HandOver

ServeNext == (BackfillNext /\ UNCHANGED view) \/ ServeStep

ServeSpec == BackfillInit /\ ServeInit /\ [][ServeNext]_bsVars

-----------------------------------------------------------------------------
(* Properties. *)

(***************************************************************************)
(* A listing skips nothing (backfill-serve.ts:4-27): a reader that is      *)
(* given no further cursor has been shown every row there was when its     *)
(* first page was answered.  The code breaks it: a cache that ends within  *)
(* a block grows downward in the provider's order, which need not be       *)
(* downward in the keyset's; a listing inside that block has then passed   *)
(* the rows the worker adds.                                               *)
(***************************************************************************)
NoSkip == view.pc = "done" => view.due \subseteq view.shown

(***************************************************************************)
(* What a listing does skip is never a whole block (backfill-serve.ts:     *)
(* 240-266): some row of every block there was is shown, whatever arrived  *)
(* after the last backfill and whatever the worker cached, capped or was   *)
(* claiming between the requests and within them.                          *)
(***************************************************************************)
NoBlockSkipped ==
    view.pc = "done" => \A r \in view.due : \E s \in view.shown : BlockOf(s) = BlockOf(r)

(***************************************************************************)
(* The seam is exact (backfill-serve.ts:54-74): a cached page repeats no   *)
(* row the listing has shown, although hash order and the provider's order *)
(* disagree within a block and a block may span several pages.             *)
(***************************************************************************)
SeamExact == [][view.pc = "serve" /\ FromCache /\ view'.pc # "serve"
                  => view'.page \cap view.shown = {}]_bsVars
=============================================================================
