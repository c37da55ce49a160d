--------------------------- MODULE BackfillProofs ---------------------------
(***************************************************************************)
(* Theorems about Backfill and BackfillServe, for every number of workers  *)
(* and entities, histories of any length, pages of any size, and any       *)
(* number of failed calls, lost workers and overrun leases.                *)
(***************************************************************************)
EXTENDS BackfillServe, FiniteSetTheorems, WellFoundedInduction, TLAPS

(***************************************************************************)
(* The parts of BackfillTypeOK that steps change on their own.             *)
(***************************************************************************)
WmOK   == wm \in [Entity -> Watermark]
JobsOK ==
    /\ at \in [Worker -> Steps] /\ job \in [Worker -> Job \cup {NoJob}]
    /\ \A w \in Worker : at[w] # "idle" => job[w] \in Job
RestOK ==
    /\ top \in [Entity -> 0..MaxRow] /\ cached \in [Entity -> SUBSET Rows]
    /\ pagesUsed \in 0..PagesPerHour /\ mishaps \in 0..MaxMishaps

\* The type invariant by parts.
LEMMA TypeParts ==
    /\ BackfillTypeOK <=> WmOK /\ JobsOK /\ RestOK
    /\ BackfillTypeOK' <=> WmOK' /\ JobsOK' /\ RestOK'
    BY DEF BackfillTypeOK, WmOK, JobsOK, RestOK

-----------------------------------------------------------------------------
(* The inductive invariant. *)

\* A worker whose claim still holds knows its watermark.
JobKnows(w) ==
    /\ job[w].cursor = wm[job[w].e].cursor
    /\ job[w].rows = wm[job[w].e].rows
HoldersKnow == \A w \in Worker : at[w] # "idle" /\ Holds(w) => JobKnows(w)

\* The page to be written continues below the cursor, or starts at a row the
\* provider has; only an empty history has an empty page.
PageFits(w) ==
    /\ job[w].first <= job[w].last \/ (job[w].first = 1 /\ job[w].last = 0)
    /\ job[w].cursor # 0 => job[w].last = job[w].cursor - 1
    /\ job[w].cursor = 0 => job[w].last <= top[job[w].e]
PagesFit == \A w \in Worker : at[w] = "write" => PageFits(w)

\* A cursor is a row that another one is below; a finished history has none.
Cursors ==
    \A e \in Entity : /\ wm[e].cursor # 1
                      /\ wm[e].status = "complete" => wm[e].cursor = 0
JobCursors == \A w \in Worker : at[w] # "idle" => job[w].cursor # 1

BackfillInv ==
    /\ BackfillTypeOK
    /\ HoldersKnow /\ PagesFit /\ Cursors /\ JobCursors
    /\ CursorBacked

-----------------------------------------------------------------------------
(* What the pieces of a step do. *)

\* The watermark of e moves neither its cursor nor its count, nor into or out
\* of a final status.
RowKept(e) ==
    /\ wm'[e].cursor = wm[e].cursor /\ wm'[e].rows = wm[e].rows
    /\ wm'[e].status = "complete" <=> wm[e].status = "complete"
    /\ wm[e].status \in {"complete", "capped"} => wm'[e] = wm[e]

\* No claim comes into being.
NoNewClaim ==
    \A e \in Entity, v \in Worker :
        wm'[e].status = "running" /\ wm'[e].stamp = v =>
            wm[e].status = "running" /\ wm[e].stamp = v

\* A watermark that is kept has not gone back.
LEMMA KeptIsForward ==
    ASSUME WmOK, NEW e \in Entity, RowKept(e)
    PROVE  Forward(e)
    BY DEF WmOK, Watermark, RowKept, Forward

(***************************************************************************)
(* Cache and watermarks still agree when only other things move, and when  *)
(* the provider learns of newer rows.                                      *)
(***************************************************************************)
LEMMA BackedStays ==
    ASSUME BackfillTypeOK, Cursors, CursorBacked, cached' = cached,
           \A e \in Entity : RowKept(e) /\ top'[e] \in Nat /\ top[e] <= top'[e]
    PROVE  CursorBacked' /\ Cursors'
<1>1. Cursors'
    BY DEF Cursors, RowKept
<1>2. ASSUME NEW e \in Entity
      PROVE  \/ cached'[e] = {} /\ wm'[e].cursor = 0
             \/ /\ CachedFrom(e)' >= 1
                /\ \E r \in CachedFrom(e)'..top'[e] : cached'[e] = CachedFrom(e)'..r
    <2>1. CachedFrom(e)' = CachedFrom(e) /\ wm'[e].cursor = wm[e].cursor
        BY DEF CachedFrom, RowKept
    <2>2. CachedFrom(e) \in Nat /\ top[e] \in Nat /\ top'[e] \in Nat /\ top[e] <= top'[e]
        BY DEF CachedFrom, BackfillTypeOK, Watermark
    <2>3. CachedFrom(e)..top[e] \subseteq CachedFrom(e)..top'[e]
        BY <2>2
    <2> QED
        BY <2>1, <2>3 DEF CursorBacked
<1> QED
    BY <1>1, <1>2 DEF CursorBacked

\* A page joins the run that begins right above it.
LEMMA Joined ==
    ASSUME NEW a \in Nat, NEW c \in Nat, NEW r \in Nat, a <= c - 1, c <= r
    PROVE  (a..(c - 1)) \cup (c..r) = a..r
    OBVIOUS

\* Leaving "running" moves neither the cursor nor the rows, and makes no claim.
LEMMA LeaveMoves ==
    ASSUME WmOK, JobsOK, NEW w \in Worker, at[w] # "idle",
           NEW status \in Status \ {"none", "running", "complete"}, NEW attempts \in Nat,
           Leave(w, status, attempts)
    PROVE  WmOK' /\ NoNewClaim /\ \A e \in Entity : RowKept(e)
<1>1. CASE ~Holds(w)
    BY <1>1 DEF Leave, WmOK, NoNewClaim, RowKept
<1>2. CASE Holds(w)
    <2> DEFINE e0 == job[w].e
               row == [wm[e0] EXCEPT !.status = status, !.attempts = attempts,
                                     !.stamp = NoWorker, !.lapsed = FALSE]
    <2>1. e0 \in Entity /\ wm[e0] \in Watermark
        BY DEF JobsOK, Job, WmOK
    <2>2. /\ row \in Watermark /\ row.status = status /\ row.cursor = wm[e0].cursor
          /\ row.rows = wm[e0].rows
        BY <2>1, BackfillAssumption DEF Watermark
    <2>3. wm' = [wm EXCEPT ![e0] = row]
        BY <1>2, <2>1 DEF Leave, WmOK, Watermark
    <2>4. wm[e0].status = "running"
        BY <1>2 DEF Holds
    <2> HIDE DEF row, e0
    <2>5. \A e \in Entity : wm'[e] = IF e = e0 THEN row ELSE wm[e]
        BY <2>3 DEF WmOK
    <2>6. WmOK'
        BY <2>2, <2>3 DEF WmOK
    <2>7. NoNewClaim
        BY <2>2, <2>5 DEF NoNewClaim
    <2>8. \A e \in Entity : RowKept(e)
        BY <2>1, <2>2, <2>4, <2>5 DEF RowKept
    <2> QED
        BY <2>6, <2>7, <2>8
<1> QED
    BY <1>1, <1>2

(***************************************************************************)
(* A step of worker w that writes nothing and takes no new claim.          *)
(***************************************************************************)
JobsOf(w, s, j) == at' = [at EXCEPT ![w] = s] /\ job' = [job EXCEPT ![w] = j]
SameClaim(j, w) == j.e = job[w].e /\ j.cursor = job[w].cursor /\ j.rows = job[w].rows

\* Such a step keeps the invariant.
LEMMA QuietStep ==
    ASSUME BackfillInv, NEW w \in Worker, NEW s \in Steps, NEW j \in Job \cup {NoJob},
           JobsOf(w, s, j),
           s # "idle" => at[w] # "idle" /\ j \in Job /\ SameClaim(j, w),
           s = "write" => /\ j.first <= j.last \/ (j.first = 1 /\ j.last = 0)
                          /\ j.cursor # 0 => j.last = j.cursor - 1
                          /\ j.cursor = 0 => j.last <= top[j.e],
           WmOK', NoNewClaim, \A e \in Entity : RowKept(e),
           UNCHANGED <<top, cached>>,
           pagesUsed' \in 0..PagesPerHour, mishaps' \in 0..MaxMishaps
    PROVE  BackfillInv' /\ \A e \in Entity : Forward(e)
<1>0. BackfillTypeOK /\ WmOK /\ JobsOK /\ RestOK
    BY TypeParts DEF BackfillInv
<1>1. \A v \in Worker : /\ at'[v] = IF v = w THEN s ELSE at[v]
                        /\ job'[v] = IF v = w THEN j ELSE job[v]
    BY <1>0 DEF JobsOf, JobsOK
<1>2. JobsOK'
    <2>1. at' \in [Worker -> Steps] /\ job' \in [Worker -> Job \cup {NoJob}]
        BY <1>0 DEF JobsOf, JobsOK
    <2> QED
        BY <1>0, <1>1, <2>1 DEF JobsOK
<1>3. RestOK'
    BY <1>0 DEF RestOK
<1>4. CursorBacked' /\ Cursors'
    BY <1>0, BackedStays DEF BackfillInv, RestOK
<1>5. ASSUME NEW v \in Worker, at'[v] # "idle"
      PROVE  /\ at[v] # "idle" /\ job'[v].e = job[v].e /\ job'[v].cursor = job[v].cursor
             /\ job'[v].rows = job[v].rows /\ job[v].e \in Entity
    BY <1>0, <1>1, <1>5 DEF SameClaim, JobsOK, Job
<1>6. HoldersKnow'
    <2> SUFFICES ASSUME NEW v \in Worker, at'[v] # "idle", Holds(v)'
                 PROVE  JobKnows(v)'
        BY DEF HoldersKnow
    <2>1. Holds(v) /\ at[v] # "idle"
        BY <1>5 DEF Holds, NoNewClaim
    <2>2. JobKnows(v)
        BY <2>1 DEF BackfillInv, HoldersKnow
    <2> QED
        BY <1>5, <2>2 DEF JobKnows, RowKept
<1>7. JobCursors'
    BY <1>5 DEF BackfillInv, JobCursors
<1>8. PagesFit'
    BY <1>1 DEF BackfillInv, PagesFit, PageFits
<1>9. \A e \in Entity : Forward(e)
    BY <1>0, KeptIsForward
<1> QED
    BY <1>2, <1>3, <1>4, <1>6, <1>7, <1>8, <1>9, TypeParts DEF BackfillInv

-----------------------------------------------------------------------------
(* The page and the transaction that stores it. *)

(***************************************************************************)
(* The page the provider returns for a claim fits.                         *)
(***************************************************************************)
LEMMA PageBounds ==
    ASSUME NEW e \in Entity, NEW c \in 0..MaxRow, c # 1, top[e] \in 0..MaxRow
    PROVE  /\ First(e, c) \in 1..(MaxRow + 1) /\ Last(e, c) \in 0..MaxRow
           /\ First(e, c) <= Last(e, c) \/ (First(e, c) = 1 /\ Last(e, c) = 0)
           /\ c # 0 => Last(e, c) = c - 1
           /\ c = 0 => Last(e, c) <= top[e]
<1>1. MaxRow \in Nat /\ ProviderPage \in Nat /\ ProviderPage > 0
    BY BackfillAssumption
<1>2. /\ Last(e, c) \in 0..MaxRow
      /\ c # 0 => Last(e, c) = c - 1
      /\ c = 0 => Last(e, c) <= top[e]
    BY <1>1 DEF Last
<1>3. /\ First(e, c) \in 1..(MaxRow + 1)
      /\ First(e, c) <= Last(e, c) \/ (First(e, c) = 1 /\ Last(e, c) = 0)
    <2> DEFINE last == Last(e, c)
    <2>1. /\ last \in 0..MaxRow
          /\ First(e, c) = IF last > ProviderPage THEN last - ProviderPage + 1 ELSE 1
        BY <1>2 DEF First
    <2> HIDE DEF last
    <2>2. CASE last > ProviderPage
        <3>1. First(e, c) = last - ProviderPage + 1
            BY <2>1, <2>2
        <3>2. First(e, c) \in 1..(MaxRow + 1) /\ First(e, c) <= last
            BY <1>1, <2>1, <2>2, <3>1
        <3> QED
            BY <3>2 DEF last
    <2>3. CASE ~(last > ProviderPage)
        <3>1. First(e, c) = 1
            BY <2>1, <2>3
        <3>2. 1 <= last \/ last = 0
            BY <1>1, <2>1
        <3> QED
            BY <1>1, <3>1, <3>2 DEF last
    <2> QED
        BY <2>2, <2>3
<1> QED
    BY <1>2, <1>3

(***************************************************************************)
(* A page that is stored extends the run of cached rows downwards, and the *)
(* watermark with it.                                                      *)
(***************************************************************************)
LEMMA StoreMoves ==
    ASSUME BackfillInv, NEW w \in Worker, at[w] = "write", Holds(w), Store(w),
           UNCHANGED <<top, pagesUsed>>, mishaps' \in 0..MaxMishaps
    PROVE  /\ WmOK' /\ RestOK' /\ CursorBacked' /\ Cursors' /\ NoNewClaim
           /\ \A v \in Worker : ~(wm'[job[w].e].status = "running" /\ wm'[job[w].e].stamp = v)
           /\ \A e \in Entity \ {job[w].e} : wm'[e] = wm[e]
           /\ \A e \in Entity : Forward(e)
<1> DEFINE e0 == job[w].e
           first == job[w].first
           last == job[w].last
           total == job[w].rows + (last - first + 1)
           next == CursorAfter(first)
           row == [status |-> IF next = 0 THEN "complete"
                              ELSE IF total >= RowCap THEN "capped" ELSE "partial",
                   cursor |-> next, rows |-> total, attempts |-> 0,
                   stamp |-> NoWorker, lapsed |-> FALSE]
<1>0. BackfillTypeOK /\ WmOK /\ JobsOK /\ RestOK
    BY TypeParts DEF BackfillInv
<1>1. /\ e0 \in Entity /\ first \in 1..(MaxRow + 1) /\ last \in 0..MaxRow /\ MaxRow \in Nat
      /\ job[w].rows \in Nat /\ job[w].cursor \in 0..MaxRow
    BY <1>0, BackfillAssumption DEF JobsOK, Job
<1>2. /\ first <= last \/ (first = 1 /\ last = 0)
      /\ job[w].cursor # 0 => last = job[w].cursor - 1
      /\ job[w].cursor = 0 => last <= top[e0]
    BY DEF BackfillInv, PagesFit, PageFits
<1>3. /\ job[w].cursor = wm[e0].cursor /\ job[w].rows = wm[e0].rows
      /\ wm[e0].status = "running"
    BY DEF BackfillInv, HoldersKnow, JobKnows, Holds
<1>4. /\ wm' = [wm EXCEPT ![e0] = row]
      /\ cached' = [cached EXCEPT ![e0] = @ \cup (first..last)]
    BY DEF Store
<1>5. /\ total \in Nat /\ total >= job[w].rows /\ next \in 0..MaxRow /\ next # 1
      /\ next = IF first > 1 THEN first ELSE 0
    BY <1>1, <1>2 DEF CursorAfter
<1> HIDE DEF total, next
<1>6. row \in Watermark /\ row.stamp = NoWorker /\ row.cursor = next /\ row.rows = total
    BY <1>5 DEF Watermark, Status
<1>7. row.status = "complete" <=> next = 0
    BY <1>5
<1>7a. row.status # "running"
    OBVIOUS
<1> HIDE DEF row, e0
<1>8. \A e \in Entity : /\ wm'[e] = IF e = e0 THEN row ELSE wm[e]
                        /\ cached'[e] = IF e = e0 THEN cached[e] \cup (first..last) ELSE cached[e]
    BY <1>0, <1>4 DEF WmOK, RestOK
<1>9. WmOK'
    BY <1>0, <1>4, <1>6 DEF WmOK
<1>10. RestOK'
    <2>1. first..last \subseteq Rows
        BY <1>1 DEF Rows
    <2> HIDE DEF first, last
    <2>2. cached' \in [Entity -> SUBSET Rows]
        BY <1>0, <1>4, <2>1 DEF RestOK
    <2> QED
        BY <1>0, <2>2 DEF RestOK
<1>11. Cursors'
    BY <1>5, <1>6, <1>7, <1>8 DEF BackfillInv, Cursors
<1>12. NoNewClaim
    BY <1>7a, <1>8 DEF NoNewClaim
<1>13. \A e \in Entity : Forward(e)
    <2>1. wm[e0].cursor # 0 => next <= wm[e0].cursor
        BY <1>1, <1>2, <1>3, <1>5
    <2>2. Forward(e0)
        BY <1>1, <1>3, <1>5, <1>6, <1>8, <2>1 DEF Forward
    <2>3. \A e \in Entity \ {e0} : Forward(e)
        <3> SUFFICES ASSUME NEW e \in Entity \ {e0} PROVE Forward(e)
            OBVIOUS
        <3>0. wm'[e] = wm[e] /\ wm[e] \in Watermark
            BY <1>0, <1>8 DEF WmOK
        <3>1. wm[e].cursor \in Nat /\ wm[e].rows \in Nat
            BY <1>1, <3>0 DEF Watermark
        <3> QED
            BY <3>0, <3>1 DEF Forward
    <2> QED
        BY <2>2, <2>3
<1>14. CursorBacked'
    <2> SUFFICES ASSUME NEW e \in Entity
                 PROVE  \/ cached'[e] = {} /\ wm'[e].cursor = 0
                        \/ /\ CachedFrom(e)' >= 1
                           /\ \E r \in CachedFrom(e)'..top'[e] : cached'[e] = CachedFrom(e)'..r
        BY DEF CursorBacked
    <2>1. CASE e # e0
        BY <1>8, <2>1 DEF BackfillInv, CursorBacked, CachedFrom
    <2>2. CASE e = e0
        <3>1. /\ wm'[e].cursor = next /\ CachedFrom(e)' = IF next = 0 THEN 1 ELSE next
              /\ cached'[e] = cached[e] \cup (first..last) /\ top'[e] = top[e]
            BY <1>6, <1>7, <1>8, <2>2 DEF CachedFrom
        <3>2. top[e] \in 0..MaxRow
            BY <1>0 DEF RestOK
        <3>3. CachedFrom(e) = wm[e].cursor
            BY <1>3, <2>2 DEF CachedFrom
        <3>4. CASE wm[e].cursor = 0
            <4>1. cached[e] = {}
                BY <3>3, <3>4 DEF BackfillInv, CursorBacked
            <4>2. last <= top[e]
                BY <1>2, <1>3, <2>2, <3>4
            <4>3. CASE last = 0
                <5>1. first = 1 /\ next = 0 /\ cached'[e] = {}
                    BY <1>1, <1>2, <1>5, <3>1, <4>1, <4>3
                <5> QED
                    BY <3>1, <5>1
            <4>4. CASE last # 0
                <5>1. first <= last /\ CachedFrom(e)' = first /\ cached'[e] = first..last
                    BY <1>1, <1>2, <1>5, <3>1, <4>1, <4>4
                <5>2. last \in first..top[e]
                    BY <1>1, <3>2, <4>2, <5>1
                <5> QED
                    BY <1>1, <3>1, <5>1, <5>2
            <4> QED
                BY <4>3, <4>4
        <3>5. CASE wm[e].cursor # 0
            <4>1. PICK r \in wm[e].cursor..top[e] : cached[e] = wm[e].cursor..r
                BY <3>3, <3>5 DEF BackfillInv, CursorBacked
            <4>2. wm[e].cursor \in Nat /\ wm[e].cursor > 1 /\ last = wm[e].cursor - 1
                BY <1>1, <1>2, <1>3, <2>2, <3>5 DEF BackfillInv, Cursors
            <4>3. first <= last /\ CachedFrom(e)' = first
                BY <1>1, <1>2, <1>5, <3>1, <4>2
            <4>4. /\ first \in Nat /\ r \in Nat /\ top[e] \in Nat
                  /\ wm[e].cursor <= r /\ r <= top[e] /\ first <= wm[e].cursor - 1
                BY <1>1, <3>2, <4>1, <4>2, <4>3
            <4>5. r \in first..top[e]
                BY <4>2, <4>4
            <4>6. cached'[e] = first..r
                BY <3>1, <4>1, <4>2, <4>4, Joined
            <4>7. first >= 1
                BY <1>1
            <4> QED
                BY <3>1, <4>3, <4>5, <4>6, <4>7
        <3> QED
            BY <3>4, <3>5
    <2> QED
        BY <2>1, <2>2
<1>15. wm'[e0].status # "running" /\ \A e \in Entity \ {e0} : wm'[e] = wm[e]
    BY <1>1, <1>7a, <1>8
<1>16. e0 = job[w].e
    BY DEF e0
<1> QED
    BY <1>9, <1>10, <1>11, <1>12, <1>13, <1>14, <1>15, <1>16

-----------------------------------------------------------------------------
(* The steps. *)

\* What a step of any kind has to show.
Safe == BackfillInv' /\ \A e \in Entity : Forward(e)

\* The job of w with the outcome of its page.
Answered(w, outcome, first, last) ==
    [job[w] EXCEPT !.outcome = outcome, !.first = first, !.last = last]

\* The claim of a worker, and what the answer to its page makes of it.
LEMMA JobMoves ==
    ASSUME JobsOK, NEW w \in Worker, at[w] # "idle"
    PROVE  /\ job[w] \in Job /\ job = [job EXCEPT ![w] = job[w]]
           /\ job[w].cursor \in 0..MaxRow /\ job[w].e \in Entity
           /\ job[w].rows \in Nat /\ job[w].attempts \in Nat
           /\ \A outcome \in Outcomes, first \in 1..(MaxRow + 1), last \in 0..MaxRow :
                 LET j == Answered(w, outcome, first, last)
                 IN  j \in Job /\ SameClaim(j, w) /\ j.first = first /\ j.last = last
<1>1. job \in [Worker -> Job \cup {NoJob}] /\ job[w] \in Job
    BY DEF JobsOK
<1>2. job = [job EXCEPT ![w] = job[w]]
    <2> HIDE DEF Job
    <2> QED
        BY <1>1
<1>3. /\ job[w].cursor \in 0..MaxRow /\ job[w].e \in Entity
      /\ job[w].rows \in Nat /\ job[w].attempts \in Nat
    BY <1>1 DEF Job
<1>4. ASSUME NEW outcome \in Outcomes, NEW first \in 1..(MaxRow + 1), NEW last \in 0..MaxRow
      PROVE  LET j == Answered(w, outcome, first, last)
             IN  j \in Job /\ SameClaim(j, w) /\ j.first = first /\ j.last = last
    BY <1>1 DEF Job, Answered, SameClaim
<1> QED
    BY <1>1, <1>2, <1>3, <1>4

\* A worker goes on to another step of its round.
LEMMA GoToMoves ==
    ASSUME BackfillInv, NEW w \in Worker, at[w] # "idle",
           NEW s \in Steps \ {"idle", "write"}, GoTo(w, s),
           WmOK', NoNewClaim, \A e \in Entity : RowKept(e),
           UNCHANGED <<top, cached>>,
           pagesUsed' \in 0..PagesPerHour, mishaps' \in 0..MaxMishaps
    PROVE  Safe
<1>1. JobsOK
    BY TypeParts DEF BackfillInv
<1>2. job[w] \in Job /\ JobsOf(w, s, job[w]) /\ SameClaim(job[w], w)
    BY <1>1, JobMoves DEF GoTo, JobsOf, SameClaim
<1> QED
    BY <1>2, QuietStep DEF Safe

\* A worker ends its round.
LEMMA GoIdleMoves ==
    ASSUME BackfillInv, NEW w \in Worker, GoIdle(w),
           WmOK', NoNewClaim, \A e \in Entity : RowKept(e),
           UNCHANGED <<top, cached>>,
           pagesUsed' \in 0..PagesPerHour, mishaps' \in 0..MaxMishaps
    PROVE  Safe
<1>1. JobsOf(w, "idle", NoJob) /\ "idle" \in Steps
    BY DEF GoIdle, JobsOf, Steps
<1> QED
    BY <1>1, QuietStep DEF Safe

\* A worker has the answer to its page.
LEMMA AnswerMoves ==
    ASSUME BackfillInv, NEW w \in Worker, at[w] # "idle", NEW s \in {"write", "settle"},
           NEW outcome \in Outcomes, NEW first \in 1..(MaxRow + 1), NEW last \in 0..MaxRow,
           Answer(w, s, outcome, first, last),
           s = "write" => /\ first <= last \/ (first = 1 /\ last = 0)
                          /\ job[w].cursor # 0 => last = job[w].cursor - 1
                          /\ job[w].cursor = 0 => last <= top[job[w].e],
           UNCHANGED <<top, wm, cached, pagesUsed>>, mishaps' \in 0..MaxMishaps
    PROVE  Safe
<1>1. JobsOK /\ WmOK /\ RestOK
    BY TypeParts DEF BackfillInv
<1>2. /\ Answered(w, outcome, first, last) \in Job
      /\ SameClaim(Answered(w, outcome, first, last), w)
      /\ Answered(w, outcome, first, last).first = first
      /\ Answered(w, outcome, first, last).last = last
    BY <1>1, JobMoves
<1>3. JobsOf(w, s, Answered(w, outcome, first, last))
    BY <1>1 DEF Answer, JobsOf, Answered, JobsOK
<1>4. WmOK' /\ NoNewClaim /\ \A e \in Entity : RowKept(e)
    BY <1>1 DEF WmOK, NoNewClaim, RowKept
<1>5. s \in Steps /\ pagesUsed' \in 0..PagesPerHour
    BY <1>1 DEF Steps, RestOK
<1> HIDE DEF Answered
<1> QED
    BY <1>2, <1>3, <1>4, <1>5, QuietStep DEF Safe, SameClaim

(***************************************************************************)
(* A transaction that stored its page leaves nobody with a claim on the    *)
(* entity, whatever its worker does next.                                  *)
(***************************************************************************)
LEMMA StoredSafe ==
    ASSUME BackfillInv, NEW w \in Worker, at[w] = "write", Holds(w), Store(w),
           NEW s \in {"idle", "settle"}, NEW j \in Job \cup {NoJob}, JobsOf(w, s, j),
           s = "settle" => j \in Job /\ SameClaim(j, w),
           UNCHANGED <<top, pagesUsed>>, mishaps' \in 0..MaxMishaps
    PROVE  Safe
<1>0. JobsOK
    BY TypeParts DEF BackfillInv
<1>1. /\ WmOK' /\ RestOK' /\ CursorBacked' /\ Cursors' /\ NoNewClaim
      /\ \A v \in Worker : ~(wm'[job[w].e].status = "running" /\ wm'[job[w].e].stamp = v)
      /\ \A e \in Entity \ {job[w].e} : wm'[e] = wm[e]
      /\ \A e \in Entity : Forward(e)
    BY StoreMoves
<1>2. \A v \in Worker : /\ at'[v] = IF v = w THEN s ELSE at[v]
                        /\ job'[v] = IF v = w THEN j ELSE job[v]
    BY <1>0 DEF JobsOf, JobsOK
<1>3. JobsOK'
    <2>1. at' \in [Worker -> Steps] /\ job' \in [Worker -> Job \cup {NoJob}]
        BY <1>0 DEF JobsOf, JobsOK, Steps
    <2> QED
        BY <1>0, <1>2, <2>1 DEF JobsOK
<1>4. HoldersKnow'
    <2> SUFFICES ASSUME NEW v \in Worker, at'[v] # "idle", Holds(v)'
                 PROVE  JobKnows(v)'
        BY DEF HoldersKnow
    <2>1. at[v] # "idle" /\ job'[v].e = job[v].e /\ job[v].e \in Entity
        BY <1>0, <1>2 DEF SameClaim, JobsOK, Job
    <2>2. job[v].e # job[w].e
        BY <1>1, <2>1 DEF Holds
    <2>3. v # w /\ job'[v] = job[v] /\ wm'[job[v].e] = wm[job[v].e]
        BY <1>1, <1>2, <2>1, <2>2
    <2>4. JobKnows(v)
        BY <2>1, <2>3 DEF BackfillInv, HoldersKnow, Holds
    <2> QED
        BY <2>3, <2>4 DEF JobKnows
<1>5. PagesFit'
    BY <1>2 DEF BackfillInv, PagesFit, PageFits
<1>6. JobCursors'
    BY <1>2 DEF BackfillInv, JobCursors, SameClaim
<1> QED
    BY <1>1, <1>3, <1>4, <1>5, <1>6, TypeParts DEF Safe, BackfillInv

\* A worker that stored its page ends its round.
LEMMA StoreAndLeave ==
    ASSUME BackfillInv, NEW w \in Worker, at[w] = "write", Holds(w), Store(w), GoIdle(w),
           UNCHANGED <<top, pagesUsed>>, mishaps' \in 0..MaxMishaps
    PROVE  Safe
<1>1. JobsOf(w, "idle", NoJob)
    BY DEF GoIdle, JobsOf
<1> QED
    BY <1>1, StoredSafe

(***************************************************************************)
(* The steps of a worker after its claim.                                  *)
(***************************************************************************)
LEMMA WorkingSafe ==
    ASSUME BackfillInv, NEW w \in Worker, Working(w) \/ FetchFails(w)
    PROVE  Safe
<1>0. JobsOK /\ WmOK /\ RestOK
    BY TypeParts DEF BackfillInv
<1>k. UNCHANGED wm => WmOK' /\ NoNewClaim /\ \A e \in Entity : RowKept(e)
    BY <1>0 DEF WmOK, NoNewClaim, RowKept
<1>b. /\ pagesUsed \in 0..PagesPerHour /\ mishaps \in 0..MaxMishaps
      /\ PagesPerHour \in Nat /\ MaxMishaps \in Nat /\ MaxRow \in Nat
    BY <1>0, BackfillAssumption DEF RestOK
<1>s. /\ {"release", "verify", "fetch"} \subseteq Steps \ {"idle", "write"}
      /\ {"pending", "partial", "capped", "error"}
             \subseteq Status \ {"none", "running", "complete"}
      /\ {"page", "operational", "refused", "thrown", "uncacheable"} \subseteq Outcomes
    BY DEF Steps, Status, Outcomes
<1>1. CASE Reserve(w)
    <2>1. /\ at[w] # "idle" /\ UNCHANGED <<top, wm, cached, mishaps>>
          /\ pagesUsed' \in 0..PagesPerHour
          /\ GoTo(w, "verify") \/ GoTo(w, "release")
        BY <1>1, <1>b DEF Reserve
    <2> QED
        BY <1>k, <1>b, <1>s, <2>1, GoToMoves
<1>2. CASE Release(w)
    <2>1. /\ at[w] # "idle" /\ UNCHANGED <<top, cached, pagesUsed, mishaps>> /\ GoIdle(w)
          /\ Leave(w, IdleStatus(w), wm[job[w].e].attempts)
        BY <1>2 DEF Release
    <2>2. /\ wm[job[w].e].attempts \in Nat
          /\ IdleStatus(w) \in Status \ {"none", "running", "complete"}
        BY <1>0, <1>s, <2>1, JobMoves DEF WmOK, Watermark, IdleStatus
    <2>3. WmOK' /\ NoNewClaim /\ \A e \in Entity : RowKept(e)
        BY <1>0, <2>1, <2>2, LeaveMoves
    <2> QED
        BY <1>b, <2>1, <2>3, GoIdleMoves
<1>3. CASE Verify(w)
    <2>1. /\ at[w] # "idle" /\ UNCHANGED <<top, wm, cached, pagesUsed, mishaps>>
          /\ GoTo(w, "fetch") \/ GoIdle(w)
        BY <1>3 DEF Verify
    <2> QED
        BY <1>k, <1>b, <1>s, <2>1, GoToMoves, GoIdleMoves
<1>4. CASE Fetch(w)
    <2> DEFINE first == First(job[w].e, job[w].cursor)
               last  == Last(job[w].e, job[w].cursor)
    <2>1. /\ at[w] # "idle" /\ UNCHANGED <<top, wm, cached, pagesUsed, mishaps>>
          /\ \/ Answer(w, "write", "page", first, last)
             \/ Answer(w, "settle", "uncacheable", 1, 0)
        BY <1>4 DEF Fetch
    <2>2. /\ job[w].e \in Entity /\ job[w].cursor \in 0..MaxRow /\ job[w].cursor # 1
          /\ top[job[w].e] \in 0..MaxRow
        BY <1>0, <2>1, JobMoves DEF BackfillInv, JobCursors, RestOK
    <2>3. /\ first \in 1..(MaxRow + 1) /\ last \in 0..MaxRow
          /\ first <= last \/ (first = 1 /\ last = 0)
          /\ job[w].cursor # 0 => last = job[w].cursor - 1
          /\ job[w].cursor = 0 => last <= top[job[w].e]
        BY <2>2, PageBounds
    <2> HIDE DEF first, last
    <2>4. CASE Answer(w, "write", "page", first, last)
        BY <1>b, <1>s, <2>1, <2>3, <2>4, AnswerMoves
    <2>5. CASE Answer(w, "settle", "uncacheable", 1, 0)
        BY <1>b, <1>s, <2>1, <2>5, AnswerMoves
    <2> QED
        BY <2>1, <2>4, <2>5
<1>5. CASE FetchFails(w)
    <2>1. /\ at[w] # "idle" /\ UNCHANGED <<top, wm, cached, pagesUsed>>
          /\ \E outcome \in Outcomes : Answer(w, "settle", outcome, 1, 0)
        BY <1>5, <1>s DEF FetchFails
    <2>2. mishaps' \in 0..MaxMishaps
        BY <1>5, <1>b DEF FetchFails, Mishap
    <2> QED
        BY <1>b, <2>1, <2>2, AnswerMoves
<1>6. CASE Settle(w)
    <2>1. at[w] # "idle" /\ UNCHANGED <<top, cached, pagesUsed, mishaps>> /\ GoIdle(w)
        BY <1>6 DEF Settle
    <2>2. /\ wm[job[w].e].attempts \in Nat
          /\ IdleStatus(w) \in Status \ {"none", "running", "complete"}
        BY <1>0, <1>s, <2>1, JobMoves DEF WmOK, Watermark, IdleStatus
    <2>3. \E status \in Status \ {"none", "running", "complete"}, attempts \in Nat :
              Leave(w, status, attempts)
        BY <1>6, <1>s, <2>2 DEF Settle
    <2>4. WmOK' /\ NoNewClaim /\ \A e \in Entity : RowKept(e)
        BY <1>0, <2>1, <2>3, LeaveMoves
    <2> QED
        BY <1>b, <2>1, <2>4, GoIdleMoves
<1>7. CASE Write(w) /\ ~Holds(w)
    <2>1. GoIdle(w) /\ UNCHANGED <<top, wm, cached, pagesUsed, mishaps>>
        BY <1>7 DEF Write, Commit
    <2> QED
        BY <1>k, <1>b, <2>1, GoIdleMoves
<1>8. CASE Write(w) /\ Holds(w)
    <2>1. /\ at[w] = "write" /\ Store(w) /\ GoIdle(w)
          /\ UNCHANGED <<top, pagesUsed, mishaps>>
        BY <1>8 DEF Write, Commit
    <2> QED
        BY <1>8, <1>b, <2>1, StoreAndLeave
<1> QED
    BY <1>1, <1>2, <1>3, <1>4, <1>5, <1>6, <1>7, <1>8 DEF Working

(***************************************************************************)
(* The transaction that throws, and the worker that is lost.               *)
(***************************************************************************)
LEMMA FailingSafe ==
    ASSUME BackfillInv, NEW w \in Worker, WriteThrows(w) \/ Abandon(w)
    PROVE  Safe
<1>0. JobsOK /\ WmOK /\ RestOK
    BY TypeParts DEF BackfillInv
<1>k. UNCHANGED wm => WmOK' /\ NoNewClaim /\ \A e \in Entity : RowKept(e)
    BY <1>0 DEF WmOK, NoNewClaim, RowKept
<1>b. pagesUsed \in 0..PagesPerHour /\ MaxMishaps \in Nat /\ MaxRow \in Nat
    BY <1>0, BackfillAssumption DEF RestOK
<1>m. Mishap => mishaps' \in 0..MaxMishaps
    BY <1>0, <1>b DEF Mishap, RestOK
<1>1. CASE Abandon(w)
    <2>1. GoIdle(w) /\ UNCHANGED <<top, wm, cached, pagesUsed>> /\ mishaps' \in 0..MaxMishaps
        BY <1>1, <1>m DEF Abandon
    <2> QED
        BY <1>k, <1>b, <2>1, GoIdleMoves
<1>2. CASE WriteThrows(w)
    <2>1. /\ at[w] = "write" /\ Answer(w, "settle", "thrown", 1, 0)
          /\ UNCHANGED <<top, pagesUsed>> /\ mishaps' \in 0..MaxMishaps
          /\ UNCHANGED <<wm, cached>> \/ (Holds(w) /\ Store(w))
        BY <1>2, <1>m DEF WriteThrows, Commit
    <2>2. CASE UNCHANGED <<wm, cached>>
        BY <1>b, <2>1, <2>2, AnswerMoves DEF Outcomes
    <2>3. CASE Holds(w) /\ Store(w)
        <3> DEFINE j == Answered(w, "thrown", 1, 0)
        <3>1. j \in Job /\ SameClaim(j, w)
            BY <1>0, <1>b, <2>1, JobMoves DEF Outcomes
        <3>2. JobsOf(w, "settle", j)
            BY <1>0, <2>1 DEF Answer, JobsOf, Answered, JobsOK
        <3> HIDE DEF j
        <3> QED
            BY <2>1, <2>3, <3>1, <3>2, StoredSafe
    <2> QED
        BY <2>1, <2>2, <2>3
<1> QED
    BY <1>1, <1>2

(***************************************************************************)
(* A claim takes a row over as it is, and whoever had it has lost it.      *)
(***************************************************************************)
LEMMA ClaimSafe ==
    ASSUME BackfillInv, NEW w \in Worker, Claim(w)
    PROVE  Safe
<1>0. BackfillTypeOK /\ JobsOK /\ WmOK /\ RestOK
    BY TypeParts DEF BackfillInv
<1>1. PICK e0 \in Entity :
          /\ Claimable(e0)
          /\ wm' = [wm EXCEPT ![e0].status = "running", ![e0].stamp = w, ![e0].lapsed = FALSE]
          /\ job' = [job EXCEPT ![w] =
                [e |-> e0, cursor |-> wm[e0].cursor, rows |-> wm[e0].rows,
                 attempts |-> wm[e0].attempts, outcome |-> "none", first |-> 1, last |-> 0]]
          /\ at' = [at EXCEPT ![w] = "reserve"]
    <2>1. \A hot : Eligible(hot) \subseteq {e \in Entity : Claimable(e)}
        BY DEF Eligible
    <2> QED
        BY <2>1 DEF Claim
<1> DEFINE row == [wm[e0] EXCEPT !.status = "running", !.stamp = w, !.lapsed = FALSE]
           j == [e |-> e0, cursor |-> wm[e0].cursor, rows |-> wm[e0].rows,
                 attempts |-> wm[e0].attempts, outcome |-> "none", first |-> 1, last |-> 0]
<1>2. wm[e0] \in Watermark
    BY <1>0 DEF WmOK
<1>3. /\ row \in Watermark /\ row.status = "running" /\ row.stamp = w
      /\ row.cursor = wm[e0].cursor /\ row.rows = wm[e0].rows
    BY <1>2 DEF Watermark, Status
<1>4. /\ j \in Job /\ j.e = e0 /\ j.cursor = wm[e0].cursor /\ j.rows = wm[e0].rows
    BY <1>2, BackfillAssumption DEF Watermark, Job, Outcomes
<1>5. wm' = [wm EXCEPT ![e0] = row]
    BY <1>1, <1>2 DEF Watermark
<1>6. UNCHANGED <<top, cached, pagesUsed, mishaps>> /\ at[w] = "idle"
    BY DEF Claim
<1>7. wm[e0].status \notin {"complete", "capped"}
    BY <1>1 DEF Claimable
<1>8. /\ at' = [at EXCEPT ![w] = "reserve"] /\ job' = [job EXCEPT ![w] = j]
    BY <1>1
<1> HIDE DEF row, j
<1>9. \A e \in Entity : wm'[e] = IF e = e0 THEN row ELSE wm[e]
    BY <1>0, <1>5 DEF WmOK
<1>10. \A v \in Worker : /\ at'[v] = IF v = w THEN "reserve" ELSE at[v]
                         /\ job'[v] = IF v = w THEN j ELSE job[v]
    BY <1>0, <1>8 DEF JobsOK
<1>11. WmOK'
    BY <1>0, <1>3, <1>5 DEF WmOK
<1>12. \A e \in Entity : RowKept(e)
    BY <1>3, <1>7, <1>9 DEF RowKept
<1>13. JobsOK'
    <2>1. at' \in [Worker -> Steps] /\ job' \in [Worker -> Job \cup {NoJob}]
        BY <1>0, <1>4, <1>8 DEF JobsOK, Steps
    <2> QED
        BY <1>0, <1>4, <1>10, <2>1 DEF JobsOK
<1>14. RestOK' /\ CursorBacked' /\ Cursors'
    BY <1>0, <1>6, <1>12, BackedStays DEF BackfillInv, RestOK
<1>15. HoldersKnow'
    <2> SUFFICES ASSUME NEW v \in Worker, at'[v] # "idle", Holds(v)'
                 PROVE  JobKnows(v)'
        BY DEF HoldersKnow
    <2>1. CASE v = w
        BY <1>3, <1>4, <1>9, <1>10, <2>1 DEF JobKnows
    <2>2. CASE v # w
        <3>1. job[v].e \in Entity /\ at[v] # "idle" /\ job'[v] = job[v]
            BY <1>0, <1>10, <2>2 DEF JobsOK, Job
        <3>2. job[v].e # e0
            BY <1>3, <1>9, <2>2, <3>1 DEF Holds
        <3>3. wm'[job[v].e] = wm[job[v].e]
            BY <1>9, <3>1, <3>2
        <3>4. JobKnows(v)
            BY <3>1, <3>3 DEF BackfillInv, HoldersKnow, Holds
        <3> QED
            BY <3>1, <3>3, <3>4 DEF JobKnows
    <2> QED
        BY <2>1, <2>2
<1>16. PagesFit'
    BY <1>6, <1>10 DEF BackfillInv, PagesFit, PageFits
<1>17. JobCursors'
    BY <1>4, <1>10 DEF BackfillInv, JobCursors, Cursors
<1>18. \A e \in Entity : Forward(e)
    BY <1>0, <1>12, KeptIsForward
<1> QED
    BY <1>11, <1>13, <1>14, <1>15, <1>16, <1>17, <1>18, TypeParts DEF Safe, BackfillInv

\* What every step no worker takes leaves as it is.
KeptOutside ==
    /\ UNCHANGED <<cached, at, job>> /\ WmOK' /\ RestOK'
    /\ \A e \in Entity : RowKept(e) /\ top[e] <= top'[e] /\ top'[e] \in Nat
    /\ NoNewClaim

(***************************************************************************)
(* The steps no worker takes.                                              *)
(***************************************************************************)
LEMMA OutsideSafe ==
    ASSUME BackfillInv,
           (\E e \in Entity : EntityStep(e)) \/ HourTurns \/ UNCHANGED bfVars
    PROVE  Safe
<1>0. BackfillTypeOK /\ JobsOK /\ WmOK /\ RestOK
    BY TypeParts DEF BackfillInv
<1>b. PagesPerHour \in Nat /\ MaxMishaps \in Nat /\ MaxRow \in Nat
    BY BackfillAssumption
<1>1. KeptOutside
    <2>k. UNCHANGED wm => WmOK' /\ NoNewClaim /\ \A e \in Entity : RowKept(e)
        BY <1>0 DEF WmOK, NoNewClaim, RowKept
    <2>t. top' = top => \A e \in Entity : top[e] <= top'[e] /\ top'[e] \in Nat
        BY <1>0 DEF RestOK
    <2>1. ASSUME NEW e0 \in Entity, Enqueue(e0)
          PROVE  KeptOutside
        <3> DEFINE row == [wm[e0] EXCEPT !.status = "pending"]
        <3>1. wm[e0] \in Watermark
            BY <1>0 DEF WmOK
        <3>2. /\ row \in Watermark /\ row.status = "pending" /\ row.cursor = wm[e0].cursor
              /\ row.rows = wm[e0].rows
            BY <3>1 DEF Watermark, Status
        <3>3. wm' = [wm EXCEPT ![e0] = row] /\ wm[e0].status = "none"
            BY <2>1 DEF Enqueue
        <3>4. UNCHANGED <<top, cached, pagesUsed, at, job, mishaps>>
            BY <2>1 DEF Enqueue
        <3> HIDE DEF row
        <3>5. \A e \in Entity : wm'[e] = IF e = e0 THEN row ELSE wm[e]
            BY <1>0, <3>3 DEF WmOK
        <3>6. WmOK' /\ NoNewClaim /\ \A e \in Entity : RowKept(e)
            BY <1>0, <3>2, <3>3, <3>5 DEF WmOK, NoNewClaim, RowKept
        <3> QED
            BY <1>0, <2>t, <3>4, <3>6 DEF KeptOutside, RestOK
    <2>2. ASSUME NEW e0 \in Entity, Arrive(e0)
          PROVE  KeptOutside
        <3>1. PICK r \in BlockEnds : r > top[e0] /\ top' = [top EXCEPT ![e0] = r]
            BY <2>2 DEF Arrive
        <3>2. UNCHANGED <<wm, cached, pagesUsed, at, job, mishaps>>
            BY <2>2 DEF Arrive
        <3>3. r \in 0..MaxRow
            BY BackfillAssumption DEF Rows
        <3>4. top' \in [Entity -> 0..MaxRow] /\ \A e \in Entity : top[e] <= top'[e]
            BY <1>0, <3>1, <3>3 DEF RestOK
        <3>5. \A e \in Entity : top'[e] \in Nat
            BY <3>4
        <3> QED
            BY <1>0, <2>k, <3>2, <3>4, <3>5 DEF KeptOutside, RestOK
    <2>3. ASSUME NEW e0 \in Entity, Lapse(e0)
          PROVE  KeptOutside
        <3> DEFINE row == [wm[e0] EXCEPT !.lapsed = TRUE]
        <3>1. wm[e0] \in Watermark
            BY <1>0 DEF WmOK
        <3>2. /\ row \in Watermark /\ row.status = wm[e0].status /\ row.cursor = wm[e0].cursor
              /\ row.rows = wm[e0].rows /\ row.stamp = wm[e0].stamp
            BY <3>1 DEF Watermark
        <3>3. wm' = [wm EXCEPT ![e0] = row] /\ wm[e0].status = "running"
            BY <2>3 DEF Lapse
        <3>4. UNCHANGED <<top, cached, pagesUsed, at, job>>
            BY <2>3 DEF Lapse
        <3>7. mishaps' \in 0..MaxMishaps
            BY <1>0, <1>b, <2>3 DEF Lapse, Mishap, RestOK
        <3> HIDE DEF row
        <3>5. \A e \in Entity : wm'[e] = IF e = e0 THEN row ELSE wm[e]
            BY <1>0, <3>3 DEF WmOK
        <3>6. WmOK' /\ NoNewClaim /\ \A e \in Entity : RowKept(e)
            BY <1>0, <3>2, <3>3, <3>5 DEF WmOK, NoNewClaim, RowKept
        <3> QED
            BY <1>0, <2>t, <3>4, <3>6, <3>7 DEF KeptOutside, RestOK
    <2>4. CASE HourTurns
        <3>1. UNCHANGED <<top, wm, cached, at, job, mishaps>> /\ pagesUsed' \in 0..PagesPerHour
            BY <1>b, <2>4 DEF HourTurns
        <3> QED
            BY <1>0, <2>k, <2>t, <3>1 DEF KeptOutside, RestOK
    <2>5. CASE UNCHANGED bfVars
        BY <1>0, <2>k, <2>t, <2>5 DEF KeptOutside, RestOK, bfVars
    <2> QED
        BY <2>1, <2>2, <2>3, <2>4, <2>5 DEF EntityStep
<1>u. /\ UNCHANGED <<cached, at, job>> /\ WmOK' /\ RestOK'
      /\ \A e \in Entity : RowKept(e) /\ top[e] <= top'[e] /\ top'[e] \in Nat
      /\ NoNewClaim
    BY <1>1 DEF KeptOutside
<1>2. JobsOK' /\ JobCursors'
    BY <1>0, <1>u DEF BackfillInv, JobsOK, JobCursors
<1>3. CursorBacked' /\ Cursors'
    BY <1>0, <1>u, BackedStays DEF BackfillInv
<1>4. HoldersKnow'
    <2> SUFFICES ASSUME NEW v \in Worker, at[v] # "idle", Holds(v)'
                 PROVE  JobKnows(v)'
        BY <1>u DEF HoldersKnow
    <2>1. job[v].e \in Entity
        BY <1>0 DEF JobsOK, Job
    <2>2. JobKnows(v)
        BY <1>u, <2>1 DEF BackfillInv, HoldersKnow, Holds, NoNewClaim
    <2> QED
        BY <1>u, <2>1, <2>2 DEF JobKnows, RowKept
<1>5. PagesFit'
    <2> SUFFICES ASSUME NEW v \in Worker, at[v] = "write"
                 PROVE  PageFits(v)'
        BY <1>u DEF PagesFit
    <2>1. job[v] \in Job /\ job'[v] = job[v] /\ PageFits(v)
        BY <1>0, <1>u DEF JobsOK, BackfillInv, PagesFit
    <2>2. job[v].e \in Entity /\ job[v].last \in 0..MaxRow /\ top[job[v].e] \in 0..MaxRow
        BY <1>0, <2>1 DEF Job, RestOK
    <2>3. top[job[v].e] <= top'[job[v].e] /\ top'[job[v].e] \in Nat
        BY <1>u, <2>2
    <2> QED
        BY <1>b, <2>1, <2>2, <2>3 DEF PageFits
<1>6. \A e \in Entity : Forward(e)
    BY <1>0, <1>u, KeptIsForward
<1> QED
    BY <1>u, <1>2, <1>3, <1>4, <1>5, <1>6, TypeParts DEF Safe, BackfillInv

-----------------------------------------------------------------------------
(* The theorems. *)

\* Every step keeps the invariant and takes no watermark back.
LEMMA BackfillStep == BackfillInv /\ [BackfillNext]_bfVars => Safe
<1> SUFFICES ASSUME BackfillInv, [BackfillNext]_bfVars PROVE Safe
    OBVIOUS
<1>1. ASSUME NEW w \in Worker, WorkerStep(w) PROVE Safe
    BY <1>1, ClaimSafe, WorkingSafe, FailingSafe DEF WorkerStep
<1>2. ASSUME (\E e \in Entity : EntityStep(e)) \/ HourTurns \/ UNCHANGED bfVars PROVE Safe
    BY <1>2, OutsideSafe
<1> QED
    BY <1>1, <1>2 DEF BackfillNext

\* The state at the start.
LEMMA BackfillStart == BackfillInit => BackfillInv
<1> SUFFICES ASSUME BackfillInit PROVE BackfillInv
    OBVIOUS
<1>1. Unseen \in Watermark /\ Unseen.cursor = 0 /\ Unseen.status = "none"
    BY BackfillAssumption DEF Unseen, Watermark, Status
<1>2. \A e \in Entity : wm[e] = Unseen
    BY DEF BackfillInit
<1>3. WmOK /\ RestOK
    BY <1>1, BackfillAssumption DEF BackfillInit, WmOK, RestOK
<1>4. JobsOK /\ \A w \in Worker : at[w] = "idle"
    BY DEF BackfillInit, JobsOK, Steps
<1>5. Cursors /\ CursorBacked
    BY <1>1, <1>2 DEF BackfillInit, Cursors, CursorBacked
<1> QED
    BY <1>3, <1>4, <1>5, TypeParts DEF BackfillInv, HoldersKnow, PagesFit, JobCursors

(***************************************************************************)
(* The watermark, the cache and the claims in memory stay consistent.      *)
(***************************************************************************)
THEOREM BackfillInvariance == BackfillSpec => []BackfillInv
<1>1. BackfillInv /\ [BackfillNext]_bfVars => BackfillInv'
    BY BackfillStep DEF Safe
<1> QED
    BY <1>1, BackfillStart, PTL DEF BackfillSpec

(***************************************************************************)
(* What is cached is one run of rows that ends where the watermark         *)
(* continues (backfill-worker.ts:405-440), for every interleaving of       *)
(* workers that lose leases, answers and transactions.                     *)
(***************************************************************************)
THEOREM CursorBackedSafe == BackfillSpec => []CursorBacked
<1>1. BackfillInv => CursorBacked
    BY DEF BackfillInv
<1> QED
    BY <1>1, BackfillInvariance, PTL

(***************************************************************************)
(* No watermark goes back, and a final one is never touched again          *)
(* (backfill-worker.ts:281-313).                                           *)
(***************************************************************************)
THEOREM WatermarkMonotone == BackfillSpec => WatermarkForward
<1>1. BackfillInv /\ [BackfillNext]_bfVars => [\A e \in Entity : Forward(e)]_bfVars
    BY BackfillStep DEF Safe
<1> QED
    BY <1>1, BackfillInvariance, PTL DEF BackfillSpec, WatermarkForward

-----------------------------------------------------------------------------
(* What a reader may count on while workers fill the cache. *)

\* An entity with stored rows is complete, or has a cursor to go on from.
Progress(e) ==
    /\ wm[e].rows > 0 => wm[e].cursor # 0 \/ wm[e].status = "complete"
    /\ wm[e].status = "partial" => wm[e].cursor # 0
Progresses == \A e \in Entity : Progress(e)

\* A row that leaves "running" becomes partial only if it has rows.
LEMMA LeaveProgresses ==
    ASSUME BackfillInv, Progresses, NEW w \in Worker, at[w] # "idle",
           NEW status \in Status \ {"none", "running", "complete"}, NEW attempts \in Nat,
           status = "partial" => job[w].rows > 0,
           Leave(w, status, attempts)
    PROVE  Progresses'
<1>0. WmOK /\ JobsOK /\ WmOK' /\ \A e \in Entity : RowKept(e)
    BY TypeParts, LeaveMoves DEF BackfillInv
<1>1. CASE ~Holds(w)
    BY <1>1 DEF Leave, Progresses, Progress
<1>2. CASE Holds(w)
    <2>0. PICK e0 \in Entity : e0 = job[w].e
        BY <1>0 DEF JobsOK, Job
    <2>1. e0 \in Entity /\ job[w].rows = wm[e0].rows /\ wm[e0].status = "running"
        BY <1>2, <2>0 DEF BackfillInv, HoldersKnow, JobKnows, Holds
    <2>2. wm'[e0].status = status /\ \A e \in Entity \ {e0} : wm'[e] = wm[e]
        BY <1>0, <1>2, <2>0 DEF Leave, WmOK, Watermark
    <2>3. Progress(e0)'
        BY <1>0, <2>1, <2>2 DEF Progresses, Progress, RowKept
    <2> QED
        BY <2>2, <2>3 DEF Progresses, Progress
<1> QED
    BY <1>1, <1>2

\* A stored page leaves a cursor, or completes the entity.
LEMMA StoreProgresses ==
    ASSUME BackfillInv, Progresses, NEW w \in Worker, at[w] # "idle", Store(w)
    PROVE  Progresses'
<1>0. PICK e0 \in Entity : e0 = job[w].e
    BY TypeParts DEF BackfillInv, JobsOK, Job
<1> DEFINE next == CursorAfter(job[w].first)
           total == job[w].rows + (job[w].last - job[w].first + 1)
<1>1. /\ wm'[e0].cursor = next
      /\ wm'[e0].status = IF next = 0 THEN "complete"
                          ELSE IF total >= RowCap THEN "capped" ELSE "partial"
      /\ \A e \in Entity \ {e0} : wm'[e] = wm[e]
    BY <1>0, TypeParts DEF BackfillInv, Store, WmOK
<1> HIDE DEF next, total
<1>2. Progress(e0)'
    BY <1>1 DEF Progress
<1> QED
    BY <1>1, <1>2 DEF Progresses, Progress

\* Every step of the backfill.
LEMMA ProgressesStep ==
    ASSUME BackfillInv, Progresses, [BackfillNext]_bfVars
    PROVE  Progresses'
<1>0. WmOK /\ JobsOK
    BY TypeParts DEF BackfillInv
<1>k. UNCHANGED wm => Progresses'
    BY DEF Progresses, Progress
<1>1. ASSUME NEW w \in Worker, Leave(w, IdleStatus(w), wm[job[w].e].attempts), at[w] # "idle"
      PROVE  Progresses'
    <2>1. /\ job[w].e \in Entity /\ wm[job[w].e].attempts \in Nat
          /\ IdleStatus(w) \in Status \ {"none", "running", "complete"}
          /\ IdleStatus(w) = "partial" => job[w].rows > 0
        BY <1>0, <1>1 DEF JobsOK, Job, WmOK, Watermark, IdleStatus, Status
    <2> QED
        BY <1>1, <2>1, LeaveProgresses
<1>2. ASSUME NEW w \in Worker, NEW status \in {"capped", "error"}, NEW attempts \in Nat,
             Leave(w, status, attempts), at[w] # "idle"
      PROVE  Progresses'
    BY <1>2, LeaveProgresses DEF Status
<1>3. ASSUME NEW w \in Worker, Settle(w)
      PROVE  Progresses'
    <2>1. at[w] # "idle" /\ job[w].e \in Entity /\ wm[job[w].e].attempts \in Nat
        BY <1>0, <1>3 DEF Settle, JobsOK, Job, WmOK, Watermark
    <2> QED
        BY <1>1, <1>2, <1>3, <2>1 DEF Settle
<1>4. ASSUME NEW w \in Worker, Write(w) \/ WriteThrows(w)
      PROVE  Progresses'
    BY <1>4, <1>k, StoreProgresses DEF Write, WriteThrows, Commit
<1>5. ASSUME NEW w \in Worker, Claim(w)
      PROVE  Progresses'
    <2>1. PICK e0 \in Entity :
              wm' = [wm EXCEPT ![e0].status = "running", ![e0].stamp = w, ![e0].lapsed = FALSE]
              /\ Claimable(e0)
        <3>1. \A hot : Eligible(hot) \subseteq {e \in Entity : Claimable(e)}
            BY DEF Eligible
        <3> QED
            BY <1>5, <3>1 DEF Claim
    <2>2. /\ wm'[e0].status = "running" /\ wm'[e0].cursor = wm[e0].cursor
          /\ wm'[e0].rows = wm[e0].rows /\ wm[e0].status # "complete"
          /\ \A e \in Entity \ {e0} : wm'[e] = wm[e]
        BY <1>0, <2>1 DEF WmOK, Watermark, Claimable
    <2> QED
        BY <2>2 DEF Progresses, Progress
<1>6. ASSUME NEW e0 \in Entity, Enqueue(e0) \/ Lapse(e0)
      PROVE  Progresses'
    <2>1. /\ wm'[e0].cursor = wm[e0].cursor /\ wm'[e0].rows = wm[e0].rows
          /\ wm'[e0].status = wm[e0].status
             \/ (wm[e0].status = "none" /\ wm'[e0].status = "pending")
          /\ \A e \in Entity \ {e0} : wm'[e] = wm[e]
        BY <1>0, <1>6 DEF Enqueue, Lapse, WmOK, Watermark
    <2> QED
        BY <2>1 DEF Progresses, Progress
<1>7. ASSUME NEW w \in Worker, Reserve(w) \/ Verify(w) \/ Fetch(w) \/ FetchFails(w) \/ Abandon(w)
      PROVE  Progresses'
    BY <1>7, <1>k DEF Reserve, Verify, Fetch, FetchFails, Abandon
<1>8. ASSUME NEW w \in Worker, Release(w)
      PROVE  Progresses'
    BY <1>1, <1>8 DEF Release
<1>9. ASSUME (\E e \in Entity : Arrive(e)) \/ HourTurns \/ UNCHANGED bfVars
      PROVE  Progresses'
    BY <1>9, <1>k DEF Arrive, HourTurns, bfVars
<1> QED
    BY <1>3, <1>4, <1>5, <1>6, <1>7, <1>8, <1>9
       DEF BackfillNext, WorkerStep, Working, EntityStep

(***************************************************************************)
(* The provider's histories and the cache only grow.                       *)
(***************************************************************************)
Grows == \A e \in Entity : cached[e] \subseteq cached'[e] /\ top[e] <= top'[e]

\* Every step of the backfill.
LEMMA GrowsStep ==
    ASSUME BackfillInv, [BackfillNext]_bfVars
    PROVE  Grows
<1>0. RestOK /\ JobsOK /\ MaxRow \in Nat
    BY TypeParts, BackfillAssumption DEF BackfillInv
<1>1. ASSUME UNCHANGED <<cached, top>>
      PROVE  Grows
    BY <1>0, <1>1 DEF Grows, RestOK
<1>2. ASSUME NEW w \in Worker, Store(w), UNCHANGED top
      PROVE  Grows
    BY <1>0, <1>2 DEF Store, Grows, RestOK
<1>3. ASSUME NEW e \in Entity, Arrive(e)
      PROVE  Grows
    <2>1. PICK r \in BlockEnds : r > top[e] /\ top' = [top EXCEPT ![e] = r]
        BY <1>3 DEF Arrive
    <2>2. r \in Nat
        BY BackfillAssumption DEF Rows
    <2> QED
        BY <1>0, <1>3, <2>1, <2>2 DEF Arrive, Grows, RestOK
<1>4. ASSUME NEW w \in Worker, Write(w) \/ WriteThrows(w)
      PROVE  Grows
    BY <1>1, <1>2, <1>4 DEF Write, WriteThrows, Commit
<1>5. ASSUME NEW w \in Worker, WorkerStep(w), ~Write(w), ~WriteThrows(w)
      PROVE  UNCHANGED <<cached, top>>
    BY <1>5 DEF WorkerStep, Working, Claim, Reserve, Release, Verify, Fetch, Settle,
                FetchFails, Abandon
<1>6. ASSUME (\E e \in Entity : Enqueue(e) \/ Lapse(e)) \/ HourTurns \/ UNCHANGED bfVars
      PROVE  UNCHANGED <<cached, top>>
    BY <1>6 DEF Enqueue, Lapse, HourTurns, bfVars
<1> QED
    BY <1>1, <1>3, <1>4, <1>5, <1>6 DEF BackfillNext, EntityStep

-----------------------------------------------------------------------------
(* The reader: the inductive invariant. *)

ViewCursors == [source : {"head", "local", "provider", "none"}, block : Nat, key : Nat,
                seen : SUBSET Rows, pos : 0..MaxRow]
Views == [pc : {"ask", "serve", "cover", "done", "limited"}, cur : ViewCursors,
          snap : [status : Status, cursor : 0..MaxRow],
          page : SUBSET Rows, shown : SUBSET Rows, due : SUBSET Rows]

BlockShown(r, shown) == \E s \in shown : BlockOf(s) = BlockOf(r)

\* A local cursor: every due row is of a block that is shown, or below the
\* newest cached row; what is shown is not under the cursor.
LocalOK(cur, shown, due, rows) ==
    /\ rows # {} /\ due # {}
    /\ \A r \in due : BlockOf(r) >= cur.block => BlockShown(r, shown)
    /\ \A r \in due : BlockOf(r) < cur.block => \E m \in rows : r <= m
    /\ \A s \in shown :
          \/ BlockOf(s) > cur.block
          \/ BlockOf(s) = cur.block /\ (KeyOf[s] >= cur.key \/ s \in cur.seen)
    /\ \A s \in cur.seen : BlockOf(s) = cur.block
    /\ Cardinality(cur.seen) <= SeenCap

ProviderOK(cur, shown, due) ==
    due # {} /\ \A r \in due : r >= cur.pos => BlockShown(r, shown)

\* A cursor the client may send back.
NextOK(cur, shown, due, rows) ==
    /\ cur.source # "none"
    /\ cur.source = "head" => shown = {} /\ due = {}
    /\ cur.source = "local" => LocalOK(cur, shown, due, rows)
    /\ cur.source = "provider" => ProviderOK(cur, shown, due)
    /\ IF cur.source = "provider" THEN cur.pos > 1 ELSE cur.pos = 0

\* The live page, before it is known whether the cache joins it.
CoverOK(v) ==
    \E p, q \in Rows : /\ p <= q /\ q - p < ProviderPage
                       /\ v.page = p..q /\ v.shown = p..q /\ v.due = 1..q

\* What a watermark that was read earlier says of the one there is now.
SnapOK(snap, rows, row) ==
    /\ snap.cursor # 1
    /\ snap.status = "complete" => row.status = "complete"
    /\ snap.status = "capped" => row.status = "capped" /\ row.cursor = snap.cursor
    /\ snap.status = "partial" => snap.cursor # 0
    /\ snap.cursor # 0 =>
          rows # {} /\ (IF row.status = "complete" THEN 1 ELSE row.cursor) <= snap.cursor

ViewOK(v, rows, row, newest) ==
    /\ v \in Views /\ SnapOK(v.snap, rows, row) /\ v.due \subseteq 1..newest
    /\ v.pc \in {"ask", "serve"} => NextOK(v.cur, v.shown, v.due, rows)
    /\ v.pc = "cover" => CoverOK(v)
    /\ v.pc = "done" => \A r \in v.due : BlockShown(r, v.shown)

ViewInv == ViewOK(view, cached[Seen], wm[Seen], top[Seen])

-----------------------------------------------------------------------------
(* Blocks, the keyset order and its pages. *)

\* Blocks are numbered along the rows.
LEMMA BlockNumbers ==
    /\ \A r \in Rows : BlockOf(r) \in 1..(MaxRow + 1)
    /\ \A r, s \in Rows : r <= s => BlockOf(r) <= BlockOf(s)
<1>1. MaxRow \in Nat /\ BlockEnds \subseteq Rows
    BY BackfillAssumption
<1>2. IsFiniteSet(Rows) /\ Cardinality(Rows) = MaxRow
    BY <1>1, FS_Interval DEF Rows
<1> DEFINE Before(r) == {b \in BlockEnds : b < r}
<1>3. \A r \in Rows : IsFiniteSet(Before(r)) /\ Cardinality(Before(r)) \in 0..MaxRow
    <2> SUFFICES ASSUME NEW r \in Rows
                 PROVE  IsFiniteSet(Before(r)) /\ Cardinality(Before(r)) \in 0..MaxRow
        OBVIOUS
    <2>1. Before(r) \in SUBSET Rows
        BY <1>1
    <2> HIDE DEF Before
    <2>2. IsFiniteSet(Before(r)) /\ Cardinality(Before(r)) <= Cardinality(Rows)
        BY <1>2, <2>1, FS_Subset
    <2>3. Cardinality(Before(r)) \in Nat
        BY <2>2, FS_CardinalityType
    <2> QED
        BY <1>1, <1>2, <2>2, <2>3
<1>4. \A r \in Rows : BlockOf(r) = 1 + Cardinality(Before(r))
    BY DEF BlockOf
<1>5. ASSUME NEW r \in Rows, NEW s \in Rows, r <= s
      PROVE  Cardinality(Before(r)) <= Cardinality(Before(s))
    <2>0. /\ r \in Nat /\ s \in Nat
          /\ \A b \in BlockEnds : b \in Nat
        BY <1>1 DEF Rows
    <2>1. Before(r) \in SUBSET Before(s)
        BY <1>5, <2>0
    <2> HIDE DEF Before
    <2> QED
        BY <1>3, <2>1, FS_Subset
<1> HIDE DEF Before
<1>6. ASSUME NEW r \in Rows
      PROVE  BlockOf(r) \in 1..(MaxRow + 1)
    <2>1. PICK n \in 0..MaxRow : n = Cardinality(Before(r))
        BY <1>3
    <2>2. BlockOf(r) = 1 + n
        BY <1>4, <2>1
    <2> QED
        BY <1>1, <2>1, <2>2
<1>7. ASSUME NEW r \in Rows, NEW s \in Rows, r <= s
      PROVE  BlockOf(r) <= BlockOf(s)
    <2>1. PICK m \in 0..MaxRow : m = Cardinality(Before(r))
        BY <1>3
    <2>2. PICK n \in 0..MaxRow : n = Cardinality(Before(s))
        BY <1>3
    <2>3. m <= n /\ BlockOf(r) = 1 + m /\ BlockOf(s) = 1 + n
        BY <1>4, <1>5, <1>7, <2>1, <2>2
    <2> QED
        BY <1>1, <2>3
<1> QED
    BY <1>6, <1>7

\* Keys.
LEMMA KeyNumbers == \A r \in Rows : KeyOf[r] \in 1..MaxRow
    BY ServeAssumption

\* A set of naturals has a least element.
LEMMA LeastIn ==
    ASSUME NEW S \in SUBSET Nat, S # {}
    PROVE  \E n \in S : \A m \in S : n <= m
<1> DEFINE Less == {pair \in Nat \X Nat : pair[1] < pair[2]}
<1>1. IsWellFoundedOn(Less, Nat)
    BY NatLessThanWellFounded DEF OpToRel
<1>2. \A x, y \in Nat : x < y => <<x, y>> \in Less
    OBVIOUS
<1> HIDE DEF Less
<1>3. PICK n \in S : \A m \in S : <<m, n>> \notin Less
    BY <1>1, WFMin
<1>4. \A m \in S : m \in Nat /\ n \in Nat /\ ~(m < n)
    BY <1>2, <1>3
<1>5. \A m \in S : n <= m
    BY <1>4
<1> QED
    BY <1>5

\* A bounded set of naturals has a greatest element.
LEMMA GreatestIn ==
    ASSUME NEW top0 \in Nat, NEW S \in SUBSET (0..top0), S # {}
    PROVE  \E n \in S : \A m \in S : m <= n
<1> DEFINE Below == {top0 - m : m \in S}
<1>1. \A m \in S : m \in Nat /\ top0 - m \in Nat
    OBVIOUS
<1>2. Below \in SUBSET Nat /\ Below # {}
    BY <1>1
<1> HIDE DEF Below
<1>3. PICK b \in Below : \A c \in Below : b <= c
    BY <1>2, LeastIn
<1> USE DEF Below
<1>4. PICK n \in S : b = top0 - n
    BY <1>3
<1>5. ASSUME NEW m \in S PROVE m <= n
    <2>1. top0 - m \in Below
        OBVIOUS
    <2>2. top0 - n <= top0 - m
        BY <1>3, <1>4, <2>1
    <2> QED
        BY <1>1, <2>2
<1> QED
    BY <1>5

(***************************************************************************)
(* Some row of a listing has none above it in the keyset order, and some   *)
(* row has none below it.                                                  *)
(***************************************************************************)
LEMMA Ends ==
    ASSUME NEW P \in SUBSET Rows, P # {}
    PROVE  /\ \E m \in P : \A s \in P : ~Order(m, s)
           /\ \E l \in P : \A s \in P : ~Order(s, l)
<1>1. MaxRow \in Nat
    BY BackfillAssumption
<1>2. \A r \in P : BlockOf(r) \in 1..(MaxRow + 1) /\ KeyOf[r] \in 1..MaxRow
    BY BlockNumbers, KeyNumbers
<1> DEFINE Blocks == {BlockOf(r) : r \in P}
           Keys(b) == {KeyOf[r] : r \in {q \in P : BlockOf(q) = b}}
<1>3. /\ Blocks \in SUBSET (0..(MaxRow + 1)) /\ Blocks # {} /\ Blocks \in SUBSET Nat
      /\ MaxRow + 1 \in Nat
    BY <1>1, <1>2
<1>4. \A b \in Blocks : Keys(b) \in SUBSET (0..MaxRow) /\ Keys(b) # {} /\ Keys(b) \in SUBSET Nat
    BY <1>1, <1>2
<1> HIDE DEF Blocks, Keys
<1>5. \E m \in P : \A s \in P : ~Order(m, s)
    <2>1. PICK b \in Blocks : \A c \in Blocks : c <= b
        BY <1>3, GreatestIn
    <2>2. PICK k \in Keys(b) : \A j \in Keys(b) : j <= k
        BY <1>1, <1>4, GreatestIn
    <2>3. PICK m \in P : BlockOf(m) = b /\ KeyOf[m] = k
        BY <2>2 DEF Keys
    <2>4. ASSUME NEW s \in P
          PROVE  BlockOf(s) <= BlockOf(m) /\ (BlockOf(s) = BlockOf(m) => KeyOf[s] <= KeyOf[m])
        BY <2>1, <2>2, <2>3 DEF Blocks, Keys
    <2> QED
        BY <1>2, <2>4 DEF Order
<1>6. \E l \in P : \A s \in P : ~Order(s, l)
    <2>1. PICK b \in Blocks : \A c \in Blocks : b <= c
        BY <1>3, LeastIn
    <2>2. PICK k \in Keys(b) : \A j \in Keys(b) : k <= j
        BY <1>4, LeastIn
    <2>3. PICK l \in P : BlockOf(l) = b /\ KeyOf[l] = k
        BY <2>2 DEF Keys
    <2>4. ASSUME NEW s \in P
          PROVE  BlockOf(l) <= BlockOf(s) /\ (BlockOf(s) = BlockOf(l) => KeyOf[l] <= KeyOf[s])
        BY <2>1, <2>2, <2>3 DEF Blocks, Keys
    <2> QED
        BY <1>2, <2>4 DEF Order
<1> QED
    BY <1>5, <1>6

(***************************************************************************)
(* A keyset page of a listing that is not empty has a row, ends where      *)
(* nothing of it is below, and leaves no row out that is of a later block  *)
(* than one it shows.                                                      *)
(***************************************************************************)
LEMMA KeysetPage ==
    ASSUME NEW rows \in SUBSET Rows, rows # {}
    PROVE  /\ Newest(rows) \subseteq rows
           /\ LastOf(Newest(rows)) \in Newest(rows)
           /\ \A s \in Newest(rows) : ~Order(s, LastOf(Newest(rows)))
           /\ \A l \in Newest(rows), r \in rows : BlockOf(l) < BlockOf(r) => r \in Newest(rows)
<1> DEFINE Above(r) == {s \in rows : Order(r, s)}
<1>0. MaxRow \in Nat /\ LocalPage \in Nat /\ LocalPage > 0
    BY BackfillAssumption, ServeAssumption
<1>1. IsFiniteSet(rows)
    <2>1. IsFiniteSet(Rows)
        BY <1>0, FS_Interval DEF Rows
    <2> QED
        BY <2>1, FS_Subset
<1>2. \A r \in rows : Above(r) \in SUBSET rows
    OBVIOUS
<1>3. Newest(rows) = {r \in rows : Cardinality(Above(r)) < LocalPage}
    BY DEF Newest
<1>4. Newest(rows) # {}
    <2>1. PICK m \in rows : \A s \in rows : ~Order(m, s)
        BY Ends
    <2>2. Above(m) = {}
        BY <2>1
    <2>3. Cardinality({}) = 0
        BY FS_EmptySet
    <2> QED
        BY <1>0, <1>3, <2>2, <2>3
<1>5. ASSUME NEW l \in Newest(rows), NEW r \in rows, BlockOf(l) < BlockOf(r)
      PROVE  r \in Newest(rows)
    <2>1. l \in rows /\ Cardinality(Above(l)) < LocalPage
        BY <1>3
    <2>2. Above(r) \in SUBSET Above(l)
        <3> SUFFICES ASSUME NEW s \in rows, Order(r, s) PROVE Order(l, s)
            BY <2>1
        <3>1. BlockOf(l) \in Int /\ BlockOf(r) \in Int /\ BlockOf(s) \in Int
            BY <2>1, BlockNumbers
        <3> QED
            BY <1>5, <3>1 DEF Order
    <2> HIDE DEF Above
    <2>3. IsFiniteSet(Above(l)) /\ IsFiniteSet(Above(r))
        BY <1>1, <1>2, <2>1, FS_Subset
    <2>4. Cardinality(Above(r)) <= Cardinality(Above(l))
        BY <2>2, <2>3, FS_Subset
    <2>5. Cardinality(Above(r)) \in Nat /\ Cardinality(Above(l)) \in Nat
        BY <2>3, FS_CardinalityType
    <2>6. Cardinality(Above(r)) < LocalPage
        BY <1>0, <2>1, <2>4, <2>5
    <2> QED
        BY <1>3, <2>6
<1>6. Newest(rows) \in SUBSET Rows
    BY <1>3
<1>7. \E l \in Newest(rows) : \A s \in Newest(rows) : ~Order(s, l)
    BY <1>4, <1>6, Ends
<1>8. /\ LastOf(Newest(rows)) \in Newest(rows)
      /\ \A s \in Newest(rows) : ~Order(s, LastOf(Newest(rows)))
    BY <1>7 DEF LastOf
<1> HIDE DEF Above
<1> QED
    BY <1>3, <1>5, <1>8

-----------------------------------------------------------------------------
(* The steps of a reader. *)

\* The cursors the routes mint.
LEMMA CursorParts ==
    /\ NoCursor.source = "none"
    /\ HeadCursor \in ViewCursors /\ NoCursor \in ViewCursors
    /\ HeadCursor.source = "head" /\ HeadCursor.pos = 0
    /\ \A b \in Nat, k \in Nat, S \in SUBSET Rows :
          LET c == LocalAt(b, k, S)
          IN  /\ c \in ViewCursors /\ c.source = "local" /\ c.block = b /\ c.key = k
              /\ c.seen = S /\ c.pos = 0
    /\ \A p \in 0..MaxRow :
          LET c == ProviderAt(p)
          IN  c \in ViewCursors /\ c.source = "provider" /\ c.pos = p
    BY BackfillAssumption DEF NoCursor, HeadCursor, LocalAt, ProviderAt, Cursor, ViewCursors

\* A page that is shown, and the cursor that comes with it.
LEMMA ShowMoves ==
    ASSUME view \in Views, NEW rows, NEW row, NEW newest, SnapOK(view.snap, rows, row),
           NEW page \in SUBSET Rows, NEW next \in ViewCursors, NEW due \in SUBSET Rows,
           due \subseteq 1..newest, Show(page, next, due),
           \/ next = NoCursor /\ \A r \in due : BlockShown(r, view.shown \cup page)
           \/ NextOK(next, view.shown \cup page, due, rows)
    PROVE  ViewOK(view', rows, row, newest) /\ view'.page = page /\ view'.pc # "serve"
<1> DEFINE shown == view.shown \cup page
<1>1. /\ view' \in Views /\ view'.snap = view.snap /\ view'.page = page
      /\ view'.cur = next /\ view'.shown = shown /\ view'.due = due
      /\ view'.pc = IF next = NoCursor THEN "done" ELSE "ask"
    BY DEF Show, Views
<1>2. CASE next = NoCursor /\ \A r \in due : BlockShown(r, shown)
    <2> HIDE DEF shown
    <2> QED
        BY <1>1, <1>2 DEF ViewOK
<1>3. CASE NextOK(next, shown, due, rows)
    <2>1. next # NoCursor
        BY <1>3, CursorParts DEF NextOK
    <2> HIDE DEF shown
    <2> QED
        BY <1>1, <1>3, <2>1 DEF ViewOK
<1> QED
    BY <1>2, <1>3

\* The base of a reader's step: what holds of the cache it reads.
Base ==
    /\ BackfillInv /\ view \in Views
    /\ SnapOK(view.snap, cached[Seen], wm[Seen])

\* What a step of the reader finds in the cache.
LEMMA BaseParts ==
    ASSUME Base
    PROVE  /\ MaxRow \in Nat /\ cached[Seen] \in SUBSET Rows /\ top[Seen] \in 0..MaxRow
           /\ wm[Seen] \in Watermark /\ 1..top[Seen] \subseteq Rows
           /\ \A r \in Rows : r \in Nat /\ r >= 1 /\ r <= MaxRow
           /\ \/ cached[Seen] = {} /\ wm[Seen].cursor = 0
              \/ /\ CachedFrom(Seen) \in Nat /\ CachedFrom(Seen) >= 1
                 /\ \E r \in CachedFrom(Seen)..top[Seen] : cached[Seen] = CachedFrom(Seen)..r
<1>1. Seen \in Entity /\ MaxRow \in Nat
    BY ServeAssumption, BackfillAssumption
<1>2. cached[Seen] \in SUBSET Rows /\ top[Seen] \in 0..MaxRow /\ wm[Seen] \in Watermark
    BY <1>1, TypeParts DEF Base, BackfillInv, WmOK, RestOK
<1>3. CachedFrom(Seen) \in Nat
    BY <1>1, <1>2 DEF CachedFrom, Watermark
<1>4. 1..top[Seen] \subseteq Rows /\ \A r \in Rows : r \in Nat /\ r >= 1 /\ r <= MaxRow
    BY <1>1, <1>2 DEF Rows
<1> QED
    BY <1>1, <1>2, <1>3, <1>4 DEF Base, BackfillInv, CursorBacked

(***************************************************************************)
(* A page from the cache: it repeats nothing, and it leaves out only rows  *)
(* of blocks that are shown.                                               *)
(***************************************************************************)
LEMMA LocalAnswerMoves ==
    ASSUME Base, cacheUsable, NEW cur \in ViewCursors, cur.source = "local",
           NEW due \in SUBSET (1..top[Seen]), LocalOK(cur, view.shown, due, cached[Seen]),
           LocalAnswer(cur, due)
    PROVE  /\ ViewOK(view', cached[Seen], wm[Seen], top[Seen])
           /\ view'.page \cap view.shown = {}
<1> DEFINE C == cached[Seen]
           F == CachedFrom(Seen)
           rows == RowsUnder(cur)
           page == Newest(rows)
           last == LastOf(page)
           shown == view.shown \cup page
           below == LocalAt(BlockOf(last), KeyOf[last], carrySeamExclusions(cur, BlockOf(last)))
           next == IF rows = page THEN UnderCache ELSE below
<1>1. /\ MaxRow \in Nat /\ C \in SUBSET Rows /\ top[Seen] \in 0..MaxRow
      /\ 1..top[Seen] \subseteq Rows /\ \A r \in Rows : r \in Nat /\ r >= 1 /\ r <= MaxRow
      /\ C # {}
    BY BaseParts DEF LocalOK
<1>2. PICK R \in F..top[Seen] : F \in Nat /\ F >= 1 /\ C = F..R
    BY <1>1, BaseParts
<1>3. /\ cur.block \in Nat /\ cur.key \in Nat /\ cur.seen \in SUBSET Rows
      /\ view.shown \in SUBSET Rows /\ due \in SUBSET Rows
    BY <1>1 DEF ViewCursors, Base, Views
<1>4. /\ rows \in SUBSET C /\ rows \in SUBSET Rows
      /\ \A r \in C : r \in rows <=> /\ \/ BlockOf(r) < cur.block
                                        \/ (BlockOf(r) = cur.block /\ KeyOf[r] < cur.key)
                                     /\ r \notin cur.seen
    BY <1>1 DEF RowsUnder
<1> HIDE DEF rows
<1>5. page \subseteq rows /\ page \in SUBSET Rows
    BY <1>4 DEF Newest
<1>6. rows # {} => /\ last \in page /\ \A s \in page : ~Order(s, last)
                   /\ \A r \in rows : BlockOf(last) < BlockOf(r) => r \in page
    BY <1>4, KeysetPage
<1> HIDE DEF page
<1>n. \A r \in Rows : BlockOf(r) \in Nat /\ KeyOf[r] \in Nat
    BY <1>1, BlockNumbers, KeyNumbers
<1>7. page \cap view.shown = {}
    <2> SUFFICES ASSUME NEW s \in page, s \in view.shown PROVE FALSE
        OBVIOUS
    <2>1. /\ BlockOf(s) < cur.block \/ (BlockOf(s) = cur.block /\ KeyOf[s] < cur.key)
          /\ s \notin cur.seen
        BY <1>4, <1>5
    <2>2. \/ BlockOf(s) > cur.block
          \/ BlockOf(s) = cur.block /\ (KeyOf[s] >= cur.key \/ s \in cur.seen)
        BY DEF LocalOK
    <2>3. BlockOf(s) \in Nat /\ KeyOf[s] \in Nat
        BY <1>5, <1>n
    <2> QED
        BY <1>3, <2>1, <2>2, <2>3
\* A due row that is cached is of a shown block or under the cursor.
<1>8. ASSUME NEW r \in due, r \in C, r \notin rows
      PROVE  BlockShown(r, shown)
    <2>1. BlockOf(r) \in Nat
        BY <1>3, <1>n
    <2>2. CASE BlockOf(r) >= cur.block
        BY <2>2 DEF LocalOK, BlockShown
    <2>3. CASE BlockOf(r) < cur.block
        <3>1. r \in cur.seen
            BY <1>4, <1>8, <2>3
        <3>2. BlockOf(r) = cur.block
            BY <3>1 DEF LocalOK
        <3> QED
            BY <1>3, <2>1, <2>3, <3>2
    <2> QED
        BY <1>3, <2>1, <2>2, <2>3
\* A due row is of a shown block, or below the newest cached row.
<1>9. ASSUME NEW r \in due
      PROVE  BlockShown(r, shown) \/ r <= R
    <2>1. BlockOf(r) \in Nat
        BY <1>3, <1>n
    <2>2. CASE BlockOf(r) >= cur.block
        BY <2>2 DEF LocalOK, BlockShown
    <2>3. CASE BlockOf(r) < cur.block
        <3>1. PICK m \in C : r <= m
            BY <2>3 DEF LocalOK
        <3>2. m \in Nat /\ m <= R /\ r \in Nat /\ R \in Nat
            BY <1>1, <1>2, <1>3
        <3> HIDE DEF C
        <3> QED
            BY <3>1, <3>2
    <2> QED
        BY <1>3, <2>1, <2>2, <2>3
<1>10. ASSUME rows # page
       PROVE  below \in ViewCursors /\ NextOK(below, shown, due, C)
    <2>1. last \in page /\ last \in rows /\ last \in C /\ last \in Rows
        BY <1>1, <1>4, <1>5, <1>6, <1>10
    <2>2. PICK b \in Nat : b = BlockOf(last)
        BY <1>n, <2>1
    <2>3. PICK k \in Nat : k = KeyOf[last]
        BY <1>n, <2>1
    <2>4. PICK S \in SUBSET cur.seen : /\ S = carrySeamExclusions(cur, b)
                                       /\ S = IF b = cur.block THEN cur.seen ELSE {}
        BY DEF carrySeamExclusions
    <2>5. /\ below \in ViewCursors /\ below.source = "local" /\ below.block = b
          /\ below.key = k /\ below.seen = S /\ below.pos = 0
        BY <1>3, <2>2, <2>3, <2>4, CursorParts
    <2> HIDE DEF below
    <2>6. b < cur.block \/ (b = cur.block /\ k < cur.key)
        BY <1>4, <2>1, <2>2, <2>3
    <2>7. ASSUME NEW r \in due, BlockOf(r) >= b
          PROVE  BlockShown(r, shown)
        <3>1. r \in Rows /\ BlockOf(r) \in Nat /\ r \in Nat /\ R \in Nat
            BY <1>1, <1>2, <1>3, <1>n
        <3>2. BlockOf(r) = b => BlockShown(r, shown)
            BY <2>1, <2>2 DEF BlockShown
        <3>3. CASE r \in C /\ BlockOf(r) > b
            <4>1. r \in rows => r \in page
                BY <1>6, <2>2, <3>3
            <4> QED
                BY <1>8, <3>3, <4>1 DEF BlockShown
        <3>4. CASE r \notin C /\ r <= R
            <4>1. r < F
                BY <1>2, <3>1, <3>4
            <4>2. F <= last /\ last \in Nat
                BY <1>1, <1>2, <2>1
            <4>3. r <= last
                BY <1>2, <3>1, <4>1, <4>2
            <4>4. BlockOf(r) <= b
                BY <2>1, <2>2, <3>1, <4>3, BlockNumbers
            <4> QED
                BY <2>7, <3>1, <3>2, <4>4
        <3> QED
            BY <1>9, <2>7, <3>1, <3>2, <3>3, <3>4
    <2>8. ASSUME NEW s \in shown
          PROVE  BlockOf(s) > b \/ (BlockOf(s) = b /\ (KeyOf[s] >= k \/ s \in S))
        <3>1. BlockOf(s) \in Nat /\ KeyOf[s] \in Nat
            BY <1>3, <1>5, <1>n
        <3>2. CASE s \in page
            <4>1. ~Order(s, last)
                BY <1>6, <2>1, <3>2
            <4> QED
                BY <2>2, <2>3, <3>1, <4>1 DEF Order
        <3>3. CASE s \in view.shown
            <4>1. \/ BlockOf(s) > cur.block
                  \/ BlockOf(s) = cur.block /\ (KeyOf[s] >= cur.key \/ s \in cur.seen)
                BY <3>3 DEF LocalOK
            <4> QED
                BY <1>3, <2>4, <2>6, <3>1, <4>1
        <3> QED
            BY <3>2, <3>3
    <2>9. ASSUME NEW r \in due, BlockOf(r) < b
          PROVE  \E m \in C : r <= m
        <3>1. BlockOf(r) \in Nat
            BY <1>3, <1>n
        <3>2. BlockOf(r) < cur.block
            BY <1>3, <2>6, <2>9, <3>1
        <3> QED
            BY <3>2 DEF LocalOK
    <2>10. /\ \A s \in S : BlockOf(s) = b
           /\ Cardinality(S) <= SeenCap
        <3>1. Cardinality({}) = 0 /\ SeenCap \in Nat
            BY FS_EmptySet, ServeAssumption
        <3> QED
            BY <2>4, <3>1 DEF LocalOK
    <2>11. LocalOK(below, shown, due, C)
        BY <1>1, <2>5, <2>7, <2>8, <2>9, <2>10 DEF LocalOK
    <2> QED
        BY <2>5, <2>11 DEF NextOK
<1>11. ASSUME rows = page
       PROVE  /\ UnderCache \in ViewCursors
              /\ \/ UnderCache = NoCursor /\ \A r \in due : BlockShown(r, shown)
                 \/ NextOK(UnderCache, shown, due, C)
    <2> DEFINE pos == view.snap.cursor
    <2>0. /\ pos \in 0..MaxRow /\ pos # 1
          /\ view.snap.status \in {"complete", "capped", "partial"}
        BY DEF Base, Views, SnapOK, cacheUsable
    <2>1. ASSUME NEW r \in due, F <= r
          PROVE  BlockShown(r, shown)
        <3>1. r \in Nat /\ R \in Nat
            BY <1>1, <1>2, <1>3
        <3>2. CASE r <= R
            <4>1. r \in C
                BY <1>2, <2>1, <3>1, <3>2
            <4> QED
                BY <1>8, <1>11, <4>1 DEF BlockShown
        <3> QED
            BY <1>9, <3>2
    <2>2. CASE view.snap.status # "complete" /\ pos # 0
        <3>1. UnderCache = ProviderAt(pos)
            BY <2>2 DEF UnderCache
        <3>2. UnderCache \in ViewCursors /\ UnderCache.source = "provider" /\ UnderCache.pos = pos
            BY <2>0, <3>1, CursorParts
        <3>3. F <= pos
            BY <2>2 DEF Base, SnapOK, CachedFrom
        <3>4. \A r \in due : r >= pos => BlockShown(r, shown)
            <4> SUFFICES ASSUME NEW r \in due, r >= pos PROVE BlockShown(r, shown)
                OBVIOUS
            <4>1. r \in Nat
                BY <1>1, <1>3
            <4>2. F <= r
                BY <1>2, <2>0, <3>3, <4>1
            <4> QED
                BY <2>1, <4>2
        <3>5. due # {} /\ pos > 1
            BY <1>1, <2>0, <2>2 DEF LocalOK
        <3> HIDE DEF pos, shown, C
        <3> QED
            BY <3>2, <3>4, <3>5 DEF NextOK, ProviderOK
    <2>3. CASE view.snap.status = "complete"
        <3>1. UnderCache = NoCursor /\ F = 1
            BY <2>3 DEF UnderCache, Base, SnapOK, CachedFrom
        <3>2. \A r \in due : F <= r
            BY <1>1, <1>3, <3>1
        <3> QED
            BY <2>1, <3>1, <3>2, CursorParts
    <2>4. CASE view.snap.status # "complete" /\ pos = 0
        <3>1. wm[Seen].status = "capped" /\ wm[Seen].cursor = 0
            BY <2>0, <2>4 DEF Base, SnapOK
        <3>2. F = 0
            BY <3>1 DEF CachedFrom
        <3> QED
            BY <1>2, <3>2
    <2> QED
        BY <2>2, <2>3, <2>4
<1>12. Show(page, next, due)
    BY DEF LocalAnswer, next, below, page, rows
<1>13. next \in ViewCursors /\ (\/ next = NoCursor /\ \A r \in due : BlockShown(r, shown)
                                \/ NextOK(next, shown, due, C))
    BY <1>10, <1>11
<1> HIDE DEF next
<1>14. view \in Views /\ SnapOK(view.snap, C, wm[Seen])
    BY DEF Base
<1> QED
    BY <1>3, <1>5, <1>7, <1>12, <1>13, <1>14, ShowMoves

(***************************************************************************)
(* readWatermark: what it returns, an error of the database included, and  *)
(* a cursor the routes minted is taken as it is.                           *)
(***************************************************************************)
LEMMA ReadWatermarkMoves ==
    ASSUME BackfillInv, Progresses, ViewInv, ReadWatermark
    PROVE  ViewOK(view', cached[Seen], wm[Seen], top[Seen])
<1>0. Seen \in Entity /\ MaxRow \in Nat
    BY ServeAssumption, BackfillAssumption
<1>1. view \in Views /\ NextOK(view.cur, view.shown, view.due, cached[Seen])
    BY DEF ViewInv, ViewOK, ReadWatermark
<1>2. Decoded(view.cur) = view.cur
    <2>1. CASE view.cur.source # "local"
        BY <2>1 DEF Decoded
    <2>2. CASE view.cur.source = "local"
        <3>1. /\ \A r \in view.cur.seen : BlockOf(r) = view.cur.block
              /\ Cardinality(view.cur.seen) <= SeenCap /\ view.cur.seen \in SUBSET Rows
            BY <1>1, <2>2 DEF NextOK, LocalOK, Views, ViewCursors
        <3>2. Cardinality(view.cur.seen) \in Nat
            <4>1. IsFiniteSet(Rows)
                BY <1>0, FS_Interval DEF Rows
            <4> QED
                BY <3>1, <4>1, FS_Subset, FS_CardinalityType
        <3>3. SeenCap \in Nat
            BY ServeAssumption
        <3>4. ~(Cardinality(view.cur.seen) > SeenCap)
            BY <3>1, <3>2, <3>3
        <3> QED
            BY <3>1, <3>4 DEF Decoded
    <2> QED
        BY <2>1, <2>2
<1>3. PICK snap :
          /\ snap \in {NoWatermark, [status |-> wm[Seen].status, cursor |-> wm[Seen].cursor]}
          /\ view' = [view EXCEPT !.pc = "serve", !.cur = view.cur, !.snap = snap]
    BY <1>2 DEF ReadWatermark
<1>4. wm[Seen] \in Watermark
    BY <1>0, TypeParts DEF BackfillInv, WmOK
<1>5. snap \in [status : Status, cursor : 0..MaxRow]
    BY <1>0, <1>3, <1>4 DEF NoWatermark, Status, Watermark
<1>6. SnapOK(snap, cached[Seen], wm[Seen])
    <2>1. CASE snap = NoWatermark
        BY <2>1 DEF SnapOK, NoWatermark
    <2>2. CASE snap = [status |-> wm[Seen].status, cursor |-> wm[Seen].cursor]
        <3>1. /\ snap.status = wm[Seen].status /\ snap.cursor = wm[Seen].cursor
              /\ wm[Seen].cursor \in Nat
            BY <1>0, <1>4, <2>2 DEF Watermark
        <3>2. /\ wm[Seen].cursor # 1
              /\ wm[Seen].status = "complete" => wm[Seen].cursor = 0
              /\ wm[Seen].status = "partial" => wm[Seen].cursor # 0
            BY <1>0 DEF BackfillInv, Cursors, Progresses, Progress
        <3>3. wm[Seen].cursor # 0 => cached[Seen] # {}
            <4> SUFFICES ASSUME wm[Seen].cursor # 0 PROVE cached[Seen] # {}
                OBVIOUS
            <4>1. PICK r \in CachedFrom(Seen)..top[Seen] : cached[Seen] = CachedFrom(Seen)..r
                BY <1>0 DEF BackfillInv, CursorBacked
            <4>2. CachedFrom(Seen) \in Nat
                BY <3>1 DEF CachedFrom
            <4>3. top[Seen] \in 0..MaxRow
                BY <1>0, TypeParts DEF BackfillInv, RestOK
            <4>4. CachedFrom(Seen) \in cached[Seen]
                BY <1>0, <4>1, <4>2, <4>3
            <4> QED
                BY <4>4
        <3> QED
            BY <3>1, <3>2, <3>3 DEF SnapOK
    <2> QED
        BY <1>3, <2>1, <2>2
<1>7. /\ view'.pc = "serve" /\ view'.cur = view.cur /\ view'.snap = snap
      /\ view'.shown = view.shown /\ view'.due = view.due /\ view' \in Views
    BY <1>1, <1>3, <1>5 DEF Views
<1>8. view.due \subseteq 1..top[Seen]
    BY DEF ViewInv, ViewOK
<1> QED
    BY <1>1, <1>6, <1>7, <1>8 DEF ViewOK

\* What the steps that serve a request start from.
LEMMA ServeBase ==
    ASSUME BackfillInv, ViewInv
    PROVE  /\ Base /\ view.due \in SUBSET (1..top[Seen]) /\ view.due \in SUBSET Rows
           /\ view.cur \in ViewCursors /\ view.shown \in SUBSET Rows
           /\ view.pc = "serve" => NextOK(view.cur, view.shown, view.due, cached[Seen])
<1>1. Base /\ view.due \in SUBSET (1..top[Seen])
    BY DEF ViewInv, ViewOK, Base
<1> QED
    BY <1>1, BaseParts DEF Base, Views, ViewInv, ViewOK

(***************************************************************************)
(* A page of the provider reaches down to its first row.                   *)
(***************************************************************************)
LEMMA AskProviderMoves ==
    ASSUME BackfillInv, ViewInv, AskProvider
    PROVE  ViewOK(view', cached[Seen], wm[Seen], top[Seen])
<1> DEFINE pos == view.cur.pos
           first == First(Seen, pos)
           last == Last(Seen, pos)
           page == first..last
           due == IF view.due = {} THEN 1..top[Seen] ELSE view.due
           next == IF first > 1 THEN ProviderAt(first) ELSE NoCursor
           shown == view.shown \cup page
<1>0. /\ Base /\ view.due \in SUBSET (1..top[Seen]) /\ view.shown \in SUBSET Rows
      /\ view.cur \in ViewCursors /\ view.pc = "serve" /\ view \in Views
      /\ NextOK(view.cur, view.shown, view.due, cached[Seen])
    BY ServeBase DEF AskProvider, Base
<1>1. /\ MaxRow \in Nat /\ top[Seen] \in 0..MaxRow /\ 1..top[Seen] \subseteq Rows
      /\ \A r \in Rows : r \in Nat /\ r >= 1 /\ r <= MaxRow
      /\ Seen \in Entity /\ ProviderPage \in Nat /\ ProviderPage > 0
    BY <1>0, BaseParts, ServeAssumption, BackfillAssumption
<1>2. /\ pos \in 0..MaxRow /\ pos # 1
      /\ view.cur.source = "provider" <=> pos # 0
    BY <1>0, <1>1 DEF NextOK, ViewCursors
<1>3. /\ first \in 1..(MaxRow + 1) /\ last \in 0..MaxRow
      /\ first <= last \/ (first = 1 /\ last = 0)
      /\ pos # 0 => last = pos - 1
      /\ pos = 0 => last = top[Seen]
      /\ last - first < ProviderPage
    <2>1. /\ first \in 1..(MaxRow + 1) /\ last \in 0..MaxRow
          /\ first <= last \/ (first = 1 /\ last = 0)
          /\ pos # 0 => last = pos - 1
        BY <1>1, <1>2, PageBounds
    <2>2. pos = 0 => last = top[Seen]
        BY DEF Last
    <2>3. first = IF last > ProviderPage THEN last - ProviderPage + 1 ELSE 1
        BY DEF First
    <2> HIDE DEF first, last
    <2>4. last - first < ProviderPage
        BY <1>1, <2>1, <2>3
    <2> QED
        BY <2>1, <2>2, <2>4
<1> HIDE DEF first, last, pos
<1>4. page \in SUBSET Rows
    BY <1>1, <1>3 DEF Rows
<1>5. due \in SUBSET (1..top[Seen]) /\ due \in SUBSET Rows
    BY <1>0, <1>1
<1>6. \A r \in due : r >= first => BlockShown(r, shown)
    <2> SUFFICES ASSUME NEW r \in due, r >= first PROVE BlockShown(r, shown)
        OBVIOUS
    <2>1. r \in Nat /\ r <= top[Seen]
        BY <1>1, <1>5
    <2>2. CASE r <= last
        <3>1. r \in page
            BY <1>3, <2>1, <2>2
        <3> HIDE DEF page
        <3> QED
            BY <3>1 DEF BlockShown
    <2>3. CASE ~(r <= last)
        <3>1. pos # 0
            BY <1>1, <1>3, <2>1, <2>3
        <3>2. r >= pos
            BY <1>2, <1>3, <2>1, <2>3, <3>1
        <3>3. BlockShown(r, view.shown)
            BY <1>0, <1>2, <3>1, <3>2 DEF NextOK, ProviderOK, pos
        <3> QED
            BY <3>3 DEF BlockShown
    <2> QED
        BY <2>2, <2>3
<1>7. first > 1 => due # {}
    <2> SUFFICES ASSUME first > 1 PROVE due # {}
        OBVIOUS
    <2>2. pos # 0 => view.due # {}
        BY <1>0, <1>2 DEF NextOK, ProviderOK
    <2>3. pos = 0 => 1 \in 1..top[Seen]
        BY <1>1, <1>3
    <2> QED
        BY <2>2, <2>3
<1>8. CASE /\ view.cur.source = "head" /\ page # {}
           /\ view' = [view EXCEPT !.pc = "cover", !.page = page, !.shown = shown, !.due = due]
    <2>1. view.shown = {} /\ view.due = {} /\ pos = 0
        BY <1>0, <1>2, <1>8 DEF NextOK
    <2>2. last = top[Seen] /\ first <= last
        BY <1>1, <1>3, <1>8, <2>1
    <2>3. first \in Rows /\ last \in Rows
        BY <1>1, <1>3, <2>2 DEF Rows
    <2>4. shown = first..last /\ due = 1..last
        BY <2>1, <2>2
    <2> HIDE DEF page, due, shown
    <2>5. /\ view'.pc = "cover" /\ view'.page = page /\ view'.shown = shown /\ view'.due = due
          /\ view'.snap = view.snap /\ view' \in Views
        <3>1. shown \in SUBSET Rows
            BY <1>0, <1>4 DEF shown
        <3> QED
            BY <1>0, <1>4, <1>5, <1>8, <3>1 DEF Views
    <2>6. CoverOK(view')
        <3>1. page = first..last
            BY DEF page
        <3> QED
            BY <1>3, <2>2, <2>3, <2>4, <2>5, <3>1 DEF CoverOK
    <2> QED
        BY <1>0, <1>5, <2>5, <2>6 DEF ViewOK, Base
<1>9. CASE Show(page, next, due)
    <2>1. CASE first > 1
        <3>1. first \in 0..MaxRow
            BY <1>1, <1>3, <2>1
        <3>2. /\ next \in ViewCursors /\ next.source = "provider" /\ next.pos = first
            BY <2>1, <3>1, CursorParts
        <3> HIDE DEF next, due, shown
        <3>3. NextOK(next, shown, due, cached[Seen])
            BY <1>6, <1>7, <2>1, <3>2 DEF NextOK, ProviderOK
        <3> QED
            BY <1>0, <1>4, <1>5, <1>9, <3>2, <3>3, ShowMoves DEF Base, shown
    <2>2. CASE ~(first > 1)
        <3>1. next = NoCursor /\ next \in ViewCursors
            BY <2>2, CursorParts
        <3>2. \A r \in due : r >= first
            BY <1>1, <1>3, <1>5, <2>2
        <3> HIDE DEF next, due, page
        <3> QED
            BY <1>0, <1>4, <1>5, <1>6, <1>9, <3>1, <3>2, ShowMoves DEF Base
    <2> QED
        BY <2>1, <2>2
<1> QED
    BY <1>8, <1>9 DEF AskProvider, first, last, pos

\* An outage of the provider: the cached head, or a banner.
LEMMA ProviderOutMoves ==
    ASSUME BackfillInv, ViewInv, ProviderOut
    PROVE  ViewOK(view', cached[Seen], wm[Seen], top[Seen])
<1> DEFINE cur == LocalAt(BlockOf(MaxRow) + 1, TopKey, {})
           due == {r \in Rows : \E c \in cached[Seen] : r <= c}
<1>0. Base /\ view.pc = "serve" /\ NextOK(view.cur, view.shown, view.due, cached[Seen])
    BY ServeBase DEF ProviderOut
<1>1. /\ MaxRow \in Nat /\ top[Seen] \in 0..MaxRow /\ cached[Seen] \in SUBSET Rows
      /\ \A r \in Rows : r \in Nat /\ r >= 1 /\ r <= MaxRow
    BY <1>0, BaseParts
<1>2. CASE /\ view.cur.source = "head" /\ cacheUsable /\ cached[Seen] # {}
           /\ LocalAnswer(cur, due)
    <2>1. PICK R \in CachedFrom(Seen)..top[Seen] : cached[Seen] = CachedFrom(Seen)..R
        BY <1>0, <1>2, BaseParts
    <2>2. \A c \in cached[Seen] : c \in Nat /\ c <= top[Seen]
        <3>1. CachedFrom(Seen) \in Nat
            BY <1>0, <1>2, BaseParts
        <3> QED
            BY <1>1, <2>1, <3>1
    <2>3. due \in SUBSET (1..top[Seen]) /\ due # {}
        BY <1>1, <1>2, <2>2
    <2>4. MaxRow \in Rows
        BY <1>1, <1>2 DEF Rows
    <2>5. PICK b \in Nat : b = BlockOf(MaxRow) + 1 /\ \A r \in Rows : BlockOf(r) < b
        <3>1. \A r \in Rows : BlockOf(r) <= BlockOf(MaxRow) /\ BlockOf(r) \in Nat
            BY <1>1, <2>4, BlockNumbers
        <3>2. BlockOf(MaxRow) + 1 \in Nat /\ \A r \in Rows : BlockOf(r) < BlockOf(MaxRow) + 1
            BY <2>4, <3>1
        <3> QED
            BY <3>2
    <2>6. /\ cur \in ViewCursors /\ cur.source = "local" /\ cur.block = b /\ cur.seen = {}
        <3>1. TopKey \in Nat
            BY <1>1 DEF TopKey
        <3> QED
            BY <2>5, <3>1, CursorParts
    <2>7. view.shown = {}
        BY <1>0, <1>2 DEF NextOK
    <2>8. Cardinality({}) = 0 /\ SeenCap \in Nat
        BY FS_EmptySet, ServeAssumption
    <2>9. \A r \in due : BlockOf(r) < b /\ ~(BlockOf(r) >= b) /\ \E m \in cached[Seen] : r <= m
        <3>1. \A r \in due : r \in Rows /\ \E m \in cached[Seen] : r <= m
            OBVIOUS
        <3>2. \A r \in Rows : BlockOf(r) \in Nat
            BY <1>1, BlockNumbers
        <3> HIDE DEF due
        <3> QED
            BY <2>5, <3>1, <3>2
    <2> HIDE DEF cur, due
    <2>10. LocalOK(cur, view.shown, due, cached[Seen])
        BY <1>2, <2>3, <2>6, <2>7, <2>8, <2>9 DEF LocalOK
    <2> QED
        BY <1>0, <1>2, <2>3, <2>6, <2>10, LocalAnswerMoves
<1>3. CASE view' = [view EXCEPT !.pc = "limited"]
    <2>1. /\ view' \in Views /\ view'.pc = "limited" /\ view'.snap = view.snap
          /\ view'.due = view.due
        BY <1>0, <1>3 DEF Base, Views
    <2> QED
        BY <2>1 DEF ViewInv, ViewOK
<1> QED
    BY <1>2, <1>3 DEF ProviderOut

(***************************************************************************)
(* The seam: the cache goes on right under the block the live page ends    *)
(* in, without the rows of it that the page has shown.                     *)
(***************************************************************************)
LEMMA HandOverMoves ==
    ASSUME BackfillInv, ViewInv, HandOver
    PROVE  ViewOK(view', cached[Seen], wm[Seen], top[Seen])
<1>0. /\ Base /\ view.due \in SUBSET (1..top[Seen]) /\ view.due \in SUBSET Rows
      /\ view.shown \in SUBSET Rows /\ view \in Views /\ CoverOK(view)
    BY ServeBase DEF HandOver, ViewInv, ViewOK, Base
<1>1. /\ MaxRow \in Nat /\ cached[Seen] \in SUBSET Rows /\ top[Seen] \in 0..MaxRow
      /\ \A r \in Rows : r \in Nat /\ r >= 1 /\ r <= MaxRow
      /\ ProviderPage \in Nat
    BY <1>0, BaseParts, BackfillAssumption
<1>2. PICK o \in Rows, q \in Rows :
          /\ o <= q /\ q - o < ProviderPage
          /\ view.page = o..q /\ view.shown = o..q /\ view.due = 1..q
    BY <1>0 DEF CoverOK
<1> DEFINE p == CHOOSE r \in view.page : \A s \in view.page : r <= s
           boundary == {r \in view.page : BlockOf(r) = BlockOf(p)}
           handoff == LocalAt(BlockOf(p), TopKey, boundary)
           provider == IF p > 1 THEN ProviderAt(p) ELSE NoCursor
           shown == view.shown \cup view.page
<1>a. PICK next :
          /\ Show(view.page, next, view.due)
          /\ next = provider \/ (next = handoff /\ cacheCoversFrom(BlockOf(p)))
    <2> DEFINE covered == cacheCoversFrom(BlockOf(p))
               sides == IF KindOf[Seen] = "assets" THEN SUBSET boundary ELSE {boundary}
    <2>1. \/ \E keyed \in sides :
                Show(view.page, IF covered /\ keyed = boundary THEN handoff ELSE provider,
                     view.due)
          \/ Show(view.page, provider, view.due)
        BY Zenon DEF HandOver
    <2> HIDE DEF covered, boundary, sides, handoff, provider
    <2>2. ASSUME NEW keyed \in sides,
                 Show(view.page, IF covered /\ keyed = boundary THEN handoff ELSE provider,
                      view.due)
          PROVE  \/ Show(view.page, handoff, view.due) /\ covered
                 \/ Show(view.page, provider, view.due)
        <3>1. CASE covered /\ keyed = boundary
            BY <2>2, <3>1
        <3>2. CASE ~(covered /\ keyed = boundary)
            BY <2>2, <3>2
        <3> QED
            BY <3>1, <3>2
    <2>3. CASE Show(view.page, handoff, view.due) /\ covered
        BY <2>3 DEF covered
    <2>4. CASE Show(view.page, provider, view.due)
        BY <2>4
    <2> QED
        BY <2>1, <2>2, <2>3, <2>4
<1>b. p = o
    <2>1. o \in view.page /\ \A s \in view.page : o <= s
        BY <1>1, <1>2
    <2>2. p \in view.page /\ \A s \in view.page : p <= s
        BY <2>1
    <2> HIDE DEF p
    <2>3. p \in Int /\ o \in Int /\ p <= o /\ o <= p
        BY <1>1, <1>2, <2>1, <2>2
    <2> QED
        BY <2>3
<1> HIDE DEF p
<1>3. /\ p \in Rows /\ p <= q /\ q - p < ProviderPage
      /\ view.page = p..q /\ view.shown = p..q /\ view.due = 1..q
    BY <1>2, <1>b
<1>5. shown = view.shown /\ view.page \in SUBSET Rows
    BY <1>0, <1>3
<1>6. p \in view.shown /\ p \in view.page /\ view.due # {}
    BY <1>1, <1>3
<1>7. \A r \in view.due : r >= p => r \in view.shown
    BY <1>1, <1>3
<1>n. \A r \in Rows : BlockOf(r) \in Nat /\ KeyOf[r] \in Nat
    BY <1>1, BlockNumbers, KeyNumbers
<1>8. CASE next = handoff /\ cacheCoversFrom(BlockOf(p))
    <2>1. PICK b \in Nat : b = BlockOf(p)
        BY <1>3, <1>n
    <2>2. PICK S \in SUBSET Rows : S = boundary
        BY <1>5
    <2>3. /\ next \in ViewCursors /\ next.source = "local" /\ next.block = b
          /\ next.seen = S /\ next.pos = 0
        <3>1. TopKey \in Nat
            BY <1>1 DEF TopKey
        <3> QED
            BY <1>3, <1>8, <2>1, <2>2, <3>1, CursorParts
    <2>4. \A s \in S : BlockOf(s) = b
        BY <2>1, <2>2
    <2>5. Cardinality(S) <= SeenCap
        <3>1. IsFiniteSet(p..q) /\ Cardinality(p..q) = q - p + 1
            BY <1>1, <1>3, FS_Interval
        <3>2. S \in SUBSET (p..q)
            BY <1>3, <2>2
        <3>3. IsFiniteSet(S) /\ Cardinality(S) <= Cardinality(p..q)
            BY <3>1, <3>2, FS_Subset
        <3>4. Cardinality(S) \in Nat
            BY <3>3, FS_CardinalityType
        <3>5. SeenCap \in Nat /\ SeenCap >= ProviderPage
            BY ServeAssumption
        <3>6. PICK n \in Nat : n = Cardinality(S)
            BY <3>4
        <3>7. n <= q - p + 1
            BY <3>1, <3>3, <3>6
        <3>8. n <= SeenCap
            BY <1>1, <1>3, <3>5, <3>7
        <3> QED
            BY <3>6, <3>8
    <2>6. PICK m \in cached[Seen] : BlockOf(m) >= b
        BY <1>8, <2>1 DEF cacheCoversFrom
    <2>7. ASSUME NEW r \in view.due, BlockOf(r) >= b
          PROVE  BlockShown(r, view.shown)
        <3>1. CASE r >= p
            BY <1>7, <3>1 DEF BlockShown
        <3>2. CASE ~(r >= p)
            <4>1. r \in Rows /\ r <= p
                BY <1>0, <1>1, <1>3, <3>2
            <4>2. BlockOf(r) <= b /\ BlockOf(r) \in Nat
                BY <1>3, <1>n, <2>1, <4>1, BlockNumbers
            <4>3. BlockOf(p) = BlockOf(r)
                BY <2>1, <2>7, <4>2
            <4> QED
                BY <1>6, <4>3 DEF BlockShown
        <3> QED
            BY <3>1, <3>2
    <2>8. ASSUME NEW r \in view.due, BlockOf(r) < b
          PROVE  \E c \in cached[Seen] : r <= c
        <3>1. r \in Rows /\ m \in Rows /\ r \in Nat /\ m \in Nat
            BY <1>0, <1>1
        <3>2. BlockOf(r) \in Nat /\ BlockOf(m) \in Nat /\ (m <= r => BlockOf(m) <= BlockOf(r))
            BY <1>n, <3>1, BlockNumbers
        <3>3. ~(m <= r)
            BY <2>6, <2>8, <3>2
        <3>4. r <= m
            BY <3>1, <3>3
        <3> QED
            BY <3>4
    <2>9. ASSUME NEW s \in view.shown
          PROVE  BlockOf(s) > b \/ (BlockOf(s) = b /\ s \in S)
        <3>1. s \in Rows /\ p <= s /\ s \in view.page
            BY <1>0, <1>1, <1>3
        <3>2. b <= BlockOf(s) /\ BlockOf(s) \in Nat
            BY <1>3, <1>n, <2>1, <3>1, BlockNumbers
        <3>3. BlockOf(s) = b => s \in S
            BY <2>1, <2>2, <3>1
        <3> QED
            BY <3>2, <3>3
    <2>10. LocalOK(next, view.shown, view.due, cached[Seen])
        BY <1>6, <2>3, <2>4, <2>5, <2>6, <2>7, <2>8, <2>9 DEF LocalOK
    <2>11. NextOK(next, shown, view.due, cached[Seen])
        BY <1>5, <2>3, <2>10 DEF NextOK
    <2> HIDE DEF shown
    <2> QED
        BY <1>0, <1>a, <1>5, <2>3, <2>11, ShowMoves DEF Base, shown
<1>9. CASE next = provider /\ p > 1
    <2>1. next \in ViewCursors /\ next.source = "provider" /\ next.pos = p
        BY <1>1, <1>3, <1>9, CursorParts
    <2>2. NextOK(next, view.shown, view.due, cached[Seen])
        BY <1>6, <1>7, <1>9, <2>1 DEF NextOK, ProviderOK, BlockShown
    <2> QED
        BY <1>0, <1>a, <1>5, <2>1, <2>2, ShowMoves DEF Base
<1>10. CASE next = provider /\ ~(p > 1)
    <2>1. next = NoCursor /\ next \in ViewCursors
        BY <1>10, CursorParts
    <2>2. \A r \in view.due : r >= p
        BY <1>0, <1>1, <1>3, <1>10
    <2>3. \A r \in view.due : BlockShown(r, view.shown \cup view.page)
        BY <1>7, <2>2 DEF BlockShown
    <2> QED
        BY <1>0, <1>a, <1>5, <2>1, <2>3, ShowMoves DEF Base
<1> QED
    BY <1>a, <1>8, <1>9, <1>10

-----------------------------------------------------------------------------
(* The listing and the workers together. *)

\* What a reader holds stays good while workers fill the cache.
LEMMA CacheGrowsUnder ==
    ASSUME NEW v, NEW c, NEW c2, NEW row, NEW row2, NEW t \in Nat, NEW t2 \in Nat,
           ViewOK(v, c, row, t), c \subseteq c2, t <= t2, SnapOK(v.snap, c2, row2)
    PROVE  ViewOK(v, c2, row2, t2)
<1>1. v.due \subseteq 1..t2
    BY DEF ViewOK
<1>2. NextOK(v.cur, v.shown, v.due, c) => NextOK(v.cur, v.shown, v.due, c2)
    BY DEF NextOK, LocalOK
<1> QED
    BY <1>1, <1>2 DEF ViewOK

\* A watermark that was read stays true of the one there is.
LEMMA SnapStays ==
    ASSUME BackfillInv, ViewInv, BackfillInv', Grows, \A e \in Entity : Forward(e)
    PROVE  SnapOK(view.snap, cached'[Seen], wm'[Seen])
<1> DEFINE snap == view.snap
           F == CachedFrom(Seen)
<1>0. Seen \in Entity /\ MaxRow \in Nat
    BY ServeAssumption, BackfillAssumption
<1>1. SnapOK(snap, cached[Seen], wm[Seen]) /\ snap.cursor \in 0..MaxRow
    BY DEF ViewInv, ViewOK, Views
<1>2. /\ wm[Seen].status \in {"complete", "capped"} => wm'[Seen] = wm[Seen]
      /\ cached[Seen] \subseteq cached'[Seen]
    BY <1>0 DEF Forward, Grows
<1>3. ASSUME snap.cursor # 0
      PROVE  /\ cached'[Seen] # {}
             /\ (IF wm'[Seen].status = "complete" THEN 1 ELSE wm'[Seen].cursor) <= snap.cursor
    <2>1. cached[Seen] # {} /\ F <= snap.cursor
        BY <1>1, <1>3 DEF SnapOK, CachedFrom
    <2>2. F \in Nat /\ top[Seen] \in Nat
        BY <1>0, TypeParts DEF BackfillInv, WmOK, RestOK, Watermark, CachedFrom
    <2>3. PICK r \in F..top[Seen] : cached[Seen] = F..r
        BY <1>0, <2>1 DEF BackfillInv, CursorBacked
    <2>4. F \in cached'[Seen]
        BY <1>2, <2>2, <2>3
    <2>5. PICK f : f = CachedFrom(Seen)'
        OBVIOUS
    <2>6. f = IF wm'[Seen].status = "complete" THEN 1 ELSE wm'[Seen].cursor
        BY <2>5 DEF CachedFrom
    <2>7. f \in Nat /\ top'[Seen] \in Nat
        BY <1>0, <2>6, TypeParts DEF BackfillInv, WmOK, RestOK, Watermark
    <2>8. PICK s \in f..top'[Seen] : cached'[Seen] = f..s
        BY <1>0, <2>4, <2>5 DEF BackfillInv, CursorBacked
    <2>9. f <= F
        BY <2>2, <2>4, <2>7, <2>8
    <2>10. f <= snap.cursor
        BY <1>1, <2>1, <2>2, <2>7, <2>9
    <2> QED
        BY <2>4, <2>6, <2>10
<1> QED
    BY <1>1, <1>2, <1>3 DEF SnapOK

ServeInv == BackfillInv /\ Progresses /\ ViewInv

\* A page of the cache is served from one that follows the live page.
LEMMA ServeLocalMoves ==
    ASSUME BackfillInv, ViewInv, ServeLocal
    PROVE  /\ ViewOK(view', cached[Seen], wm[Seen], top[Seen])
           /\ view'.page \cap view.shown = {}
<1>1. /\ view.pc = "serve" /\ cacheUsable /\ view.cur.source = "local"
      /\ LocalAnswer(view.cur, view.due)
    BY DEF ServeLocal, FromCache
<1>2. LocalOK(view.cur, view.shown, view.due, cached[Seen])
    BY <1>1, ServeBase DEF NextOK
<1> QED
    BY <1>1, <1>2, ServeBase, LocalAnswerMoves

\* One step per action of the reader, and whatever a worker does between them.
LEMMA ServeInvStep == ServeInv /\ [ServeNext]_bsVars => ServeInv'
<1> SUFFICES ASSUME ServeInv, [ServeNext]_bsVars PROVE ServeInv'
    OBVIOUS
<1>0. /\ BackfillInv /\ Progresses /\ ViewInv /\ Seen \in Entity
      /\ top[Seen] \in Nat
    BY TypeParts, ServeAssumption, BackfillAssumption DEF ServeInv, BackfillInv, RestOK
<1>1. CASE [BackfillNext]_bfVars /\ UNCHANGED view
    <2>1. /\ BackfillInv' /\ Progresses' /\ Grows /\ \A e \in Entity : Forward(e)
        BY <1>0, <1>1, BackfillStep, ProgressesStep, GrowsStep DEF Safe
    <2>2. SnapOK(view.snap, cached'[Seen], wm'[Seen])
        BY <1>0, <2>1, SnapStays
    <2>3. top'[Seen] \in Nat /\ top[Seen] <= top'[Seen] /\ cached[Seen] \subseteq cached'[Seen]
        BY <1>0, <2>1, TypeParts, BackfillAssumption DEF Grows, BackfillInv, RestOK
    <2>4. ViewOK(view, cached'[Seen], wm'[Seen], top'[Seen])
        BY <1>0, <2>2, <2>3, CacheGrowsUnder DEF ViewInv
    <2> QED
        BY <1>1, <2>1, <2>4 DEF ServeInv, ViewInv
<1>2. CASE ServeStep
    <2>1. ViewOK(view', cached[Seen], wm[Seen], top[Seen])
        BY <1>0, <1>2, ReadWatermarkMoves, ServeLocalMoves, AskProviderMoves, ProviderOutMoves,
           HandOverMoves DEF ServeStep
    <2>2. UNCHANGED <<top, wm, cached, pagesUsed, at, job>> /\ (UNCHANGED mishaps \/ Mishap)
        BY <1>2 DEF ServeStep, ReadWatermark, ServeLocal, AskProvider, ProviderOut, HandOver,
                    bfVars
    <2>3. mishaps' \in 0..MaxMishaps
        BY <1>0, <2>2, TypeParts, BackfillAssumption DEF Mishap, BackfillInv, RestOK
    <2>4. WmOK' /\ JobsOK' /\ RestOK'
        <3>1. WmOK /\ JobsOK /\ RestOK
            BY <1>0, TypeParts DEF BackfillInv
        <3> QED
            BY <2>2, <2>3, <3>1 DEF WmOK, JobsOK, RestOK
    <2>5. HoldersKnow' /\ PagesFit' /\ Cursors' /\ JobCursors' /\ CursorBacked'
        BY <1>0, <2>2 DEF BackfillInv, HoldersKnow, PagesFit, Cursors, JobCursors, CursorBacked,
                          JobKnows, Holds, PageFits, CachedFrom
    <2>6. Progresses'
        BY <1>0, <2>2 DEF Progresses, Progress
    <2> QED
        BY <2>1, <2>2, <2>4, <2>5, <2>6, TypeParts DEF ServeInv, ViewInv, BackfillInv
<1>3. CASE UNCHANGED bsVars
    <2>1. UNCHANGED bfVars /\ UNCHANGED view
        BY <1>3 DEF bsVars, bfVars
    <2> QED
        BY <1>1, <2>1
<1> QED
    BY <1>1, <1>2, <1>3 DEF ServeNext

\* A reader that has asked for nothing.
LEMMA ServeStart == BackfillInit /\ ServeInit => ServeInv
<1> SUFFICES ASSUME BackfillInit, ServeInit PROVE ServeInv
    OBVIOUS
<1>1. BackfillInv
    BY BackfillStart
<1>2. Progresses
    BY DEF BackfillInit, Progresses, Progress, Unseen
<1>3. /\ view.pc = "ask" /\ view.cur = HeadCursor /\ view.snap = NoWatermark
      /\ view.shown = {} /\ view.due = {} /\ view \in Views
    BY CursorParts, BackfillAssumption DEF ServeInit, Views, NoWatermark, Status
<1>4. SnapOK(view.snap, cached[Seen], wm[Seen])
    BY <1>3 DEF SnapOK, NoWatermark
<1>5. NextOK(view.cur, view.shown, view.due, cached[Seen])
    BY <1>3, CursorParts DEF NextOK
<1> QED
    BY <1>1, <1>2, <1>3, <1>4, <1>5 DEF ServeInv, ViewInv, ViewOK

(***************************************************************************)
(* A reader pages through an entity while workers fill its cache: what it  *)
(* was shown, what its cursor says and what is cached fit together.        *)
(***************************************************************************)
THEOREM ServeInvariance == ServeSpec => []ServeInv
    BY ServeStart, ServeInvStep, PTL DEF ServeSpec

(***************************************************************************)
(* What a listing skips is never a whole block (backfill-serve.ts:         *)
(* 240-266).                                                               *)
(***************************************************************************)
THEOREM NoBlockSkippedSafe == ServeSpec => []NoBlockSkipped
<1>1. ServeInv => NoBlockSkipped
    BY DEF ServeInv, ViewInv, ViewOK, NoBlockSkipped, BlockShown
<1> QED
    BY <1>1, ServeInvariance, PTL

(***************************************************************************)
(* A cached page repeats no row the listing has shown                      *)
(* (backfill-serve.ts:54-74).                                              *)
(***************************************************************************)
THEOREM SeamExactSafe == ServeSpec => SeamExact
<1>1. ServeInv /\ [ServeNext]_bsVars =>
          [view.pc = "serve" /\ FromCache /\ view'.pc # "serve"
              => view'.page \cap view.shown = {}]_bsVars
    <2> SUFFICES ASSUME ServeInv, [ServeNext]_bsVars, view.pc = "serve", FromCache,
                        view'.pc # "serve"
                 PROVE  view'.page \cap view.shown = {}
        OBVIOUS
    <2>1. CASE ServeLocal
        BY <2>1, ServeLocalMoves DEF ServeInv
    <2>2. CASE ~ServeLocal
        <3>1. ~ReadWatermark /\ ~AskProvider /\ ~ProviderOut /\ ~HandOver
            BY DEF ReadWatermark, AskProvider, ProviderOut, HandOver
        <3>2. UNCHANGED view
            BY <2>2, <3>1 DEF ServeNext, ServeStep, bsVars
        <3> QED
            BY <3>2
    <2> QED
        BY <2>1, <2>2
<1> QED
    BY <1>1, ServeInvariance, PTL DEF ServeSpec, SeamExact
=============================================================================
