-------------------------- MODULE GapHealerProofs --------------------------
(***************************************************************************)
(* Theorems about GapHealer, for every number of processes, every set of   *)
(* ranges and quarantined heights, every batch size, and any number of     *)
(* slow ticks, failures, deaths and retention runs.                        *)
(***************************************************************************)
EXTENDS GapHealer, WellFoundedInduction, TLAPS

(***************************************************************************)
(* The parts of TypeOK that steps change on their own.                     *)
(***************************************************************************)
Window == [from : 0..(MaxHeight + 1), to : 0..MaxHeight, verify : 0..MaxHeight]
Steps  == {"idle", "nominated", "claimed", "next", "verify", "advance", "stamp"}
              \cup Indexing

BlocksOK == blocks \in [Heights -> {"absent", "partial", "full"}]
GapsOK   == /\ healed \subseteq Gaps
            /\ cursor \in [Gaps -> 0..MaxHeight]
            /\ lease \in [Gaps -> Procs \cup {NoProc}]
FloorOK  == /\ floor \in Cutoffs \cup {0} /\ cutoff \in Cutoffs \cup {0}
            /\ horizon \in FirstHorizon..Larger(FirstHorizon, MaxHeight + 1)
            /\ pruning \in BOOLEAN
TickOK   == /\ pc \in [Procs -> Steps]
            /\ gap \in [Procs -> Gaps \cup {0}]
            /\ window \in [Procs -> Window]
            /\ todo \in [Procs -> SUBSET Heights]
            /\ late \in [Procs -> BOOLEAN]
RestOK   == queue \in [Procs -> SUBSET Heights] /\ faults \in 0..MaxFaults

LEMMA TypeParts ==
    /\ TypeOK <=> BlocksOK /\ GapsOK /\ FloorOK /\ TickOK /\ RestOK
    /\ TypeOK' <=> BlocksOK' /\ GapsOK' /\ FloorOK' /\ TickOK' /\ RestOK'
    BY DEF TypeOK, BlocksOK, GapsOK, FloorOK, TickOK, RestOK, Window, Steps

LEMMA Bounds ==
    /\ MaxHeight \in Nat /\ Heights \subseteq Nat /\ \A n \in Heights : 1 <= n /\ n <= MaxHeight
    /\ Gaps \subseteq Heights /\ GapTo \in [Gaps -> Heights] /\ 0 \notin Gaps
    /\ \A g \in Gaps : g \in Nat /\ GapTo[g] \in Nat /\ g <= GapTo[g] /\ GapTo[g] <= MaxHeight
    /\ Cutoffs \cup {0} \subseteq Nat
    /\ \A c \in Cutoffs \cup {0} : c <= MaxHeight
<1>1. MaxHeight \in Nat /\ Heights = 1..MaxHeight /\ Gaps \subseteq Heights
      /\ Cutoffs \subseteq Heights /\ GapTo \in [Gaps -> Heights]
    BY GapsAssumption, BoundAssumption DEF Heights
<1>2. \A g \in Gaps : g <= GapTo[g]
    BY GapsAssumption
<1>3. \A n \in Heights : n \in Nat /\ 1 <= n /\ n <= MaxHeight
    BY <1>1
<1>4. 0 \notin Heights
    BY <1>3
<1> HIDE DEF Heights, Gaps
<1> QED
    BY <1>1, <1>2, <1>3, <1>4

(***************************************************************************)
(* The least height of a set.                                              *)
(***************************************************************************)
LEMMA LeastHeight ==
    ASSUME NEW S \in SUBSET Heights, S # {}
    PROVE  \E n \in S : \A m \in S : n <= m
<1> DEFINE Less == {pair \in Nat \X Nat : pair[1] < pair[2]}
<1>1. S \subseteq Nat
    BY Bounds
<1>2. IsWellFoundedOn(Less, Nat)
    BY NatLessThanWellFounded DEF OpToRel
<1>3. \A x, y \in Nat : x < y => <<x, y>> \in Less
    OBVIOUS
<1> HIDE DEF Less
<1>4. PICK n \in S : \A m \in S : ~(<<m, n>> \in Less)
    BY <1>1, <1>2, WFMin
<1>5. \A m \in S : m \in Nat /\ n \in Nat /\ ~(m < n)
    BY <1>1, <1>3, <1>4
<1>6. \A m \in S : n <= m
    BY <1>5
<1> QED
    BY <1>6

LEMMA HeadIsFirst ==
    ASSUME TickOK, NEW p \in Procs, todo[p] # {}
    PROVE  Head(p) \in todo[p] /\ Head(p) \in Heights /\ \A m \in todo[p] : Head(p) <= m
<1>1. todo[p] \subseteq Heights
    BY DEF TickOK
<1>2. \E n \in todo[p] : \A m \in todo[p] : n <= m
    BY <1>1, LeastHeight
<1>3. Head(p) \in todo[p] /\ \A m \in todo[p] : Head(p) <= m
    BY <1>2 DEF Head
<1> QED
    BY <1>1, <1>3

LEMMA OldestIsFirst ==
    ASSUME Candidates # {}
    PROVE  Oldest \in Candidates /\ Oldest \in Gaps /\ \A h \in Candidates : Oldest <= h
<1>1. Candidates \subseteq Heights /\ Candidates \subseteq Gaps
    BY Bounds DEF Candidates
<1>2. \E n \in Candidates : \A m \in Candidates : n <= m
    BY <1>1, LeastHeight
<1> HIDE DEF Candidates
<1>3. Oldest \in Candidates /\ \A h \in Candidates : Oldest <= h
    BY <1>2 DEF Oldest
<1> QED
    BY <1>1, <1>3

-----------------------------------------------------------------------------
(* The inductive invariant. *)

Busy(p)    == pc[p] \notin {"idle", "nominated"}
Holding(p) == Busy(p) /\ (~late[p] \/ pc[p] \in Indexing)
Live(p)    == (pc[p] = "next" /\ ~late[p]) \/ pc[p] \in Indexing
Written(p) == pc[p] \in {"transactions", "decode"}

\* The window starts where the range does, or where retention or a verified
\* cursor says that nothing before needs proof.
Placed(p) ==
    pc[p] # "idle" =>
        /\ gap[p] \in Gaps
        /\ gap[p] <= window[p].verify
        /\ window[p].verify <= gap[p] \/ window[p].verify <= cutoff
WindowPlaced(p) ==
    Busy(p) =>
        /\ window[p].verify <= window[p].from
        /\ window[p].from <= window[p].verify \/ window[p].from <= cursor[gap[p]] + 1
        /\ window[p].to <= GapTo[gap[p]]
        /\ pc[p] # "claimed" => todo[p] \subseteq InWindow(p)

\* The lease does not lapse under a block, nor before the deadline.
Leased(p) == Holding(p) => lease[gap[p]] = p

HasHead(p) == pc[p] \in Indexing => todo[p] # {}

VerifiedWindow(p) ==
    pc[p] \in {"advance", "stamp"} =>
        \A n \in InWindow(p) : n >= cutoff => blocks[n] = "full" \/ n \in Poison

\* What was nominated is the oldest range with anything left to index.
OlderDone(p) ==
    pc[p] # "idle" =>
        \A g \in Gaps : g < gap[p] =>
            \A n \in g..GapTo[g] : n >= cutoff => n \in Poison \/ blocks[n] # "absent"

\* Nobody has written what a process has still to index.
Untouched(p) ==
    Live(p) => \A n \in todo[p] :
        n >= cutoff => blocks[n] = "absent" \/ (n = Head(p) /\ Written(p))

BaseProc(p) ==
    /\ Placed(p) /\ WindowPlaced(p) /\ Leased(p) /\ HasHead(p) /\ VerifiedWindow(p)

\* What the durable proofs rest on.
BaseInv ==
    /\ TypeOK
    /\ floor <= cutoff
    /\ StampedComplete /\ CursorVerified
    /\ \A p \in Procs : BaseProc(p)

Apart(p, q) == Live(p) /\ Live(q) => \A n \in todo[p] \cap todo[q] : n < cutoff

\* What single writing rests on besides.
WriteInv ==
    /\ BaseInv
    /\ \A p \in Procs : OlderDone(p) /\ Untouched(p)
    /\ \A p, q \in Procs : p # q => Apart(p, q)

-----------------------------------------------------------------------------
(* What the pieces of a step do. *)

SameTick(q) ==
    /\ pc'[q] = pc[q] /\ gap'[q] = gap[q] /\ window'[q] = window[q]
    /\ todo'[q] = todo[q] /\ late'[q] = late[q]
OthersStay(p) == \A q \in Procs : q # p => SameTick(q)

\* Above the cutoff nothing is lost; cutoff and cursors move on.
Kept ==
    /\ cutoff <= cutoff'
    /\ \A n \in Heights : n >= cutoff' =>
           /\ blocks[n] = "full" => blocks'[n] = "full"
           /\ blocks[n] # "absent" => blocks'[n] # "absent"
    /\ \A g \in Gaps : cursor[g] <= cursor'[g]

LeasesStay(q) == Holding(q) => lease'[gap[q]] = q

LEMMA Numbers ==
    ASSUME TypeOK
    PROVE  /\ cutoff \in Nat /\ floor \in Nat /\ horizon \in Nat
           /\ cutoff <= MaxHeight /\ floor <= MaxHeight
           /\ \A g \in Gaps : cursor[g] \in Nat /\ cursor[g] <= MaxHeight
           /\ \A p \in Procs :
                  /\ window[p] \in Window /\ todo[p] \subseteq Heights
                  /\ window[p].from \in Nat /\ window[p].to \in Nat
                  /\ window[p].verify \in Nat
<1>1. \A c \in Cutoffs \cup {0} : c \in Nat /\ c <= MaxHeight
    BY Bounds
<1>2. cutoff \in Nat /\ floor \in Nat /\ cutoff <= MaxHeight /\ floor <= MaxHeight
    BY <1>1, TypeParts DEF FloorOK
<1>3. FirstHorizon \in Nat
    BY BoundAssumption
<1>4. horizon \in Nat
    BY <1>3, TypeParts DEF FloorOK
<1>5. \A g \in Gaps : cursor[g] \in 0..MaxHeight
    BY TypeParts DEF GapsOK
<1>6. \A g \in Gaps : cursor[g] \in Nat /\ cursor[g] <= MaxHeight
    BY <1>5, Bounds
<1>7. \A p \in Procs : window[p] \in Window /\ todo[p] \subseteq Heights
    BY TypeParts DEF TickOK
<1>8. \A w \in Window : w.from \in Nat /\ w.to \in Nat /\ w.verify \in Nat
    BY Bounds DEF Window
<1> QED
    BY <1>2, <1>4, <1>6, <1>7, <1>8

LEMMA LaterNumbers ==
    ASSUME TypeOK'
    PROVE  /\ cutoff' \in Nat /\ floor' \in Nat
           /\ \A g \in Gaps : cursor'[g] \in Nat
<1>1. \A c \in Cutoffs \cup {0} : c \in Nat
    BY Bounds
<1>2. \A g \in Gaps : cursor'[g] \in 0..MaxHeight
    BY TypeParts DEF GapsOK
<1>3. \A g \in Gaps : cursor'[g] \in Nat
    BY <1>2, Bounds
<1>4. floor' \in Cutoffs \cup {0} /\ cutoff' \in Cutoffs \cup {0}
    BY TypeParts DEF FloorOK
<1> QED
    BY <1>1, <1>3, <1>4

\* A range is made of heights.
LEMMA RangeHeights ==
    ASSUME NEW g \in Gaps, NEW a \in Nat, NEW n \in a..GapTo[g], g <= a
    PROVE  n \in Heights /\ n \in g..GapTo[g]
<1>1. g \in Nat /\ 1 <= g /\ GapTo[g] \in Nat /\ GapTo[g] <= MaxHeight /\ MaxHeight \in Nat
    BY Bounds
<1>2. n \in 1..MaxHeight
    BY <1>1
<1> QED
    BY <1>1, <1>2 DEF Heights

LEMMA WindowHeights ==
    ASSUME TypeOK, NEW p \in Procs, Placed(p), WindowPlaced(p), Busy(p)
    PROVE  /\ gap[p] \in Gaps /\ gap[p] <= window[p].from
           /\ InWindow(p) \subseteq Heights /\ InWindow(p) \subseteq gap[p]..GapTo[gap[p]]
<1>1. gap[p] \in Gaps /\ gap[p] <= window[p].verify /\ window[p].verify <= window[p].from
      /\ window[p].to <= GapTo[gap[p]]
    BY DEF Placed, WindowPlaced, Busy
<1>2. gap[p] \in Nat /\ window[p].from \in Nat /\ window[p].to \in Nat
      /\ window[p].verify \in Nat /\ GapTo[gap[p]] \in Nat
    BY <1>1, Numbers, Bounds
<1>3. gap[p] <= window[p].from
    BY <1>1, <1>2
<1>4. \A n \in InWindow(p) : n \in window[p].from..GapTo[gap[p]]
    BY <1>1, <1>2 DEF InWindow
<1> QED
    BY <1>1, <1>2, <1>3, <1>4, RangeHeights

(***************************************************************************)
(* A process that does nothing keeps its part of the invariant.            *)
(***************************************************************************)
LEMMA BaseStays ==
    ASSUME TypeOK, TypeOK', NEW q \in Procs, BaseProc(q), SameTick(q), Kept, LeasesStay(q)
    PROVE  BaseProc(q)'
<1>1. /\ Busy(q)' <=> Busy(q)
      /\ Holding(q)' <=> Holding(q)
      /\ InWindow(q)' = InWindow(q)
    BY DEF SameTick, Busy, Holding, InWindow
<1>2. window[q].verify \in Nat /\ window[q].from \in Nat /\ cutoff \in Nat /\ cutoff' \in Nat
    BY Numbers, LaterNumbers
<1>3. Placed(q)'
    <2>1. window[q].verify <= cutoff => window[q].verify <= cutoff'
        BY <1>2 DEF Kept
    <2> QED
        BY <2>1 DEF BaseProc, Placed, SameTick
<1>4. WindowPlaced(q)'
    <2>1. ASSUME Busy(q), window[q].from <= cursor[gap[q]] + 1
          PROVE  window[q].from <= cursor'[gap[q]] + 1
        <3>1. gap[q] \in Gaps
            BY <2>1 DEF BaseProc, Placed, Busy
        <3>2. cursor[gap[q]] <= cursor'[gap[q]] /\ cursor[gap[q]] \in Nat /\ cursor'[gap[q]] \in Nat
            BY <3>1, Numbers, LaterNumbers DEF Kept
        <3> QED
            BY <1>2, <2>1, <3>2
    <2> QED
        BY <1>1, <2>1 DEF BaseProc, WindowPlaced, SameTick
<1>5. Leased(q)'
    BY <1>1 DEF BaseProc, Leased, LeasesStay, SameTick
<1>6. HasHead(q)'
    BY DEF BaseProc, HasHead, SameTick
<1>7. VerifiedWindow(q)'
    <2> SUFFICES ASSUME pc[q] \in {"advance", "stamp"}, NEW n \in InWindow(q), n >= cutoff'
                 PROVE  blocks'[n] = "full" \/ n \in Poison
        BY <1>1 DEF VerifiedWindow, SameTick
    <2>1. n \in Heights
        BY WindowHeights DEF BaseProc, Busy
    <2>2. n >= cutoff
        BY <1>2, <2>1, Bounds DEF Kept
    <2>3. blocks[n] = "full" \/ n \in Poison
        BY <2>2 DEF BaseProc, VerifiedWindow
    <2> QED
        BY <2>1, <2>3 DEF Kept
<1> QED
    BY <1>3, <1>4, <1>5, <1>6, <1>7 DEF BaseProc

(***************************************************************************)
(* What was proved of heights above the cutoff stays true when nothing is  *)
(* stamped and no cursor moves.                                            *)
(***************************************************************************)
LEMMA ProofsStay ==
    ASSUME BaseInv, TypeOK', Kept, healed' = healed, cursor' = cursor
    PROVE  StampedComplete' /\ CursorVerified'
<1>1. cutoff \in Nat /\ cutoff' \in Nat
    BY Numbers, LaterNumbers DEF BaseInv
<1>2. ASSUME NEW n \in Heights, n >= cutoff'
      PROVE  n >= cutoff
    BY <1>1, <1>2, Bounds DEF Kept
<1>3. StampedComplete'
    <2> SUFFICES ASSUME NEW g \in healed, NEW n \in g..GapTo[g], n >= cutoff'
                 PROVE  blocks'[n] = "full"
        BY DEF StampedComplete
    <2>1. g \in Gaps
        BY TypeParts DEF BaseInv, GapsOK
    <2>2. n \in Heights
        BY <2>1, Bounds, RangeHeights
    <2> QED
        BY <1>2, <2>2 DEF BaseInv, StampedComplete, Kept
<1>4. CursorVerified'
    <2> SUFFICES ASSUME NEW g \in Gaps, NEW n \in g..cursor[g], n >= cutoff'
                 PROVE  blocks'[n] = "full" \/ n \in Poison
        BY DEF CursorVerified
    <2>1. n \in Heights
        BY Bounds, Numbers DEF BaseInv, Heights
    <2> QED
        BY <1>2, <2>1 DEF BaseInv, CursorVerified, Kept
<1> QED
    BY <1>3, <1>4

(***************************************************************************)
(* The step of a process p, given what it does to p.                       *)
(***************************************************************************)
LEMMA BaseMoves ==
    ASSUME BaseInv, TypeOK', NEW p \in Procs, OthersStay(p), Kept,
           \A q \in Procs : q # p => LeasesStay(q),
           floor' <= cutoff', StampedComplete', CursorVerified', BaseProc(p)'
    PROVE  BaseInv'
<1>1. ASSUME NEW q \in Procs
      PROVE  BaseProc(q)'
    <2>1. CASE q = p
        BY <2>1
    <2>2. CASE q # p
        BY <2>2, BaseStays DEF BaseInv, OthersStay
    <2> QED
        BY <2>1, <2>2
<1> QED
    BY <1>1 DEF BaseInv

LEMMA BaseEnv ==
    ASSUME BaseInv, TypeOK', UNCHANGED tickVars, Kept,
           \A q \in Procs : LeasesStay(q),
           floor' <= cutoff', StampedComplete', CursorVerified'
    PROVE  BaseInv'
<1>1. ASSUME NEW q \in Procs
      PROVE  BaseProc(q)'
    BY BaseStays DEF BaseInv, SameTick, tickVars
<1> QED
    BY <1>1 DEF BaseInv

LEMMA FaultCounted ==
    ASSUME RestOK, Fault
    PROVE  faults' \in 0..MaxFaults
    BY BoundAssumption DEF RestOK, Fault

LEMMA NothingLost ==
    ASSUME TypeOK, UNCHANGED <<blocks, cursor, cutoff>>
    PROVE  Kept
    BY Numbers DEF Kept

LEMMA TickEnds ==
    ASSUME TypeOK, NEW p \in Procs, EndTick(p)
    PROVE  TickOK' /\ OthersStay(p) /\ pc'[p] = "idle" /\ BaseProc(p)'
<1>1. TickOK
    BY TypeParts
<1>2. NoWindow \in Window
    BY Bounds DEF NoWindow, Window
<1>3. "idle" \in Steps
    BY DEF Steps
<1> HIDE DEF Steps, Window, NoWindow
<1>4. TickOK'
    BY <1>1, <1>2, <1>3 DEF EndTick, Goto, TickOK
<1>5. OthersStay(p) /\ pc'[p] = "idle"
    BY <1>1 DEF EndTick, Goto, TickOK, OthersStay, SameTick
<1>6. BaseProc(p)'
    BY <1>5 DEF BaseProc, Placed, WindowPlaced, Leased, HasHead, VerifiedWindow, Busy,
                Holding, Indexing
<1> QED
    BY <1>4, <1>5, <1>6

(***************************************************************************)
(* A tick that returns and writes nothing.                                 *)
(***************************************************************************)
LEMMA Returns ==
    ASSUME BaseInv, NEW p \in Procs, EndTick(p), UNCHANGED <<dbVars, retention>>, RestOK'
    PROVE  BaseInv'
<1>1. TypeOK
    BY DEF BaseInv
<1>2. UNCHANGED <<blocks, floor, healed, cursor, lease, horizon, cutoff, pruning>>
    BY DEF dbVars, retention
<1>3. TypeOK'
    BY <1>1, <1>2, TickEnds, TypeParts DEF BlocksOK, GapsOK, FloorOK
<1>4. Kept
    BY <1>1, <1>2, NothingLost
<1>5. \A q \in Procs : q # p => LeasesStay(q)
    BY <1>2 DEF BaseInv, BaseProc, Leased, LeasesStay
<1>6. floor' <= cutoff' /\ StampedComplete' /\ CursorVerified'
    BY <1>2, <1>3, <1>4, ProofsStay DEF BaseInv
<1> QED
    BY <1>1, <1>3, <1>4, <1>5, <1>6, TickEnds, BaseMoves

(***************************************************************************)
(* A tick that goes on and writes nothing.                                 *)
(***************************************************************************)
LEMMA GoesOn ==
    ASSUME BaseInv, NEW p \in Procs, TickOK', RestOK', OthersStay(p),
           UNCHANGED <<dbVars, retention>>, BaseProc(p)'
    PROVE  BaseInv'
<1>1. TypeOK
    BY DEF BaseInv
<1>2. UNCHANGED <<blocks, floor, healed, cursor, lease, horizon, cutoff, pruning>>
    BY DEF dbVars, retention
<1>3. TypeOK'
    BY <1>1, <1>2, TypeParts DEF BlocksOK, GapsOK, FloorOK
<1>4. Kept
    BY <1>1, <1>2, NothingLost
<1>5. \A q \in Procs : q # p => LeasesStay(q)
    BY <1>2 DEF BaseInv, BaseProc, Leased, LeasesStay
<1>6. floor' <= cutoff' /\ StampedComplete' /\ CursorVerified'
    BY <1>2, <1>3, <1>4, ProofsStay DEF BaseInv
<1> QED
    BY <1>3, <1>4, <1>5, <1>6, BaseMoves

(***************************************************************************)
(* A tick that goes on to the next of its awaits, and all else as it was.  *)
(***************************************************************************)
LEMMA GotoStays ==
    ASSUME TickOK, NEW p \in Procs, NEW s \in Steps, Goto(p, s),
           UNCHANGED <<gap, window, todo, late>>
    PROVE  /\ TickOK' /\ OthersStay(p) /\ pc'[p] = s
           /\ gap'[p] = gap[p] /\ window'[p] = window[p] /\ todo'[p] = todo[p]
           /\ late'[p] = late[p]
<1> HIDE DEF Steps
<1>1. TickOK'
    BY DEF TickOK, Goto
<1>2. OthersStay(p) /\ pc'[p] = s
    BY DEF TickOK, Goto, OthersStay, SameTick
<1> QED
    BY <1>1, <1>2

LEMMA NominateBase ==
    ASSUME BaseInv, NEW p \in Procs, Nominate(p)
    PROVE  BaseInv'
<1>1. TypeOK /\ TickOK /\ RestOK
    BY TypeParts DEF BaseInv
<1>2. Oldest \in Gaps
    BY OldestIsFirst DEF Nominate
<1>3. "nominated" \in Steps
    BY DEF Steps
<1> DEFINE v == Larger(Oldest, floor)
<1>4. v \in 0..MaxHeight /\ Oldest <= v /\ (v <= Oldest \/ v <= cutoff)
    BY <1>1, <1>2, Numbers, Bounds DEF Larger, BaseInv
<1> HIDE DEF v
<1>5. [window[p] EXCEPT !.verify = v] \in Window
    BY <1>1, <1>4, Numbers DEF Window
<1>6. [window[p] EXCEPT !.verify = v].verify = v
    BY <1>1, Numbers DEF Window
<1>7. window' = [window EXCEPT ![p] = [window[p] EXCEPT !.verify = v]]
    BY DEF Nominate, v
<1> HIDE DEF Steps, Window
<1>8. TickOK'
    BY <1>1, <1>2, <1>3, <1>5, <1>7 DEF Nominate, Goto, TickOK
<1>9. /\ OthersStay(p) /\ pc'[p] = "nominated" /\ gap'[p] = Oldest
      /\ window'[p] = [window[p] EXCEPT !.verify = v]
    BY <1>1, <1>7 DEF Nominate, Goto, TickOK, OthersStay, SameTick
<1>10. UNCHANGED <<dbVars, retention>> /\ cutoff' = cutoff
    BY DEF Nominate, retention
<1>11. BaseProc(p)'
    BY <1>2, <1>4, <1>6, <1>9, <1>10 DEF BaseProc, Placed, WindowPlaced, Leased, HasHead,
          VerifiedWindow, Busy, Holding, Indexing
<1>12. RestOK'
    BY <1>1 DEF Nominate, RestOK
<1> QED
    BY <1>8, <1>9, <1>10, <1>11, <1>12, GoesOn

LEMMA FindMissingBase ==
    ASSUME BaseInv, NEW p \in Procs, FindMissing(p)
    PROVE  BaseInv'
<1>1. TypeOK /\ TickOK /\ RestOK /\ BaseProc(p)
    BY TypeParts DEF BaseInv
<1>2. "next" \in Steps
    BY DEF Steps
<1>3. Busy(p) /\ (Holding(p) <=> ~late[p])
    BY DEF FindMissing, Busy, Holding, Indexing
<1>4. InWindow(p) \subseteq Heights
    BY <1>1, <1>3, WindowHeights DEF BaseProc
<1> HIDE DEF Steps
<1>5. TickOK'
    BY <1>1, <1>2, <1>4 DEF FindMissing, Goto, TickOK
<1>6. /\ OthersStay(p) /\ pc'[p] = "next" /\ gap'[p] = gap[p] /\ window'[p] = window[p]
      /\ late'[p] = late[p] /\ todo'[p] \subseteq InWindow(p)
    BY <1>1 DEF FindMissing, Goto, TickOK, OthersStay, SameTick
<1>7. UNCHANGED <<dbVars, retention>> /\ cutoff' = cutoff /\ lease' = lease /\ cursor' = cursor
    BY DEF FindMissing, retention, dbVars
<1>8. InWindow(p)' = InWindow(p)
    BY <1>6 DEF InWindow
<1>9. BaseProc(p)'
    <2>1. Placed(p)'
        BY <1>1, <1>6, <1>7 DEF BaseProc, Placed, FindMissing
    <2>2. WindowPlaced(p)'
        BY <1>1, <1>3, <1>6, <1>7, <1>8 DEF BaseProc, WindowPlaced
    <2>3. Leased(p)'
        BY <1>1, <1>3, <1>6, <1>7 DEF BaseProc, Leased, Holding, Indexing, FindMissing
    <2>4. HasHead(p)' /\ VerifiedWindow(p)'
        BY <1>6 DEF HasHead, VerifiedWindow, Indexing
    <2> QED
        BY <2>1, <2>2, <2>3, <2>4 DEF BaseProc
<1>10. RestOK'
    BY <1>1 DEF FindMissing, RestOK
<1> QED
    BY <1>5, <1>6, <1>7, <1>9, <1>10, GoesOn

LEMMA RunsLateBase ==
    ASSUME BaseInv, NEW p \in Procs, RunsLate(p)
    PROVE  BaseInv'
<1>1. TypeOK /\ TickOK /\ RestOK /\ BaseProc(p)
    BY TypeParts DEF BaseInv
<1>2. TickOK'
    BY <1>1, Zenon DEF RunsLate, TickOK
<1>3. /\ OthersStay(p) /\ pc'[p] = pc[p] /\ gap'[p] = gap[p] /\ window'[p] = window[p]
      /\ todo'[p] = todo[p] /\ late'[p]
    BY <1>1 DEF RunsLate, TickOK, OthersStay, SameTick
<1>4. UNCHANGED <<dbVars, retention>> /\ cutoff' = cutoff /\ blocks' = blocks /\ lease' = lease
      /\ cursor' = cursor
    BY DEF RunsLate, retention, dbVars
<1>5. InWindow(p)' = InWindow(p) /\ (Busy(p)' <=> Busy(p))
    BY <1>3 DEF InWindow, Busy
<1>6. BaseProc(p)'
    BY <1>1, <1>3, <1>4, <1>5 DEF BaseProc, Placed, WindowPlaced, Leased, HasHead,
          VerifiedWindow, Holding
<1>7. RestOK'
    BY <1>1, FaultCounted DEF RunsLate, RestOK
<1> QED
    BY <1>2, <1>3, <1>4, <1>6, <1>7, GoesOn

(***************************************************************************)
(* From one await to the next, with the tick's own values as they are.     *)
(***************************************************************************)
LEMMA GoesOnTo ==
    ASSUME BaseInv, NEW p \in Procs, NEW s \in Steps, Goto(p, s), Busy(p), pc[p] # "claimed",
           s \notin {"idle", "nominated"},
           UNCHANGED <<gap, window, todo, late>>, UNCHANGED <<dbVars, retention>>, RestOK',
           s \in Indexing => (~late[p] \/ pc[p] \in Indexing) /\ todo[p] # {},
           s \in {"advance", "stamp"} =>
               \A n \in InWindow(p) : n >= cutoff => blocks[n] = "full" \/ n \in Poison
    PROVE  BaseInv'
<1>1. TypeOK /\ TickOK /\ BaseProc(p)
    BY TypeParts DEF BaseInv
<1>2. /\ TickOK' /\ OthersStay(p) /\ pc'[p] = s
      /\ gap'[p] = gap[p] /\ window'[p] = window[p] /\ todo'[p] = todo[p]
      /\ late'[p] = late[p]
    BY <1>1, GotoStays
<1>3. cutoff' = cutoff /\ blocks' = blocks /\ lease' = lease /\ cursor' = cursor
    BY DEF retention, dbVars
<1>4. InWindow(p)' = InWindow(p) /\ Busy(p)'
    BY <1>2 DEF InWindow, Busy
<1>5. BaseProc(p)'
    <2>1. Placed(p)' /\ WindowPlaced(p)'
        BY <1>1, <1>2, <1>3, <1>4 DEF BaseProc, Placed, WindowPlaced, Busy
    <2>2. Leased(p)'
        BY <1>1, <1>2, <1>3, <1>4 DEF BaseProc, Leased, Holding
    <2>3. HasHead(p)' /\ VerifiedWindow(p)'
        BY <1>2, <1>3, <1>4 DEF HasHead, VerifiedWindow
    <2> QED
        BY <2>1, <2>2, <2>3 DEF BaseProc
<1> QED
    BY <1>2, <1>5, GoesOn

LEMMA StartBlockBase ==
    ASSUME BaseInv, NEW p \in Procs, StartBlock(p)
    PROVE  BaseInv'
<1>1. Busy(p) /\ Goto(p, "fetch") /\ "fetch" \in Steps /\ ~late[p] /\ todo[p] # {}
    BY DEF StartBlock, MayStart, Busy, Steps, Indexing
<1>2. RestOK'
    BY TypeParts DEF BaseInv, StartBlock, RestOK
<1> QED
    BY <1>1, <1>2, GoesOnTo DEF StartBlock

LEMMA FlushDoneBase ==
    ASSUME BaseInv, NEW p \in Procs, FlushDone(p)
    PROVE  BaseInv'
<1>1. Busy(p) /\ Goto(p, "verify") /\ "verify" \in Steps /\ "verify" \notin Indexing
    BY DEF FlushDone, Busy, Steps, Indexing
<1>2. RestOK'
    BY TypeParts DEF BaseInv, FlushDone, RestOK
<1> QED
    BY <1>1, <1>2, GoesOnTo DEF FlushDone

LEMMA VerifyBase ==
    ASSUME BaseInv, NEW p \in Procs, Verify(p)
    PROVE  BaseInv'
<1>1. RestOK' /\ UNCHANGED <<dbVars, retention>>
    BY TypeParts DEF BaseInv, Verify, RestOK
<1>2. CASE Incomplete(InWindow(p)) = {}
    <2>1. Busy(p) /\ pc[p] # "claimed" /\ Goto(p, "advance") /\ "advance" \in Steps /\ "advance" \notin Indexing
          /\ UNCHANGED <<gap, window, todo, late>>
        BY <1>2 DEF Verify, Busy, Steps, Indexing
    <2>2. \A n \in InWindow(p) : blocks[n] = "full" \/ n \in Poison
        BY <1>2 DEF Incomplete
    <2> QED
        BY <1>1, <2>1, <2>2, GoesOnTo
<1>3. CASE Incomplete(InWindow(p)) # {}
    BY <1>1, <1>3, Returns DEF Verify
<1> QED
    BY <1>2, <1>3

LEMMA EnqueueBase ==
    ASSUME BaseInv, NEW p \in Procs, Enqueue(p)
    PROVE  BaseInv'
<1>1. TypeOK /\ TickOK /\ RestOK /\ BaseProc(p)
    BY TypeParts DEF BaseInv
<1>2. "next" \in Steps /\ Busy(p) /\ Holding(p) /\ "next" \notin Indexing /\ pc[p] \in Indexing
      /\ pc[p] # "claimed"
    BY DEF Steps, Enqueue, Busy, Holding, Indexing
<1>3. Head(p) \in Heights
    BY <1>1, <1>2, HeadIsFirst DEF BaseProc, HasHead
<1> DEFINE h == Head(p)
<1>4. /\ Goto(p, "next") /\ todo' = [todo EXCEPT ![p] = @ \ {h}]
      /\ queue' = [queue EXCEPT ![p] = @ \cup {h}]
      /\ UNCHANGED <<dbVars, retention, gap, window, late, faults>>
    BY DEF Enqueue
<1> HIDE DEF Steps, h
<1>5. TickOK'
    BY <1>1, <1>2, <1>4 DEF Goto, TickOK
<1>6. RestOK'
    BY <1>1, <1>3, <1>4 DEF RestOK, h
<1>7. /\ OthersStay(p) /\ pc'[p] = "next" /\ gap'[p] = gap[p] /\ window'[p] = window[p]
      /\ todo'[p] \subseteq todo[p] /\ late'[p] = late[p]
    BY <1>1, <1>4 DEF Goto, TickOK, OthersStay, SameTick
<1>8. UNCHANGED <<dbVars, retention>> /\ cutoff' = cutoff /\ lease' = lease /\ cursor' = cursor
    BY <1>4 DEF retention, dbVars
<1>9. InWindow(p)' = InWindow(p) /\ Busy(p)'
    BY <1>7 DEF InWindow, Busy
<1>10. BaseProc(p)'
    <2>1. Placed(p)' /\ WindowPlaced(p)'
        BY <1>1, <1>2, <1>7, <1>8, <1>9 DEF BaseProc, Placed, WindowPlaced, Busy
    <2>2. Leased(p)'
        BY <1>1, <1>2, <1>7, <1>8, <1>9 DEF BaseProc, Leased
    <2>3. HasHead(p)' /\ VerifiedWindow(p)'
        BY <1>2, <1>7 DEF HasHead, VerifiedWindow
    <2> QED
        BY <2>1, <2>2, <2>3 DEF BaseProc
<1> QED
    BY <1>5, <1>6, <1>7, <1>8, <1>10, GoesOn

LEMMA ClaimBase ==
    ASSUME BaseInv, NEW p \in Procs, Claim(p)
    PROVE  BaseInv'
<1>1. TypeOK /\ BlocksOK /\ GapsOK /\ FloorOK /\ TickOK /\ RestOK /\ BaseProc(p)
    BY TypeParts DEF BaseInv
<1> DEFINE g == gap[p]
           w == window[p]
           from == Larger(w.verify, cursor[g] + 1)
           to == WindowEnd(g, from)
<1>2. /\ g \in Gaps /\ g <= w.verify /\ (w.verify <= g \/ w.verify <= cutoff)
      /\ pc[p] = "nominated" /\ lease[g] = NoProc
    BY <1>1 DEF BaseProc, Placed, Claim, Claimable
<1>3. w \in Window /\ w.verify \in Nat /\ w.verify <= MaxHeight /\ cursor[g] \in Nat
      /\ cursor[g] <= MaxHeight /\ GapTo[g] \in Nat /\ GapTo[g] <= MaxHeight /\ MaxHeight \in Nat
    <2>1. \A x \in Window : x.verify <= MaxHeight
        BY Bounds DEF Window
    <2>2. w \in Window /\ w.verify \in Nat /\ cursor[g] \in Nat /\ cursor[g] <= MaxHeight
        <3> HIDE DEF Window
        <3> QED
            BY <1>1, <1>2, Numbers
    <2>3. GapTo[g] \in Nat /\ GapTo[g] <= MaxHeight /\ MaxHeight \in Nat
        BY <1>2, Bounds
    <2> HIDE DEF Window
    <2> QED
        BY <2>1, <2>2, <2>3
<1>4. /\ from \in 0..(MaxHeight + 1) /\ w.verify <= from
      /\ from <= w.verify \/ from <= cursor[g] + 1
    BY <1>3 DEF Larger
<1>5. to \in 0..MaxHeight /\ to <= GapTo[g]
    <2> HIDE DEF from
    <2> QED
        BY <1>3, <1>4, BoundAssumption DEF WindowEnd, Smaller
<1> DEFINE new == [w EXCEPT !.from = from, !.to = to]
<1>6. lease' = [lease EXCEPT ![g] = p] /\ window' = [window EXCEPT ![p] = new] /\ Goto(p, "claimed")
    <2>1. window' = [window EXCEPT ![p].from = from, ![p].to = to]
        BY DEF Claim
    <2>2. window' = [window EXCEPT ![p] = new]
        <3> HIDE DEF from, to
        <3> QED
            BY <1>1, <2>1 DEF TickOK, Window
    <2> QED
        BY <2>2 DEF Claim
<1>7. new \in Window /\ new.from = from /\ new.to = to /\ new.verify = w.verify
    <2> HIDE DEF from, to
    <2> QED
        BY <1>3, <1>4, <1>5 DEF Window
<1>8. "claimed" \in Steps
    BY DEF Steps
<1>9. UNCHANGED <<blocks, floor, healed, cursor, horizon, retention, gap, todo, late, queue, faults>>
      /\ cutoff' = cutoff /\ pruning' = pruning
    BY DEF Claim, retention
<1> HIDE DEF Steps, Window, g, w, from, to, new
<1>10. TickOK'
    BY <1>1, <1>6, <1>7, <1>8, <1>9 DEF TickOK, Goto
<1>11. TypeOK'
    <2>1. GapsOK'
        BY <1>1, <1>6, <1>9 DEF GapsOK
    <2> QED
        BY <1>1, <1>9, <1>10, <2>1, TypeParts DEF BlocksOK, FloorOK, RestOK
<1>12. /\ OthersStay(p) /\ pc'[p] = "claimed" /\ window'[p] = new /\ todo'[p] = todo[p]
       /\ gap'[p] = g
    BY <1>1, <1>6, <1>9 DEF TickOK, Goto, OthersStay, SameTick, g
<1>13. Kept /\ StampedComplete' /\ CursorVerified' /\ floor' <= cutoff'
    BY <1>1, <1>9, <1>11, NothingLost, ProofsStay DEF BaseInv
<1>14. ASSUME NEW q \in Procs, q # p
       PROVE  LeasesStay(q)
    <2> SUFFICES ASSUME Holding(q) PROVE lease'[gap[q]] = q
        BY DEF LeasesStay
    <2>1. lease[gap[q]] = q /\ gap[q] \in Gaps
        BY DEF BaseInv, BaseProc, Leased, Placed, Holding, Busy
    <2>2. gap[q] # g
        BY <1>2, <2>1, LeaseAssumption DEF g
    <2> QED
        BY <1>1, <1>6, <2>1, <2>2 DEF GapsOK
<1>15. BaseProc(p)'
    <2>1. Placed(p)'
        BY <1>2, <1>7, <1>9, <1>12 DEF Placed, g, w
    <2>2. lease'[g] = p
        BY <1>1, <1>2, <1>6 DEF GapsOK
    <2>3. Leased(p)'
        BY <1>12, <2>2 DEF Leased
    <2>5. WindowPlaced(p)'
        BY <1>4, <1>5, <1>7, <1>9, <1>12 DEF WindowPlaced, g, w
    <2>6. HasHead(p)' /\ VerifiedWindow(p)'
        BY <1>12 DEF HasHead, VerifiedWindow, Indexing
    <2> QED
        BY <2>1, <2>3, <2>5, <2>6 DEF BaseProc
<1> QED
    BY <1>11, <1>12, <1>13, <1>14, <1>15, BaseMoves

(***************************************************************************)
(* A write of the block a process indexes; its tick goes on.               *)
(***************************************************************************)
LEMMA WritesBlock ==
    ASSUME BaseInv, NEW p \in Procs, NEW s \in Indexing, Goto(p, s), pc[p] \in Indexing,
           BlocksOK',
           \A n \in Heights : /\ blocks[n] = "full" => blocks'[n] = "full"
                              /\ blocks[n] # "absent" => blocks'[n] # "absent",
           UNCHANGED <<floor, healed, cursor, lease, horizon, retention, gap, window, todo, late,
                       queue, faults>>
    PROVE  BaseInv' /\ TypeOK' /\ Kept /\ OthersStay(p) /\ pc'[p] = s
<1>1. TypeOK /\ GapsOK /\ FloorOK /\ TickOK /\ RestOK /\ BaseProc(p)
    BY TypeParts DEF BaseInv
<1>2. s \in Steps /\ s \notin {"advance", "stamp"}
    BY DEF Steps, Indexing
<1>3. UNCHANGED <<gap, window, todo, late>> /\ cutoff' = cutoff /\ pruning' = pruning
      /\ cursor' = cursor /\ lease' = lease
    BY DEF retention
<1>4. /\ TickOK' /\ OthersStay(p) /\ pc'[p] = s
      /\ gap'[p] = gap[p] /\ window'[p] = window[p] /\ todo'[p] = todo[p]
      /\ late'[p] = late[p]
    BY <1>1, <1>2, <1>3, GotoStays
<1>5. TypeOK'
    BY <1>1, <1>3, <1>4, TypeParts DEF GapsOK, FloorOK, RestOK
<1>6. Kept
    BY <1>1, <1>3, Numbers DEF Kept
<1>7. StampedComplete' /\ CursorVerified' /\ floor' <= cutoff'
    BY <1>3, <1>5, <1>6, ProofsStay DEF BaseInv
<1>8. \A q \in Procs : q # p => LeasesStay(q)
    BY DEF BaseInv, BaseProc, Leased, LeasesStay
<1>9. InWindow(p)' = InWindow(p) /\ Busy(p) /\ pc[p] # "claimed" /\ Holding(p)
    BY <1>4 DEF InWindow, Busy, Holding, Indexing
<1>10. BaseProc(p)'
    <2>1. Placed(p)' /\ WindowPlaced(p)'
        BY <1>1, <1>3, <1>4, <1>9 DEF BaseProc, Placed, WindowPlaced, Busy
    <2>2. Leased(p)'
        BY <1>1, <1>3, <1>4, <1>9 DEF BaseProc, Leased
    <2>3. HasHead(p)' /\ VerifiedWindow(p)'
        BY <1>1, <1>2, <1>4 DEF BaseProc, HasHead, VerifiedWindow
    <2> QED
        BY <2>1, <2>2, <2>3 DEF BaseProc
<1> QED
    BY <1>4, <1>5, <1>6, <1>7, <1>8, <1>10, BaseMoves

LEMMA InsertRowBase ==
    ASSUME BaseInv, NEW p \in Procs, InsertRow(p)
    PROVE  BaseInv' /\ TypeOK' /\ Kept /\ OthersStay(p) /\ pc'[p] = "transactions"
<1>1. BlocksOK
    BY TypeParts DEF BaseInv
<1> DEFINE h == Head(p)
<1>2. blocks' = [blocks EXCEPT ![h] = IF @ = "absent" THEN "partial" ELSE @]
    BY DEF InsertRow
<1> HIDE DEF h
<1>3. BlocksOK'
    BY <1>1, <1>2 DEF BlocksOK
<1>4. \A n \in Heights : /\ blocks[n] = "full" => blocks'[n] = "full"
                         /\ blocks[n] # "absent" => blocks'[n] # "absent"
    BY <1>1, <1>2 DEF BlocksOK
<1>5. "transactions" \in Indexing /\ pc[p] \in Indexing
    BY DEF InsertRow, Indexing
<1> QED
    BY <1>3, <1>4, <1>5, WritesBlock DEF InsertRow

LEMMA InsertTransactionsBase ==
    ASSUME BaseInv, NEW p \in Procs, InsertTransactions(p)
    PROVE  BaseInv' /\ TypeOK' /\ Kept /\ OthersStay(p) /\ pc'[p] = "decode"
<1>1. BlocksOK
    BY TypeParts DEF BaseInv
<1> DEFINE h == Head(p)
<1>2. blocks' = [blocks EXCEPT ![h] = "full"]
    BY DEF InsertTransactions
<1> HIDE DEF h
<1>3. BlocksOK'
    BY <1>1, <1>2 DEF BlocksOK
<1>4. \A n \in Heights : /\ blocks[n] = "full" => blocks'[n] = "full"
                         /\ blocks[n] # "absent" => blocks'[n] # "absent"
    BY <1>1, <1>2 DEF BlocksOK
<1>5. "decode" \in Indexing /\ pc[p] \in Indexing
    BY DEF InsertTransactions, Indexing
<1> QED
    BY <1>3, <1>4, <1>5, WritesBlock DEF InsertTransactions

(***************************************************************************)
(* What a verified window proves: everything from the start of the range.  *)
(***************************************************************************)
LEMMA ProvenToEnd ==
    ASSUME BaseInv, NEW p \in Procs, pc[p] = "advance", NEW n \in gap[p]..window[p].to,
           n >= cutoff
    PROVE  blocks[n] = "full" \/ n \in Poison
<1>1. TypeOK /\ BaseProc(p) /\ Busy(p)
    BY DEF BaseInv, Busy
<1> DEFINE g == gap[p]
           w == window[p]
<1>2. g \in Gaps /\ (w.verify <= g \/ w.verify <= cutoff)
    BY <1>1 DEF BaseProc, Placed, Busy
<1>3. w.from <= w.verify \/ w.from <= cursor[g] + 1
    BY <1>1 DEF BaseProc, WindowPlaced
<1>4. g \in Nat /\ w.verify \in Nat /\ w.from \in Nat /\ w.to \in Nat /\ cursor[g] \in Nat
      /\ cutoff \in Nat
    BY <1>1, <1>2, Numbers, Bounds
<1>5. n \in Nat /\ g <= n /\ n <= w.to
    BY <1>4
<1>6. CASE w.from <= n
    <2>1. n \in InWindow(p)
        BY <1>4, <1>5, <1>6 DEF InWindow
    <2> QED
        BY <1>1, <2>1 DEF BaseProc, VerifiedWindow
<1>7. CASE n < w.from /\ w.from <= cursor[g] + 1
    <2>1. n \in g..cursor[g]
        BY <1>4, <1>5, <1>7
    <2> QED
        BY <1>2, <2>1 DEF BaseInv, CursorVerified
<1>8. CASE n < w.from /\ w.from <= w.verify
    <2>1. n < cutoff \/ n < g
        BY <1>2, <1>4, <1>5, <1>8
    <2> QED
        BY <1>4, <1>5, <2>1
<1> HIDE DEF g, w
<1> QED
    BY <1>3, <1>4, <1>5, <1>6, <1>7, <1>8

LEMMA AdvanceBase ==
    ASSUME BaseInv, NEW p \in Procs, Advance(p)
    PROVE  BaseInv' /\ Kept
<1>1. TypeOK /\ BlocksOK /\ GapsOK /\ FloorOK /\ TickOK /\ RestOK /\ BaseProc(p)
    BY TypeParts DEF BaseInv
<1>2. pc[p] = "advance" /\ Busy(p) /\ pc[p] # "claimed" /\ "stamp" \in Steps /\ "stamp" \notin Indexing
      /\ "advance" \notin Indexing
    BY DEF Advance, Busy, Steps, Indexing
<1> DEFINE g == gap[p]
           to == window[p].to
<1>3. UNCHANGED <<blocks, floor, healed, lease, horizon, cutoff, pruning, queue, faults>>
    BY DEF Advance, retention
<1>4. g \in Gaps /\ to \in Nat /\ to <= GapTo[g] /\ GapTo[g] <= MaxHeight /\ GapTo[g] \in Nat
      /\ MaxHeight \in Nat
    BY <1>1, <1>2, Numbers, Bounds DEF BaseProc, Placed, WindowPlaced
<1>5. cursor' = cursor \/ cursor' = [cursor EXCEPT ![g] = Larger(@, to)]
    BY DEF Advance
<1>6. \A h \in Gaps : /\ cursor'[h] \in 0..MaxHeight
                      /\ cursor'[h] = cursor[h] \/ (h = g /\ cursor[h] <= to /\ cursor'[h] = to)
    <2> SUFFICES ASSUME NEW h \in Gaps
                 PROVE /\ cursor'[h] \in 0..MaxHeight
                       /\ cursor'[h] = cursor[h] \/ (h = g /\ cursor[h] <= to /\ cursor'[h] = to)
        OBVIOUS
    <2>1. cursor[h] \in Nat /\ cursor[h] <= MaxHeight
        BY <1>1, Numbers
    <2>2. Larger(cursor[h], to) \in 0..MaxHeight
          /\ (Larger(cursor[h], to) = cursor[h] \/ (cursor[h] <= to /\ Larger(cursor[h], to) = to))
        <3> HIDE DEF to, g
        <3> QED
            BY <1>4, <2>1 DEF Larger
    <2>3. cursor'[h] = cursor[h] \/ (h = g /\ cursor'[h] = Larger(cursor[h], to))
        <3> HIDE DEF to, g
        <3> QED
            BY <1>1, <1>5 DEF GapsOK
    <2> HIDE DEF g, to
    <2> QED
        BY <1>4, <2>1, <2>2, <2>3
<1>7. cursor' \in [Gaps -> 0..MaxHeight]
    <2>1. cursor \in [Gaps -> 0..MaxHeight]
        BY <1>1 DEF GapsOK
    <2>2. \A h \in Gaps : cursor'[h] \in 0..MaxHeight
        BY <1>6
    <2>3. cursor' = [h \in Gaps |-> cursor'[h]]
        <3> HIDE DEF g, to
        <3> QED
            BY <1>5, <2>1
    <2> QED
        BY <2>2, <2>3
<1>8. Kept
    <2>1. \A h \in Gaps : cursor[h] <= cursor'[h]
        BY <1>1, <1>4, <1>6, Numbers
    <2> QED
        BY <1>1, <1>3, <2>1, Numbers DEF Kept
<1>9. StampedComplete' /\ floor' <= cutoff'
    BY <1>3 DEF BaseInv, StampedComplete
<1>10. CursorVerified'
    <2> SUFFICES ASSUME NEW h \in Gaps, NEW n \in h..cursor'[h], n >= cutoff
                 PROVE  blocks[n] = "full" \/ n \in Poison
        BY <1>3 DEF CursorVerified
    <2>1. CASE cursor'[h] = cursor[h]
        BY <2>1 DEF BaseInv, CursorVerified
    <2>2. CASE h = g /\ cursor'[h] = to
        BY <1>2, <2>2, ProvenToEnd
    <2> QED
        BY <1>6, <2>1, <2>2
<1>11. RestOK'
    BY <1>1, <1>3 DEF RestOK
<1>12. \A q \in Procs : q # p => LeasesStay(q)
    BY <1>3 DEF BaseInv, BaseProc, Leased, LeasesStay
<1>13. TickOK' => TypeOK'
    BY <1>1, <1>3, <1>7, <1>11, TypeParts DEF BlocksOK, GapsOK, FloorOK
<1>14. CASE EndTick(p)
    BY <1>1, <1>8, <1>9, <1>10, <1>12, <1>13, <1>14, TickEnds, BaseMoves
<1>15. CASE Goto(p, "stamp") /\ UNCHANGED <<gap, window, todo, late>>
    <2>1. /\ TickOK' /\ OthersStay(p) /\ pc'[p] = "stamp"
          /\ gap'[p] = gap[p] /\ window'[p] = window[p] /\ todo'[p] = todo[p]
          /\ late'[p] = late[p]
        BY <1>1, <1>2, <1>15, GotoStays
    <2>2. InWindow(p)' = InWindow(p)
        BY <2>1 DEF InWindow
    <2>3. BaseProc(p)'
        <3>1. Placed(p)'
            BY <1>1, <1>2, <1>3, <2>1 DEF BaseProc, Placed
        <3>2. WindowPlaced(p)'
            <4>1. window[p].from <= cursor[g] + 1 => window[p].from <= cursor'[g] + 1
                BY <1>1, <1>4, <1>7, <1>8, Numbers DEF Kept
            <4> QED
                BY <1>1, <1>2, <2>1, <2>2, <4>1 DEF BaseProc, WindowPlaced
        <3>3. Leased(p)'
            BY <1>1, <1>2, <1>3, <2>1 DEF BaseProc, Leased, Holding, Busy
        <3>4. HasHead(p)' /\ VerifiedWindow(p)'
            BY <1>1, <1>2, <1>3, <2>1, <2>2 DEF BaseProc, HasHead, VerifiedWindow
        <3> QED
            BY <3>1, <3>2, <3>3, <3>4 DEF BaseProc
    <2> QED
        BY <1>8, <1>9, <1>10, <1>12, <1>13, <2>1, <2>3, BaseMoves
<1> QED
    BY <1>8, <1>14, <1>15 DEF Advance

LEMMA StampBase ==
    ASSUME BaseInv, NEW p \in Procs, Stamp(p)
    PROVE  BaseInv' /\ Kept
<1>1. TypeOK /\ BlocksOK /\ GapsOK /\ FloorOK /\ TickOK /\ RestOK /\ BaseProc(p)
    BY TypeParts DEF BaseInv
<1> DEFINE g == gap[p]
           v == window[p].verify
<1>2. UNCHANGED <<blocks, floor, cursor, lease, horizon, cutoff, pruning, queue, faults>> /\ EndTick(p)
    BY DEF Stamp, retention
<1>3. g \in Gaps /\ (v <= g \/ v <= cutoff)
    BY <1>1 DEF BaseProc, Placed, Stamp
<1>4. healed' = healed \/ (healed' = healed \cup {g} /\ Dense(v..GapTo[g]))
    BY DEF Stamp
<1>5. TypeOK'
    <2>1. GapsOK'
        BY <1>1, <1>2, <1>3, <1>4 DEF GapsOK
    <2>2. TickOK'
        BY <1>1, <1>2, TickEnds
    <2> QED
        BY <1>1, <1>2, <2>1, <2>2, TypeParts DEF BlocksOK, FloorOK, RestOK
<1>6. Kept
    BY <1>1, <1>2, NothingLost
<1>7. CursorVerified' /\ floor' <= cutoff'
    BY <1>2 DEF BaseInv, CursorVerified
<1>8. StampedComplete'
    <2> SUFFICES ASSUME NEW h \in healed', NEW n \in h..GapTo[h], n >= cutoff
                 PROVE  blocks[n] = "full"
        BY <1>2 DEF StampedComplete
    <2>1. CASE h \in healed
        BY <2>1 DEF BaseInv, StampedComplete
    <2>2. CASE h = g /\ Dense(v..GapTo[g])
        <3>0. g \in Nat /\ v \in Nat /\ cutoff \in Nat /\ GapTo[g] \in Nat
            BY <1>1, <1>3, Numbers, Bounds
        <3> HIDE DEF g, v
        <3>1. n \in Nat /\ g <= n /\ n <= GapTo[g]
            BY <2>2, <3>0
        <3>2. v <= n
            BY <1>3, <3>0, <3>1
        <3>3. n \in v..GapTo[g]
            BY <3>0, <3>1, <3>2
        <3> QED
            BY <2>2, <3>3 DEF Dense
    <2> QED
        BY <1>4, <2>1, <2>2
<1>9. \A q \in Procs : q # p => LeasesStay(q)
    BY <1>2 DEF BaseInv, BaseProc, Leased, LeasesStay
<1> QED
    BY <1>1, <1>2, <1>5, <1>6, <1>7, <1>8, <1>9, TickEnds, BaseMoves

(***************************************************************************)
(* Steps of the writer, the clock, retention and the chain.                *)
(***************************************************************************)
LEMMA DrainBase ==
    ASSUME BaseInv, NEW p \in Procs, Drain(p)
    PROVE  BaseInv' /\ Kept
<1>1. TypeOK /\ BlocksOK /\ GapsOK /\ FloorOK /\ TickOK /\ RestOK
    BY TypeParts DEF BaseInv
<1>2. UNCHANGED <<blocks, floor, healed, cursor, lease, horizon, cutoff, pruning, faults>>
      /\ UNCHANGED tickVars
    BY DEF Drain, dbVars, retention
<1>3. TickOK' /\ RestOK'
    BY <1>1, <1>2 DEF TickOK, RestOK, tickVars, Drain
<1>4. TypeOK'
    BY <1>1, <1>2, <1>3, TypeParts DEF BlocksOK, GapsOK, FloorOK
<1>5. Kept
    BY <1>1, <1>2, NothingLost
<1>6. StampedComplete' /\ CursorVerified' /\ floor' <= cutoff'
    BY <1>2, <1>4, <1>5, ProofsStay DEF BaseInv
<1>7. \A q \in Procs : LeasesStay(q)
    BY <1>2 DEF BaseInv, BaseProc, Leased, LeasesStay
<1> QED
    BY <1>2, <1>4, <1>5, <1>6, <1>7, BaseEnv

LEMMA LeaseLapsesBase ==
    ASSUME BaseInv, NEW g \in Gaps, LeaseLapses(g)
    PROVE  BaseInv' /\ Kept
<1>1. TypeOK /\ BlocksOK /\ GapsOK /\ FloorOK /\ TickOK /\ RestOK
    BY TypeParts DEF BaseInv
<1>2. UNCHANGED <<blocks, floor, healed, cursor, horizon, cutoff, pruning, queue, faults>>
      /\ UNCHANGED tickVars /\ lease' = [lease EXCEPT ![g] = NoProc]
    BY DEF LeaseLapses, retention
<1>3. TickOK' /\ RestOK' /\ GapsOK'
    BY <1>1, <1>2 DEF TickOK, RestOK, tickVars, GapsOK
<1>4. TypeOK'
    BY <1>1, <1>2, <1>3, TypeParts DEF BlocksOK, FloorOK
<1>5. Kept
    BY <1>1, <1>2, NothingLost
<1>6. StampedComplete' /\ CursorVerified' /\ floor' <= cutoff'
    BY <1>2, <1>4, <1>5, ProofsStay DEF BaseInv
<1>7. ASSUME NEW q \in Procs, Holding(q)
      PROVE  lease'[gap[q]] = q
    <2>1. lease[gap[q]] = q /\ gap[q] \in Gaps
        BY <1>7 DEF BaseInv, BaseProc, Leased, Placed, Holding, Busy
    <2>2. gap[q] # g
        BY <1>7, <2>1 DEF LeaseLapses, Holding, Busy
    <2> QED
        BY <1>1, <1>2, <2>1, <2>2 DEF GapsOK
<1>8. \A q \in Procs : LeasesStay(q)
    BY <1>7 DEF LeasesStay
<1> QED
    BY <1>2, <1>4, <1>5, <1>6, <1>8, BaseEnv

LEMMA RetentionRunsBase ==
    ASSUME BaseInv, NEW c \in Cutoffs, RetentionRuns(c)
    PROVE  BaseInv' /\ Kept
<1>1. TypeOK /\ BlocksOK /\ GapsOK /\ FloorOK /\ TickOK /\ RestOK
    BY TypeParts DEF BaseInv
<1>2. UNCHANGED <<blocks, healed, cursor, lease, horizon, queue>> /\ UNCHANGED tickVars
      /\ cutoff' = c /\ pruning' = TRUE /\ cutoff <= c
    <2>1. cutoff \in Nat /\ c \in Nat
        BY <1>1, Numbers, Bounds
    <2> QED
        BY <2>1 DEF RetentionRuns
<1>3. floor' = floor \/ floor' = Larger(floor, c)
    BY DEF RetentionRuns
<1>4. floor' <= c /\ floor' \in Cutoffs \cup {0}
    <2>1. floor \in Nat /\ cutoff \in Nat /\ c \in Nat /\ floor <= cutoff /\ floor \in Cutoffs \cup {0}
        BY <1>1, Numbers, Bounds DEF BaseInv, FloorOK
    <2> QED
        BY <1>2, <1>3, <2>1 DEF Larger
<1>5. RestOK'
    BY <1>1, <1>2, FaultCounted DEF RestOK, RetentionRuns
<1>6. TypeOK'
    <2>1. TickOK' /\ FloorOK'
        BY <1>1, <1>2, <1>4 DEF TickOK, tickVars, FloorOK
    <2> QED
        BY <1>1, <1>2, <1>5, <2>1, TypeParts DEF BlocksOK, GapsOK
<1>7. Kept
    BY <1>1, <1>2, Numbers DEF Kept
<1>8. StampedComplete' /\ CursorVerified' /\ floor' <= cutoff'
    BY <1>2, <1>4, <1>6, <1>7, ProofsStay
<1>9. \A q \in Procs : LeasesStay(q)
    BY <1>2 DEF BaseInv, BaseProc, Leased, LeasesStay
<1> QED
    BY <1>2, <1>6, <1>7, <1>8, <1>9, BaseEnv

LEMMA PruneBase ==
    ASSUME BaseInv, NEW n \in Heights, Prune(n)
    PROVE  BaseInv' /\ Kept
<1>1. TypeOK /\ BlocksOK /\ GapsOK /\ FloorOK /\ TickOK /\ RestOK
    BY TypeParts DEF BaseInv
<1>2. /\ UNCHANGED <<floor, healed, cursor, lease, horizon, cutoff, pruning, queue, faults>>
      /\ UNCHANGED tickVars /\ n < cutoff
      /\ blocks' = [blocks EXCEPT ![n] = IF @ = "full" THEN "partial" ELSE "absent"]
    BY DEF Prune, retention
<1>3. TickOK' /\ RestOK' /\ BlocksOK'
    BY <1>1, <1>2 DEF TickOK, RestOK, tickVars, BlocksOK
<1>4. TypeOK'
    BY <1>1, <1>2, <1>3, TypeParts DEF GapsOK, FloorOK
<1>5. Kept
    <2>1. cutoff \in Nat /\ n \in Nat /\ \A m \in Heights : m \in Nat
        BY <1>1, Numbers, Bounds
    <2>2. \A m \in Heights : m >= cutoff => blocks'[m] = blocks[m]
        BY <1>1, <1>2, <2>1 DEF BlocksOK
    <2>3. \A g \in Gaps : cursor[g] <= cursor'[g]
        BY <1>1, <1>2, Numbers
    <2> QED
        BY <1>2, <2>1, <2>2, <2>3 DEF Kept
<1>6. StampedComplete' /\ CursorVerified' /\ floor' <= cutoff'
    BY <1>2, <1>4, <1>5, ProofsStay DEF BaseInv
<1>7. \A q \in Procs : LeasesStay(q)
    BY <1>2 DEF BaseInv, BaseProc, Leased, LeasesStay
<1> QED
    BY <1>2, <1>4, <1>5, <1>6, <1>7, BaseEnv

LEMMA ClockBase ==
    ASSUME BaseInv, RetentionEnds \/ HorizonMoves
    PROVE  BaseInv' /\ Kept
<1>1. TypeOK /\ BlocksOK /\ GapsOK /\ FloorOK /\ TickOK /\ RestOK
    BY TypeParts DEF BaseInv
<1>2. UNCHANGED <<blocks, floor, healed, cursor, lease, cutoff, queue, faults>> /\ UNCHANGED tickVars
    BY DEF RetentionEnds, HorizonMoves, dbVars, retention
<1>3. /\ horizon' = horizon \/ (horizon <= MaxHeight /\ horizon' = horizon + 1)
      /\ pruning' \in BOOLEAN
    BY <1>1 DEF RetentionEnds, HorizonMoves, dbVars, retention, FloorOK
<1>4. horizon' \in FirstHorizon..Larger(FirstHorizon, MaxHeight + 1)
    <2>1. FirstHorizon \in Nat /\ MaxHeight \in Nat
        BY BoundAssumption, Bounds
    <2> QED
        BY <1>1, <1>3, <2>1 DEF FloorOK, Larger
<1>5. TickOK' /\ RestOK' /\ FloorOK'
    BY <1>1, <1>2, <1>3, <1>4 DEF TickOK, RestOK, tickVars, FloorOK
<1>6. TypeOK'
    BY <1>1, <1>2, <1>5, TypeParts DEF BlocksOK, GapsOK
<1>7. Kept
    BY <1>1, <1>2, NothingLost
<1>8. StampedComplete' /\ CursorVerified' /\ floor' <= cutoff'
    BY <1>2, <1>6, <1>7, ProofsStay DEF BaseInv
<1>9. \A q \in Procs : LeasesStay(q)
    BY <1>2 DEF BaseInv, BaseProc, Leased, LeasesStay
<1> QED
    BY <1>2, <1>6, <1>7, <1>8, <1>9, BaseEnv

(***************************************************************************)
(* The ways in which a tick returns without a write.                       *)
(***************************************************************************)
Leaves(p) ==
    \/ ClaimLost(p) \/ LeaseExpiring(p) \/ YieldsToLag(p) \/ RowIsGone(p) \/ BlockFails(p)
    \/ FlushTimesOut(p) \/ StatementFails(p) \/ Crash(p)

LEMMA LeavesReturns ==
    ASSUME BaseInv, NEW p \in Procs, Leaves(p)
    PROVE  EndTick(p) /\ UNCHANGED <<dbVars, retention>> /\ RestOK'
<1>1. RestOK
    BY TypeParts DEF BaseInv
<1>2. EndTick(p) /\ UNCHANGED <<dbVars, retention>>
    BY DEF Leaves, ClaimLost, LeaseExpiring, YieldsToLag, RowIsGone, BlockFails, FlushTimesOut,
           StatementFails, Crash
<1>3. (queue' = queue \/ queue' = [queue EXCEPT ![p] = {}]) /\ (faults' = faults \/ Fault)
    BY DEF Leaves, ClaimLost, LeaseExpiring, YieldsToLag, RowIsGone, BlockFails, FlushTimesOut,
           StatementFails, Crash
<1>4. faults' \in 0..MaxFaults
    BY <1>1, <1>3, FaultCounted DEF RestOK
<1>5. queue' \in [Procs -> SUBSET Heights]
    BY <1>1, <1>3 DEF RestOK
<1> QED
    BY <1>2, <1>4, <1>5 DEF RestOK

LEMMA BaseInit ==
    ASSUME Init
    PROVE  BaseInv
<1>1. TypeOK
    <2>1. BlocksOK
        BY DEF Init, BlocksOK
    <2>2. GapsOK
        <3>1. \A g \in Gaps : g - 1 \in 0..MaxHeight
            BY Bounds
        <3> QED
            BY <3>1 DEF Init, GapsOK
    <2>3. FloorOK
        <3>1. FirstHorizon \in Nat /\ MaxHeight \in Nat
            BY BoundAssumption, Bounds
        <3>2. FirstHorizon \in FirstHorizon..Larger(FirstHorizon, MaxHeight + 1)
            BY <3>1 DEF Larger
        <3> QED
            BY <3>2 DEF Init, FloorOK
    <2>4. TickOK
        <3>1. NoWindow \in Window /\ "idle" \in Steps
            BY Bounds DEF NoWindow, Window, Steps
        <3> HIDE DEF NoWindow, Window, Steps
        <3> QED
            BY <3>1, Zenon DEF Init, TickOK
    <2>5. RestOK
        BY BoundAssumption DEF Init, RestOK
    <2> QED
        BY <2>1, <2>2, <2>3, <2>4, <2>5, TypeParts
<1>2. floor <= cutoff /\ StampedComplete
    BY DEF Init, StampedComplete
<1>3. CursorVerified
    <2>1. \A g \in Gaps : cursor[g] = g - 1 /\ g \in Nat
        BY Bounds DEF Init
    <2>2. \A g \in Gaps : g..cursor[g] = {}
        BY <2>1
    <2> QED
        BY <2>2 DEF CursorVerified
<1>4. \A p \in Procs : BaseProc(p)
    BY DEF Init, BaseProc, Placed, WindowPlaced, Leased, HasHead, VerifiedWindow, Busy, Holding,
           Indexing
<1> QED
    BY <1>1, <1>2, <1>3, <1>4 DEF BaseInv

LEMMA BaseStep ==
    ASSUME BaseInv, [Next]_vars
    PROVE  BaseInv'
<1>1. CASE UNCHANGED vars
    <2>1. UNCHANGED tickVars /\ UNCHANGED <<blocks, floor, healed, cursor, lease, horizon, cutoff,
                                            pruning, queue, faults>>
        BY <1>1 DEF vars, dbVars, retention
    <2>2. TypeOK'
        BY <2>1 DEF BaseInv, TypeOK, tickVars
    <2>3. Kept
        BY <2>1, NothingLost DEF BaseInv
    <2>4. \A q \in Procs : LeasesStay(q)
        BY <2>1 DEF BaseInv, BaseProc, Leased, LeasesStay
    <2> QED
        BY <2>1, <2>2, <2>3, <2>4, ProofsStay, BaseEnv DEF BaseInv
<1>2. ASSUME NEW p \in Procs, Leaves(p)
      PROVE  BaseInv'
    BY <1>2, LeavesReturns, Returns
<1>3. ASSUME NEW p \in Procs, Tick(p)
      PROVE  BaseInv'
    <2>1. CASE IdleTick(p)
        BY <1>1, <2>1 DEF IdleTick
    <2>2. CASE Nominate(p) \/ Claim(p)
        BY <2>2, NominateBase, ClaimBase
    <2>3. CASE FindMissing(p) \/ StartBlock(p) \/ FlushDone(p)
        BY <2>3, FindMissingBase, StartBlockBase, FlushDoneBase
    <2>4. CASE InsertRow(p) \/ InsertTransactions(p) \/ Enqueue(p)
        BY <2>4, InsertRowBase, InsertTransactionsBase, EnqueueBase
    <2>5. CASE Verify(p) \/ Advance(p) \/ Stamp(p)
        BY <2>5, VerifyBase, AdvanceBase, StampBase
    <2>6. CASE ClaimLost(p) \/ LeaseExpiring(p) \/ RowIsGone(p)
        BY <1>2, <2>6 DEF Leaves
    <2> QED
        BY <1>3, <2>1, <2>2, <2>3, <2>4, <2>5, <2>6 DEF Tick
<1>4. ASSUME NEW p \in Procs, RunsLate(p) \/ Drain(p)
      PROVE  BaseInv'
    BY <1>4, RunsLateBase, DrainBase
<1>5. ASSUME NEW g \in Gaps, LeaseLapses(g)
      PROVE  BaseInv'
    BY <1>5, LeaseLapsesBase
<1>6. ASSUME NEW c \in Cutoffs, RetentionRuns(c)
      PROVE  BaseInv'
    BY <1>6, RetentionRunsBase
<1>7. ASSUME NEW n \in Heights, Prune(n)
      PROVE  BaseInv'
    BY <1>7, PruneBase
<1>8. CASE RetentionEnds \/ HorizonMoves
    BY <1>8, ClockBase
<1> QED
    BY <1>1, <1>2, <1>3, <1>4, <1>5, <1>6, <1>7, <1>8 DEF Next, Leaves

-----------------------------------------------------------------------------
(***************************************************************************)
(* Every value keeps its type, every window lies in its range, and only    *)
(* the holder of a lease is inside a block (gap-healer.ts:271-384).        *)
(***************************************************************************)
THEOREM BaseInvariance == Spec => []BaseInv
<1>1. BaseInv /\ [Next]_vars => BaseInv'
    BY BaseStep
<1>2. Init => BaseInv
    BY BaseInit
<1> QED
    BY <1>1, <1>2, PTL DEF Spec

(***************************************************************************)
(* A stamped range is complete where retention keeps it, whatever went     *)
(* wrong before the stamp (gap-healer.ts:396-402, 548-569).                *)
(***************************************************************************)
THEOREM StampedSafe == Spec => []StampedComplete
<1>1. BaseInv => StampedComplete
    BY DEF BaseInv
<1> QED
    BY <1>1, BaseInvariance, PTL

(***************************************************************************)
(* The durable cursor has only complete or quarantined blocks behind it    *)
(* (gap-healer.ts:361-366, 514-533).                                       *)
(***************************************************************************)
THEOREM CursorSafe == Spec => []CursorVerified
<1>1. BaseInv => CursorVerified
    BY DEF BaseInv
<1> QED
    BY <1>1, BaseInvariance, PTL

-----------------------------------------------------------------------------
(***************************************************************************)
(* Single writing.  It rests on the oldest range being the one that is     *)
(* nominated, and so on no range lying inside a longer one that is too     *)
(* recent to be nominated.                                                 *)
(***************************************************************************)
NoNesting == \A g, h \in Gaps : g <= h => GapTo[g] <= GapTo[h]

\* What is written above the cutoff is the block that p is at.
Touches(p) ==
    \A n \in Heights : n >= cutoff' =>
        blocks'[n] = blocks[n] \/ (pc[p] \in Indexing /\ n = Head(p))

\* p does not get a list, or one that has nothing of another's.
ListFits(p) ==
    Live(p)' =>
        \/ Live(p) /\ todo'[p] \subseteq todo[p]
        \/ \A q \in Procs : q # p /\ Live(q) => \A n \in todo'[p] \cap todo[q] : n < cutoff'

LEMMA OlderStays ==
    ASSUME TypeOK, TypeOK', NEW q \in Procs, OlderDone(q), Kept,
           pc'[q] # "idle" => pc[q] # "idle" /\ gap'[q] = gap[q]
    PROVE  OlderDone(q)'
<1> SUFFICES ASSUME pc'[q] # "idle", NEW g \in Gaps, g < gap[q], NEW n \in g..GapTo[g],
                    n >= cutoff'
             PROVE  n \in Poison \/ blocks'[n] # "absent"
    BY DEF OlderDone
<1>1. g \in Nat /\ n \in Heights
    BY Bounds, RangeHeights
<1>2. n >= cutoff
    BY <1>1, Numbers, LaterNumbers, Bounds DEF Kept
<1>3. n \in Poison \/ blocks[n] # "absent"
    BY <1>2 DEF OlderDone
<1> QED
    BY <1>1, <1>3 DEF Kept

LEMMA HeadStays ==
    ASSUME NEW q \in Procs, todo'[q] = todo[q]
    PROVE  Head(q)' = Head(q)
    BY Zenon DEF Head

(***************************************************************************)
(* The list of another process is not written to.                          *)
(***************************************************************************)
LEMMA UntouchedStays ==
    ASSUME WriteInv, TypeOK', NEW p \in Procs, NEW q \in Procs, p # q, SameTick(q), Kept,
           Touches(p)
    PROVE  Untouched(q)'
<1> SUFFICES ASSUME Live(q), NEW n \in todo[q], n >= cutoff'
             PROVE  blocks'[n] = "absent" \/ (n = Head(q) /\ Written(q))
    BY HeadStays DEF Untouched, SameTick, Live, Written
<1>1. TypeOK /\ TickOK /\ n \in Heights
    BY TypeParts DEF WriteInv, BaseInv, TickOK
<1>2. n >= cutoff /\ ~(n < cutoff)
    BY <1>1, Numbers, LaterNumbers, Bounds DEF Kept
<1>3. blocks[n] = "absent" \/ (n = Head(q) /\ Written(q))
    BY <1>2 DEF WriteInv, Untouched
<1>4. ~(pc[p] \in Indexing /\ n = Head(p))
    <2> SUFFICES ASSUME pc[p] \in Indexing, n = Head(p) PROVE FALSE
        OBVIOUS
    <2>1. n \in todo[p] /\ Live(p)
        BY <1>1, HeadIsFirst DEF WriteInv, BaseInv, BaseProc, HasHead, Live
    <2> QED
        BY <1>2, <2>1 DEF WriteInv, Apart
<1> QED
    BY <1>1, <1>3, <1>4 DEF Touches

LEMMA WriteMoves ==
    ASSUME WriteInv, BaseInv', NEW p \in Procs, OthersStay(p), Kept, Touches(p), ListFits(p),
           OlderDone(p)', Untouched(p)'
    PROVE  WriteInv'
<1>1. TypeOK /\ TypeOK'
    BY DEF WriteInv, BaseInv
<1>2. ASSUME NEW q \in Procs, q # p
      PROVE  OlderDone(q)' /\ Untouched(q)'
    BY <1>1, <1>2, OlderStays, UntouchedStays DEF WriteInv, OthersStay, SameTick
<1>3. ASSUME NEW n \in Heights, n < cutoff
      PROVE  n < cutoff'
    BY <1>1, <1>3, Numbers, LaterNumbers, Bounds DEF Kept
<1>4. \A q \in Procs : todo[q] \subseteq Heights
    BY <1>1, Numbers
<1>5. \A q \in Procs : q # p => (Live(q)' <=> Live(q)) /\ todo'[q] = todo[q]
    BY DEF OthersStay, SameTick, Live
<1>6. ASSUME NEW q \in Procs, q # p
      PROVE  Apart(p, q)' /\ Apart(q, p)'
    <2> SUFFICES ASSUME Live(p)', Live(q), NEW n \in todo'[p] \cap todo[q]
                 PROVE  n < cutoff'
        BY <1>5, <1>6 DEF Apart
    <2>1. CASE Live(p) /\ todo'[p] \subseteq todo[p]
        <3>1. n < cutoff
            BY <1>6, <2>1 DEF WriteInv, Apart
        <3> QED
            BY <1>3, <1>4, <3>1
    <2>2. CASE \A r \in Procs : r # p /\ Live(r) => \A m \in todo'[p] \cap todo[r] : m < cutoff'
        BY <1>6, <2>2
    <2> QED
        BY <2>1, <2>2 DEF ListFits
<1>7. ASSUME NEW q \in Procs, NEW r \in Procs, q # r, q # p, r # p
      PROVE  Apart(q, r)'
    <2> SUFFICES ASSUME Live(q), Live(r), NEW n \in todo[q] \cap todo[r]
                 PROVE  n < cutoff'
        BY <1>5, <1>7 DEF Apart
    <2>1. n < cutoff
        BY <1>7 DEF WriteInv, Apart
    <2> QED
        BY <1>3, <1>4, <2>1
<1>8. \A q, r \in Procs : q # r => Apart(q, r)'
    BY <1>6, <1>7
<1> QED
    BY <1>2, <1>8 DEF WriteInv

(***************************************************************************)
(* A step of p that writes no block and does not get p a list.             *)
(***************************************************************************)
LEMMA WriteQuiet ==
    ASSUME WriteInv, BaseInv', NEW p \in Procs, OthersStay(p), Kept, UNCHANGED <<blocks, cutoff>>,
           pc'[p] # "idle" => pc[p] # "idle" /\ gap'[p] = gap[p],
           Live(p)' => Live(p) /\ todo'[p] \subseteq todo[p] /\ Untouched(p)'
    PROVE  WriteInv'
<1>1. TypeOK /\ TypeOK' /\ OlderDone(p)
    BY DEF WriteInv, BaseInv
<1>2. OlderDone(p)'
    BY <1>1, OlderStays
<1>3. Touches(p) /\ ListFits(p)
    BY DEF Touches, ListFits
<1>4. Untouched(p)'
    BY DEF Untouched, Live
<1> QED
    BY <1>2, <1>3, <1>4, WriteMoves

LEMMA WriteEnv ==
    ASSUME WriteInv, BaseInv', UNCHANGED tickVars, Kept,
           \A n \in Heights : n >= cutoff' => blocks'[n] = blocks[n]
    PROVE  WriteInv'
<1>1. TypeOK /\ TypeOK' /\ TickOK
    BY TypeParts DEF WriteInv, BaseInv
<1>2. \A q \in Procs : SameTick(q)
    BY DEF SameTick, tickVars
<1>3. cutoff \in Nat /\ cutoff' \in Nat /\ \A q \in Procs : todo[q] \subseteq Heights
    BY <1>1, Numbers, LaterNumbers
<1>4. ASSUME NEW n \in Heights
      PROVE  /\ n >= cutoff' => n >= cutoff
             /\ n < cutoff => n < cutoff'
    BY <1>3, Bounds DEF Kept
<1>5. ASSUME NEW q \in Procs
      PROVE  OlderDone(q)' /\ Untouched(q)'
    <2>1. OlderDone(q)'
        BY <1>1, <1>2, OlderStays DEF WriteInv, SameTick
    <2>2. Untouched(q)'
        <3> SUFFICES ASSUME Live(q), NEW n \in todo[q], n >= cutoff'
                     PROVE  blocks'[n] = "absent" \/ (n = Head(q) /\ Written(q))
            BY <1>2, HeadStays DEF Untouched, SameTick, Live, Written
        <3> QED
            BY <1>3, <1>4 DEF WriteInv, Untouched
    <2> QED
        BY <2>1, <2>2
<1>6. ASSUME NEW q \in Procs, NEW r \in Procs, q # r
      PROVE  Apart(q, r)'
    <2> SUFFICES ASSUME Live(q), Live(r), NEW n \in todo[q] \cap todo[r]
                 PROVE  n < cutoff'
        BY <1>2, <1>6 DEF Apart, SameTick, Live
    <2>1. n < cutoff
        BY <1>6 DEF WriteInv, Apart
    <2> QED
        BY <1>3, <1>4, <2>1
<1> QED
    BY <1>5, <1>6 DEF WriteInv

(***************************************************************************)
(* Whatever is older than the nominated range has nothing left to index.   *)
(***************************************************************************)
LEMMA OlderThanOldest ==
    ASSUME NoNesting, BaseInv, Candidates # {}, NEW g \in Gaps, g < Oldest,
           NEW n \in g..GapTo[g], n >= cutoff
    PROVE  n \in Poison \/ blocks[n] # "absent"
<1>1. Oldest \in Gaps /\ Eligible(Oldest) /\ ~Eligible(g)
    <2>1. Oldest \in Candidates /\ Oldest \in Gaps /\ \A h \in Candidates : Oldest <= h
        BY OldestIsFirst
    <2>2. g \in Nat /\ Oldest \in Nat
        BY <2>1, Bounds
    <2>3. g \notin Candidates
        BY <2>1, <2>2
    <2> QED
        BY <2>1, <2>3 DEF Candidates
<1>2. TypeOK /\ g \in Nat /\ Oldest \in Nat /\ n \in Nat /\ g <= n /\ n <= GapTo[g] /\ n \in Heights
      /\ GapTo[g] \in Nat /\ GapTo[Oldest] \in Nat
    BY <1>1, Bounds, RangeHeights DEF BaseInv
<1>3. floor \in Nat /\ cutoff \in Nat /\ horizon \in Nat /\ cursor[g] \in Nat /\ floor <= cutoff
    BY <1>2, Numbers DEF BaseInv
<1>4. CASE g \in healed
    BY <1>4 DEF BaseInv, StampedComplete
<1>5. floor = 0 \/ GapTo[g] >= floor
    BY <1>2, <1>3
<1>6. GapTo[g] < horizon
    <2>1. GapTo[Oldest] < horizon
        BY <1>1 DEF Eligible, InScope
    <2>2. GapTo[g] <= GapTo[Oldest]
        BY <1>1, <1>2 DEF NoNesting
    <2> QED
        BY <1>2, <1>3, <2>1, <2>2
<1>7. CASE g \notin healed
    <2>1. Executable(g) = {}
        BY <1>1, <1>5, <1>6, <1>7 DEF Eligible, InScope, Unfinishable
    <2>2. CASE n <= cursor[g]
        <3>1. n \in g..cursor[g]
            BY <1>2, <1>3, <2>2
        <3> QED
            BY <3>1 DEF BaseInv, CursorVerified
    <2>3. CASE cursor[g] < n
        <3>1. n \in Larger(Larger(g, floor), cursor[g] + 1)..GapTo[g]
            BY <1>2, <1>3, <2>3 DEF Larger
        <3> QED
            BY <2>1, <3>1 DEF Executable
    <2> QED
        BY <1>2, <1>3, <2>2, <2>3
<1> QED
    BY <1>4, <1>7

LEMMA NominateWrite ==
    ASSUME NoNesting, WriteInv, NEW p \in Procs, Nominate(p)
    PROVE  WriteInv'
<1>1. BaseInv /\ TypeOK /\ TickOK
    BY TypeParts DEF WriteInv, BaseInv
<1>2. BaseInv'
    BY <1>1, NominateBase
<1>3. UNCHANGED <<blocks, cursor, cutoff>>
    BY DEF Nominate, dbVars, retention
<1>4. Kept
    BY <1>1, <1>3, NothingLost
<1>5. OthersStay(p) /\ pc'[p] = "nominated" /\ gap'[p] = Oldest
    <2> DEFINE new == [window EXCEPT ![p].verify = Larger(Oldest, floor)]
    <2>1. window' = new /\ \A q \in Procs : q # p => new[q] = window[q]
        BY <1>1 DEF Nominate, TickOK
    <2> HIDE DEF new
    <2> QED
        BY <1>1, <2>1 DEF Nominate, Goto, TickOK, OthersStay, SameTick
<1>6. OlderDone(p)'
    BY <1>1, <1>3, <1>5, OlderThanOldest DEF OlderDone, Nominate
<1>7. ~Live(p)'
    BY <1>5 DEF Live, Indexing
<1>8. Touches(p) /\ ListFits(p) /\ Untouched(p)'
    BY <1>3, <1>7 DEF Touches, ListFits, Untouched, Live
<1> QED
    BY <1>2, <1>4, <1>5, <1>6, <1>8, WriteMoves

(***************************************************************************)
(* The list of a holder has nothing of another holder's: one of the two    *)
(* ranges is older, and has nothing left to index.                         *)
(***************************************************************************)
LEMMA FindMissingWrite ==
    ASSUME WriteInv, NEW p \in Procs, FindMissing(p)
    PROVE  WriteInv'
<1>1. BaseInv /\ TypeOK /\ TickOK /\ BaseProc(p) /\ OlderDone(p) /\ pc[p] = "claimed" /\ Busy(p)
    BY TypeParts DEF WriteInv, BaseInv, FindMissing, Busy
<1>2. BaseInv'
    BY <1>1, FindMissingBase
<1>3. UNCHANGED <<blocks, cursor, cutoff>>
    BY DEF FindMissing, dbVars, retention
<1>4. Kept
    BY <1>1, <1>3, NothingLost
<1> DEFINE list == {n \in InWindow(p) : n \notin Poison /\ blocks[n] = "absent"}
<1>5. /\ OthersStay(p) /\ pc'[p] = "next" /\ gap'[p] = gap[p] /\ late'[p] = late[p]
      /\ todo'[p] = list
    <2>1. todo' = [todo EXCEPT ![p] = list]
        BY DEF FindMissing
    <2> HIDE DEF list
    <2> QED
        BY <1>1, <2>1 DEF FindMissing, Goto, TickOK, OthersStay, SameTick
<1>6. OlderDone(p)'
    BY <1>1, <1>2, <1>4, <1>5, OlderStays DEF BaseInv
<1>7. Untouched(p)'
    BY <1>3, <1>5 DEF Untouched
<1>8. ListFits(p)
    <2> SUFFICES ASSUME ~late[p], NEW q \in Procs, q # p, Live(q), NEW n \in list \cap todo[q],
                        n >= cutoff
                 PROVE  FALSE
        <3>1. cutoff \in Nat /\ \A q \in Procs : todo[q] \subseteq Nat
            BY <1>1, Numbers, Bounds
        <3>2. Live(p)' => ~late[p]
            BY <1>5 DEF Live, Indexing
        <3> QED
            BY <1>3, <1>5, <3>1, <3>2 DEF ListFits
    <2>1. BaseProc(q) /\ Busy(q) /\ Holding(q) /\ pc[q] # "claimed" /\ OlderDone(q)
        BY DEF WriteInv, BaseInv, Live, Busy, Holding, Indexing
    <2>2. gap[p] \in Gaps /\ gap[q] \in Gaps
          /\ n \in gap[p]..GapTo[gap[p]] /\ n \in gap[q]..GapTo[gap[q]]
        <3>1. todo[q] \subseteq InWindow(q)
            BY <2>1 DEF BaseProc, WindowPlaced
        <3> QED
            BY <1>1, <2>1, <3>1, WindowHeights DEF BaseProc
    <2>3. gap[p] # gap[q]
        BY <1>1, <2>1 DEF BaseProc, Leased, Holding
    <2>4. blocks[n] = "absent" /\ n \notin Poison
        OBVIOUS
    <2>5. CASE gap[p] < gap[q]
        BY <2>1, <2>2, <2>4, <2>5 DEF OlderDone, Busy
    <2>6. CASE gap[q] < gap[p]
        BY <1>1, <2>2, <2>4, <2>6 DEF OlderDone, Busy
    <2> QED
        BY <2>2, <2>3, <2>5, <2>6, Bounds
<1>9. Touches(p)
    BY <1>3 DEF Touches
<1> QED
    BY <1>2, <1>4, <1>5, <1>6, <1>7, <1>8, <1>9, WriteMoves

LEMMA InsertWrite ==
    ASSUME WriteInv, NEW p \in Procs, InsertRow(p) \/ InsertTransactions(p)
    PROVE  WriteInv'
<1>1. BaseInv /\ TypeOK /\ TickOK /\ BlocksOK /\ OlderDone(p) /\ Untouched(p)
    BY TypeParts DEF WriteInv, BaseInv
<1>2. /\ BaseInv' /\ TypeOK' /\ Kept /\ OthersStay(p) /\ pc'[p] \in {"transactions", "decode"}
    BY <1>1, InsertRowBase, InsertTransactionsBase
<1>3. /\ gap' = gap /\ todo' = todo /\ late' = late /\ cutoff' = cutoff
      /\ pc[p] \in {"fetch", "transactions"}
    BY DEF InsertRow, InsertTransactions, retention
<1>4. Live(p) /\ pc[p] \in Indexing /\ pc[p] # "idle"
    BY <1>3 DEF Live, Indexing
<1> DEFINE h == Head(p)
<1>5. \A n \in Heights : n # h => blocks'[n] = blocks[n]
    <2>1. \/ blocks' = [blocks EXCEPT ![h] = IF @ = "absent" THEN "partial" ELSE @]
          \/ blocks' = [blocks EXCEPT ![h] = "full"]
        BY DEF InsertRow, InsertTransactions
    <2> HIDE DEF h
    <2> QED
        BY <1>1, <2>1 DEF BlocksOK
<1>6. Touches(p)
    BY <1>4, <1>5 DEF Touches
<1>7. ListFits(p)
    BY <1>3, <1>4 DEF ListFits
<1>8. OlderDone(p)'
    BY <1>1, <1>2, <1>3, <1>4, OlderStays
<1>9. Untouched(p)'
    <2>1. Head(p)' = h /\ Written(p)'
        BY <1>2, <1>3, HeadStays DEF Written
    <2>2. \A n \in todo[p] : n \in Heights
        BY <1>1 DEF TickOK
    <2>3. ASSUME NEW n \in todo[p], n >= cutoff, n # h
          PROVE  blocks[n] = "absent"
        BY <1>1, <1>4, <2>3 DEF Untouched
    <2> HIDE DEF h
    <2> QED
        BY <1>3, <1>5, <2>1, <2>2, <2>3 DEF Untouched
<1> QED
    BY <1>2, <1>6, <1>7, <1>8, <1>9, WriteMoves

LEMMA EnqueueWrite ==
    ASSUME WriteInv, NEW p \in Procs, Enqueue(p)
    PROVE  WriteInv'
<1>1. BaseInv /\ TypeOK /\ TickOK /\ Untouched(p)
    BY TypeParts DEF WriteInv, BaseInv
<1>2. BaseInv' /\ pc[p] \in Indexing /\ pc[p] # "idle" /\ Live(p)
    BY <1>1, EnqueueBase DEF Enqueue, Indexing, Live
<1>3. UNCHANGED <<blocks, cursor, cutoff>>
    BY DEF Enqueue, dbVars, retention
<1>4. Kept
    BY <1>1, <1>3, NothingLost
<1> DEFINE h == Head(p)
<1>5. OthersStay(p) /\ gap'[p] = gap[p] /\ todo'[p] = todo[p] \ {h}
    <2>1. todo' = [todo EXCEPT ![p] = @ \ {h}]
        BY DEF Enqueue
    <2> HIDE DEF h
    <2> QED
        BY <1>1, <2>1 DEF Enqueue, Goto, TickOK, OthersStay, SameTick
<1>6. Untouched(p)'
    <2>1. ASSUME NEW n \in todo'[p], n >= cutoff
          PROVE  blocks[n] = "absent"
        BY <1>1, <1>2, <1>5, <2>1 DEF Untouched
    <2> HIDE DEF h
    <2> QED
        BY <1>3, <2>1 DEF Untouched
<1> HIDE DEF h
<1> QED
    BY <1>2, <1>3, <1>4, <1>5, <1>6, WriteQuiet

LEMMA StartBlockWrite ==
    ASSUME WriteInv, NEW p \in Procs, StartBlock(p)
    PROVE  WriteInv'
<1>1. BaseInv /\ TypeOK /\ TickOK /\ Untouched(p) /\ "fetch" \in Steps
    BY TypeParts DEF WriteInv, BaseInv, Steps, Indexing
<1>2. BaseInv' /\ pc[p] # "idle" /\ Live(p) /\ ~Written(p)
    BY <1>1, StartBlockBase DEF StartBlock, MayStart, Live, Written, Indexing
<1>3. UNCHANGED <<blocks, cursor, cutoff>> /\ UNCHANGED <<gap, window, todo, late>>
      /\ Goto(p, "fetch")
    BY DEF StartBlock, dbVars, retention
<1>4. Kept
    BY <1>1, <1>3, NothingLost
<1>5. OthersStay(p) /\ gap'[p] = gap[p] /\ todo'[p] = todo[p]
    BY <1>1, <1>3, GotoStays
<1>6. Untouched(p)'
    BY <1>1, <1>2, <1>3, <1>5 DEF Untouched
<1> QED
    BY <1>2, <1>3, <1>4, <1>5, <1>6, WriteQuiet

(***************************************************************************)
(* The steps after which p has no list.                                    *)
(***************************************************************************)
LEMMA Unlisted ==
    ASSUME WriteInv, BaseInv', NEW p \in Procs,
           Claim(p) \/ Verify(p) \/ Advance(p) \/ Stamp(p) \/ FlushDone(p) \/ Leaves(p)
    PROVE  WriteInv'
<1>1. BaseInv /\ TypeOK /\ TickOK
    BY TypeParts DEF WriteInv, BaseInv
<1>2. UNCHANGED <<blocks, cutoff>>
    BY <1>1, LeavesReturns DEF Claim, Verify, Advance, Stamp, FlushDone, dbVars, retention
<1>3. Kept
    <2>1. CASE Advance(p) \/ Stamp(p)
        BY <1>1, <2>1, AdvanceBase, StampBase
    <2>2. CASE Claim(p) \/ Verify(p) \/ FlushDone(p) \/ Leaves(p)
        <3>1. UNCHANGED <<blocks, cursor, cutoff>>
            BY <1>1, <2>2, LeavesReturns DEF Claim, Verify, FlushDone, dbVars, retention
        <3> QED
            BY <1>1, <3>1, NothingLost
    <2> QED
        BY <2>1, <2>2
<1>4. CASE EndTick(p)
    <2>1. OthersStay(p) /\ pc'[p] = "idle"
        BY <1>1, <1>4, TickEnds
    <2>2. ~Live(p)'
        BY <2>1 DEF Live, Indexing
    <2> QED
        BY <1>2, <1>3, <2>1, <2>2, WriteQuiet
<1>5. CASE ~EndTick(p)
    <2>1. /\ pc[p] # "idle" /\ UNCHANGED <<gap, todo, late>>
          /\ \E s \in {"claimed", "verify", "advance", "stamp"} : Goto(p, s)
        BY <1>1, <1>5, LeavesReturns DEF Claim, Verify, Advance, Stamp, FlushDone
    <2>2. window' = window \/ \E x, y : window' = [window EXCEPT ![p].from = x, ![p].to = y]
        BY <1>1, <1>5, LeavesReturns DEF Claim, Verify, Advance, Stamp, FlushDone
    <2>3. \A q \in Procs : q # p => window'[q] = window[q]
        BY <1>1, <2>2 DEF TickOK
    <2>4. /\ OthersStay(p) /\ pc'[p] \in {"claimed", "verify", "advance", "stamp"}
          /\ gap'[p] = gap[p]
        BY <1>1, <2>1, <2>3 DEF Goto, TickOK, OthersStay, SameTick
    <2>5. ~Live(p)'
        BY <2>4 DEF Live, Indexing
    <2> QED
        BY <1>2, <1>3, <2>1, <2>4, <2>5, WriteQuiet
<1> QED
    BY <1>4, <1>5

LEMMA RunsLateWrite ==
    ASSUME WriteInv, NEW p \in Procs, RunsLate(p)
    PROVE  WriteInv'
<1>1. BaseInv /\ TypeOK /\ TickOK /\ Untouched(p)
    BY TypeParts DEF WriteInv, BaseInv
<1>2. BaseInv' /\ pc[p] # "idle"
    BY <1>1, RunsLateBase DEF RunsLate
<1>3. UNCHANGED <<blocks, cursor, cutoff>>
    BY DEF RunsLate, dbVars, retention
<1>4. Kept
    BY <1>1, <1>3, NothingLost
<1>5. OthersStay(p) /\ pc'[p] = pc[p] /\ gap'[p] = gap[p] /\ todo'[p] = todo[p] /\ late'[p]
    BY <1>1 DEF RunsLate, TickOK, OthersStay, SameTick
<1>6. Live(p)' => Live(p)
    BY <1>5 DEF Live
<1>7. Live(p)' => Untouched(p)'
    BY <1>1, <1>3, <1>5, <1>6, HeadStays DEF Untouched, Written
<1> QED
    BY <1>2, <1>3, <1>4, <1>5, <1>6, <1>7, WriteQuiet

LEMMA EnvWrite ==
    ASSUME WriteInv,
           \/ \E p \in Procs : Drain(p)
           \/ \E g \in Gaps : LeaseLapses(g)
           \/ \E c \in Cutoffs : RetentionRuns(c)
           \/ \E n \in Heights : Prune(n)
           \/ RetentionEnds \/ HorizonMoves
    PROVE  WriteInv'
<1>1. BaseInv /\ TypeOK /\ BlocksOK
    BY TypeParts DEF WriteInv, BaseInv
<1>2. BaseInv' /\ Kept
    BY <1>1, DrainBase, LeaseLapsesBase, RetentionRunsBase, PruneBase, ClockBase
<1>3. UNCHANGED tickVars
    BY DEF Drain, LeaseLapses, RetentionRuns, Prune, RetentionEnds, HorizonMoves
<1>4. ASSUME NEW m \in Heights, m >= cutoff'
      PROVE  blocks'[m] = blocks[m]
    <2>1. ASSUME NEW n \in Heights, Prune(n)
          PROVE  blocks'[m] = blocks[m]
        <3>1. cutoff' = cutoff /\ n < cutoff
              /\ blocks' = [blocks EXCEPT ![n] = IF @ = "full" THEN "partial" ELSE "absent"]
            BY <2>1 DEF Prune, retention
        <3>2. m # n
            BY <1>1, <1>4, <3>1, Numbers, Bounds
        <3> QED
            BY <1>1, <3>1, <3>2 DEF BlocksOK
    <2> QED
        BY <2>1 DEF Drain, LeaseLapses, RetentionRuns, RetentionEnds, HorizonMoves, dbVars
<1> QED
    BY <1>2, <1>3, <1>4, WriteEnv

LEMMA WriteStep ==
    ASSUME NoNesting, WriteInv, [Next]_vars
    PROVE  WriteInv'
<1>0. BaseInv /\ BaseInv' /\ TypeOK
    BY BaseStep DEF WriteInv, BaseInv
<1>1. CASE UNCHANGED vars
    <2>1. UNCHANGED tickVars /\ UNCHANGED <<blocks, cursor, cutoff>>
        BY <1>1 DEF vars, dbVars, retention
    <2> QED
        BY <1>0, <2>1, NothingLost, WriteEnv
<1>2. ASSUME NEW p \in Procs, Leaves(p) \/ RunsLate(p)
      PROVE  WriteInv'
    BY <1>0, <1>2, Unlisted, RunsLateWrite
<1>3. ASSUME NEW p \in Procs, Tick(p)
      PROVE  WriteInv'
    <2>1. CASE IdleTick(p)
        BY <1>1, <2>1 DEF IdleTick
    <2>2. CASE Nominate(p) \/ FindMissing(p)
        BY <2>2, NominateWrite, FindMissingWrite
    <2>3. CASE StartBlock(p) \/ InsertRow(p) \/ InsertTransactions(p) \/ Enqueue(p)
        BY <2>3, StartBlockWrite, InsertWrite, EnqueueWrite
    <2>4. CASE Claim(p) \/ FlushDone(p) \/ Verify(p) \/ Advance(p) \/ Stamp(p)
        BY <1>0, <2>4, Unlisted
    <2>5. CASE ClaimLost(p) \/ LeaseExpiring(p) \/ RowIsGone(p)
        BY <1>2, <2>5 DEF Leaves
    <2> QED
        BY <1>3, <2>1, <2>2, <2>3, <2>4, <2>5 DEF Tick
<1> QED
    BY <1>1, <1>2, <1>3, EnvWrite DEF Next, Leaves

LEMMA WriteInvIsFirstWriteOnly ==
    ASSUME WriteInv
    PROVE  FirstWriteOnly
<1> SUFFICES ASSUME NEW p \in Procs, pc[p] \in Indexing, Head(p) >= cutoff
             PROVE  /\ pc[p] = "fetch" => blocks[Head(p)] = "absent"
                    /\ \A q \in Procs \ {p} : pc[q] \in Indexing => Head(q) # Head(p)
    BY DEF FirstWriteOnly
<1>1. TypeOK /\ TickOK
    BY TypeParts DEF WriteInv, BaseInv
<1>2. \A q \in Procs : pc[q] \in Indexing =>
          Live(q) /\ Head(q) \in todo[q] /\ Head(q) \in Heights
    BY <1>1, HeadIsFirst DEF WriteInv, BaseInv, BaseProc, HasHead, Live
<1>3. pc[p] = "fetch" => blocks[Head(p)] = "absent"
    BY <1>2 DEF WriteInv, Untouched, Written
<1>4. ~(Head(p) < cutoff)
    <2>1. Head(p) \in Nat /\ cutoff \in Nat
        BY <1>1, <1>2, Numbers, Bounds
    <2> QED
        BY <2>1
<1>5. \A q \in Procs \ {p} : pc[q] \in Indexing => Head(q) # Head(p)
    BY <1>2, <1>4 DEF WriteInv, Apart
<1> QED
    BY <1>3, <1>5

(***************************************************************************)
(* When no range lies inside a longer one, a height that retention keeps   *)
(* is indexed by one process at a time, and only when it has no row        *)
(* (gap-healer.ts:170-181, 313-322, 406-424).                              *)
(***************************************************************************)
THEOREM FirstWriteSafe ==
    ASSUME NoNesting
    PROVE  Spec => []FirstWriteOnly
<1>1. Init => WriteInv
    <2> SUFFICES ASSUME Init PROVE WriteInv
        OBVIOUS
    <2>1. BaseInv
        BY BaseInit
    <2>2. \A p \in Procs : OlderDone(p) /\ ~Live(p)
        BY DEF Init, OlderDone, Live, Indexing
    <2> QED
        BY <2>1, <2>2 DEF WriteInv, Untouched, Apart
<1>2. WriteInv /\ [Next]_vars => WriteInv'
    BY WriteStep
<1>3. WriteInv => FirstWriteOnly
    BY WriteInvIsFirstWriteOnly
<1> QED
    BY <1>1, <1>2, <1>3, PTL DEF Spec
=============================================================================
