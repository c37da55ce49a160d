------------------------------ MODULE Settings ------------------------------
(***************************************************************************)
(* The settings editor of the admin console                                *)
(* (apps/admin/src/islands/SettingsPanel.tsx) and the versioned store      *)
(* behind it (apps/explorer/app/api/admin/settings).  Several operators    *)
(* edit one explorer: each has a draft, saves it with the version it was   *)
(* loaded at, and uploads images whose answers find their creative by id   *)
(* while the rows of the draft move.                                       *)
(*                                                                         *)
(* The namespace is ads; of it the creatives, of them id and image.  The   *)
(* other namespaces matter because saving one reloads all.  The proxies of *)
(* the console are part of the calls they forward.                         *)
(***************************************************************************)
EXTENDS Integers, Sequences

CONSTANTS
    Editor,         \* open consoles
    MaxCreatives,   \* 12 in the code
    TypedId,        \* ids an operator may type
    MaxActs,        \* bound: what the operators do
    MaxFaults       \* bound: failed reads, lost answers

Blank == 0          \* the empty id
NoArt == 0          \* no imageKey
Stray == -1         \* the image of an upload whose draft was replaced meanwhile

ASSUME SettingsAssumption ==
    MaxCreatives \in Nat /\ TypedId \subseteq Nat /\ MaxActs \in Nat /\ MaxFaults \in Nat

VARIABLES
    trail,          \* explorer_settings_audit of ads; its last row is the setting.
                    \* base is what its author's console had loaded (history)
    panel,          \* editor -> its SettingsPanel
    gets,           \* editor -> its reads of the settings under way, two at most
    put,            \* editor -> the PUT it waits for
    orphans,        \* PUTs under way nobody waits for
    born,           \* creatives made
    acts, faults

stVars == <<trail, panel, gets, put, orphans, born, acts, faults>>

Creative(id, who) == [id |-> id, who |-> who, art |-> NoArt]
Closed == [open |-> FALSE, version |-> 0, saved |-> <<>>, draft |-> <<>>,
           busy |-> FALSE, uploads |-> {}]
NoGet  == [at |-> "none", version |-> 0, value |-> <<>>]
Asked  == [NoGet EXCEPT !.at = "asked"]
NoPut  == [at |-> "none", key |-> "ads", seen |-> 0, base |-> <<>>, value |-> <<>>]

SettingsInit ==
    /\ \/ trail = <<>> /\ born = 0
       \/ trail = <<[value |-> <<Creative(1, 1)>>, seen |-> 0, base |-> <<>>]>> /\ born = 1
    /\ panel = [e \in Editor |-> Closed]
    /\ gets = [e \in Editor |-> <<Asked, NoGet>>]
    /\ put = [e \in Editor |-> NoPut]
    /\ orphans = {} /\ acts = 0 /\ faults = 0

Act   == acts < MaxActs /\ acts' = acts + 1
Fault == faults < MaxFaults /\ faults' = faults + 1

-----------------------------------------------------------------------------
(* Loading. *)

\* GET: all rows, or none of them when the database does not answer.
ReadSettings(e, s) ==
    /\ gets[e][s].at = "asked"
    /\ \/ /\ gets' = [gets EXCEPT ![e][s] =
                 [at |-> "answered", version |-> Len(trail),
                  value |-> IF trail = <<>> THEN <<>> ELSE trail[Len(trail)].value]]
          /\ UNCHANGED faults
       \/ /\ Fault
          /\ gets' = [gets EXCEPT ![e][s].at = "answered"]
       \/ /\ Fault
          /\ gets' = [gets EXCEPT ![e][s] = NoGet]
    /\ UNCHANGED <<trail, panel, put, orphans, born, acts>>

\* Every draft is replaced, whatever is being uploaded for it.
Astray(uploads) == {[u EXCEPT !.who = Stray] : u \in uploads}

load(e, s) ==
    /\ gets[e][s].at = "answered"
    /\ LET g == gets[e][s]
           p == panel[e]
       IN  panel' = [panel EXCEPT ![e] =
              [p EXCEPT !.open = TRUE, !.version = g.version, !.saved = g.value,
                        !.draft = g.value, !.uploads = Astray(p.uploads)]]
    /\ gets' = [gets EXCEPT ![e][s] = NoGet]
    /\ UNCHANGED <<trail, put, orphans, born, acts, faults>>

\* The page is loaded again: its state and the answers on their way are gone.
Reopen(e) ==
    /\ Act
    /\ panel' = [panel EXCEPT ![e] = Closed]
    /\ gets' = [gets EXCEPT ![e] = <<Asked, NoGet>>]
    /\ put' = [put EXCEPT ![e] = NoPut]
    /\ orphans' = orphans \cup (IF put[e].at = "sent" THEN {put[e]} ELSE {})
    /\ UNCHANGED <<trail, born, faults>>

-----------------------------------------------------------------------------
(* Editing.  What the panel disables is a guard. *)

Ids(value) == {value[i].id : i \in DOMAIN value}
isUploading(e, id) == \E u \in panel[e].uploads : u.id = id
Edits(e, draft) ==
    /\ panel[e].open /\ Act
    /\ panel' = [panel EXCEPT ![e].draft = draft]
    /\ UNCHANGED <<trail, gets, put, orphans, faults>>

\* The first free number above the length, so below twice the length and two.
nextCreativeId(value) ==
    LET free == (Len(value) + 1 .. 2 * Len(value) + 1) \ Ids(value)
    IN  CHOOSE n \in free : \A m \in free : n <= m

AddCreative(e) ==
    LET draft == panel[e].draft
    IN  /\ Len(draft) < MaxCreatives
        /\ Edits(e, Append(draft, Creative(nextCreativeId(draft), born + 1)))
        /\ born' = born + 1

Without(value, i) == SubSeq(value, 1, i - 1) \o SubSeq(value, i + 1, Len(value))

RemoveAnyCreative(e, i) ==  \* Wrong on purpose: the row of an upload may go.
    /\ i \in DOMAIN panel[e].draft
    /\ Edits(e, Without(panel[e].draft, i))
    /\ UNCHANGED born
RemoveCreative(e, i) ==
    /\ i \in DOMAIN panel[e].draft
    /\ ~isUploading(e, panel[e].draft[i].id)
    /\ Edits(e, Without(panel[e].draft, i))
    /\ UNCHANGED born

RenameCreative(e, i, id) ==
    /\ i \in DOMAIN panel[e].draft /\ panel[e].draft[i].id # id
    /\ panel[e].uploads = {}
    /\ Edits(e, [panel[e].draft EXCEPT ![i].id = id])
    /\ UNCHANGED born

\* Any version of the history into the draft.
restore(e, v) ==
    /\ v \in DOMAIN trail
    /\ panel[e].open /\ Act
    /\ LET p == panel[e]
       IN  panel' = [panel EXCEPT ![e] =
              [p EXCEPT !.draft = trail[v].value, !.uploads = Astray(p.uploads)]]
    /\ UNCHANGED <<trail, gets, put, orphans, born, faults>>

-----------------------------------------------------------------------------
(* Uploads. *)

Bearers(value, id) == {i \in DOMAIN value : value[i].id = id}

uploadCreativeImage(e, i) ==
    /\ panel[e].open /\ Act
    /\ i \in DOMAIN panel[e].draft
    /\ LET row == panel[e].draft[i]
       IN  /\ ~isUploading(e, row.id)
           /\ row.id # Blank
           /\ Bearers(panel[e].draft, row.id) = {i}
           /\ panel' = [panel EXCEPT ![e].uploads = @ \cup {[id |-> row.id, who |-> row.who]}]
    /\ UNCHANGED <<trail, gets, put, orphans, born, faults>>

\* The image goes to the one row that bears the id now, if there is one.
updateCreativeById(value, u) ==
    IF \E i \in DOMAIN value : Bearers(value, u.id) = {i}
    THEN [i \in DOMAIN value |-> IF value[i].id = u.id THEN [value[i] EXCEPT !.art = u.who]
                                                       ELSE value[i]]
    ELSE value

UploadReturns(e, u) ==
    /\ u \in panel[e].uploads
    /\ \/ /\ LET p == panel[e]
             IN  panel' = [panel EXCEPT ![e] =
                    [p EXCEPT !.draft = updateCreativeById(p.draft, u),
                              !.uploads = p.uploads \ {u}]]
          /\ UNCHANGED faults
       \/ /\ Fault
          /\ panel' = [panel EXCEPT ![e].uploads = @ \ {u}]
    /\ UNCHANGED <<trail, gets, put, orphans, born, acts>>

-----------------------------------------------------------------------------
(* Saving. *)

\* Not while busy, uploading or unchanged.  The draft and the version are those
\* of this moment.
save(e, key) ==
    /\ panel[e].open /\ ~panel[e].busy /\ panel[e].uploads = {}
    /\ key = "ads" => panel[e].draft # panel[e].saved
    /\ Act
    /\ panel' = [panel EXCEPT ![e].busy = TRUE]
    /\ put' = [put EXCEPT ![e] = [at |-> "sent", key |-> key, seen |-> panel[e].version,
                                  base |-> panel[e].saved, value |-> panel[e].draft]]
    /\ UNCHANGED <<trail, gets, orphans, born, faults>>

\* The schema: ids are there and distinct; other fields are taken as filled in.
\* The version: the one expected, or none, which is an upsert.
WellFormed(value) == Blank \notin Ids(value) /\ \A i \in DOMAIN value :
                         Bearers(value, value[i].id) = {i}
AcceptsAny(m) == m.seen <= Len(trail)       \* Wrong on purpose: no AND version = ...
Accepts(m) == m.seen \in {0, Len(trail)}

\* PUT: the setting and its audit row in one transaction.
Handled(m) ==
    IF m.key = "ads" /\ WellFormed(m.value) /\ Accepts(m)
    THEN trail' = Append(trail, [value |-> m.value, seen |-> m.seen, base |-> m.base])
    ELSE UNCHANGED trail

HandlePut(e) ==
    /\ put[e].at = "sent"
    /\ Handled(put[e])
    /\ \E end \in {"saved", "refused"} :
          /\ put[e].key = "ads" => (end = "saved" <=> trail' # trail)
          /\ put' = [put EXCEPT ![e].at = end]
    /\ UNCHANGED <<panel, gets, orphans, born, acts, faults>>

HandleOrphan(m) ==
    /\ m \in orphans
    /\ Handled(m)
    /\ orphans' = orphans \ {m}
    /\ UNCHANGED <<panel, gets, put, born, acts, faults>>

FreeGet(e) == IF gets[e][1].at = "none" THEN 1 ELSE 2

SaveReturns(e) ==
    /\ put[e].at \in {"saved", "refused"}
    /\ panel' = [panel EXCEPT ![e].busy = FALSE]
    /\ gets' = IF put[e].at = "saved" THEN [gets EXCEPT ![e][FreeGet(e)] = Asked] ELSE gets
    /\ put' = [put EXCEPT ![e] = NoPut]
    /\ UNCHANGED <<trail, orphans, born, acts, faults>>

\* The proxy gives up after 6 s and says so, or the fetch is rejected, which
\* leaves the panel busy.  The PUT may land later.
SaveUnanswered(e) ==
    /\ put[e].at # "none" /\ Fault
    /\ \E busy \in BOOLEAN : panel' = [panel EXCEPT ![e].busy = busy]
    /\ put' = [put EXCEPT ![e] = NoPut]
    /\ orphans' = orphans \cup (IF put[e].at = "sent" THEN {put[e]} ELSE {})
    /\ UNCHANGED <<trail, gets, born, acts>>

-----------------------------------------------------------------------------

Network(e) ==
    \/ \E s \in 1..2 : ReadSettings(e, s) \/ load(e, s)
    \/ HandlePut(e) \/ SaveReturns(e) \/ SaveUnanswered(e)
    \/ \E m \in orphans : HandleOrphan(m)
Operator(e) ==
    \/ Reopen(e) \/ AddCreative(e) \/ save(e, "ads") \/ save(e, "other")
    \/ \E i \in 1..MaxCreatives : RemoveCreative(e, i)
Artist(e) ==
    \/ \E i \in 1..MaxCreatives : uploadCreativeImage(e, i)
    \/ \E i \in 1..MaxCreatives, id \in TypedId : RenameCreative(e, i, id)
    \/ \E u \in panel[e].uploads : UploadReturns(e, u)
    \/ \E v \in DOMAIN trail : restore(e, v)

SettingsNext == \E e \in Editor : Network(e) \/ Operator(e) \/ Artist(e)

SettingsSpec == SettingsInit /\ [][SettingsNext]_stVars

-----------------------------------------------------------------------------
(* Properties. *)

CreativeType == [id : Nat, who : Nat, art : Nat \cup {Stray}]

SettingsTypeOK ==
    /\ trail \in Seq([value : Seq(CreativeType), seen : Nat, base : Seq(CreativeType)])
    /\ panel \in [Editor -> [open : BOOLEAN, version : Nat, saved : Seq(CreativeType),
                             draft : Seq(CreativeType), busy : BOOLEAN,
                             uploads : SUBSET [id : Nat, who : Nat \cup {Stray}]]]
    /\ gets \in [Editor -> [1..2 -> [at : {"none", "asked", "answered"}, version : Nat,
                                     value : Seq(CreativeType)]]]
    /\ LET Put == [at : {"none", "sent", "saved", "refused"}, key : {"ads", "other"},
                   seen : Nat, base : Seq(CreativeType), value : Seq(CreativeType)]
       IN  put \in [Editor -> Put] /\ orphans \subseteq Put
    /\ born \in Nat /\ acts \in Nat /\ faults \in Nat

(***************************************************************************)
(* An uploaded image is only ever on the creative it was chosen for, in a  *)
(* draft and in everything saved (SettingsPanel.tsx:293-345, 545-553):     *)
(* rows are removed, added and renamed while uploads run.  Excepted are    *)
(* uploads during which the draft was replaced by a load or a restore.     *)
(***************************************************************************)
Placed(value) == \A i \in DOMAIN value : value[i].art \in {NoArt, Stray, value[i].who}
ArtworkOnItsCreative ==
    /\ \A e \in Editor : Placed(panel[e].draft)
    /\ \A v \in DOMAIN trail : Placed(trail[v].value)

(***************************************************************************)
(* No save silently undoes one its author has not seen                     *)
(* (settings/[key]/route.ts:52-80): what a save replaces is what the       *)
(* author's console had loaded when it was sent, whatever answers were     *)
(* late, lost or overtaken by other editors, unless the console had been   *)
(* told that nothing is stored.                                            *)
(***************************************************************************)
OverwritesSeen ==
    \A v \in DOMAIN trail :
        trail[v].seen # 0 => v > 1 /\ trail[v].base = trail[v - 1].value
=============================================================================
