----------------------------- MODULE LocalProofs -----------------------------
(***************************************************************************)
(* What TLAPS proves of the two directories the local pipeline writes: of  *)
(* HighlightRun for every set of windows, any number of slots and runs,    *)
(* and whatever the footage leads to; of LocalPackage for every set of     *)
(* highlights and picks and whatever is planned under each, over any       *)
(* number of preparations, replays, decisions and films.                   *)
(***************************************************************************)
EXTENDS HighlightRun, LocalPackage, TLAPS

-----------------------------------------------------------------------------
(* The directory of highlights.                                            *)

Selection == [Slots -> Windows]
Reviews    == [Slots -> [window : Windows, status : Statuses]]
Pictures  == Windows \cup {"cut", "nothing"}
Going     == {"review", "bridge", "cutting", "encoding", "sheet"}

RunType ==
  /\ chosen \in Selection
  /\ clip \in [Slots -> 0..SlotCount]
  /\ shows \in [Slots -> Pictures]
  /\ thumbnail \in [Slots -> Pictures]
  /\ manifest \in Selection \cup {<<>>}
  /\ bridge \in SUBSET (Slots \X Windows)
  /\ review \in Reviews \cup {<<>>}
  /\ step \in Going \cup {"idle"}
  /\ overwrite \in BOOLEAN
  /\ picked \in Selection \cup {<<>>}
  /\ approved \in SUBSET Slots
  /\ at \in Slots
  /\ linked \in BOOLEAN /\ whole \in BOOLEAN
  /\ runs \in Nat

(***************************************************************************)
(* The inductive invariant.  A run knows its selection, and has begun with *)
(* the first slot until it cuts; once it has read them, the decisions on   *)
(* file are about its own picks; once it has handed them on, the           *)
(* candidates are what was approved.                                       *)
(***************************************************************************)
OwnPicks ==
  /\ step \in Going => picked \in Selection /\ ~whole
  /\ step \in {"review", "bridge"} => at = 1
  /\ step \in {"bridge", "cutting", "encoding", "sheet"} => review \in Reviews /\ About(review, picked)
  /\ step \in {"cutting", "encoding", "sheet"} => bridge = {<<s, picked[s]>> : s \in approved}

\* The slots the run is through with.
Through == IF step = "sheet" THEN Slots ELSE 1 .. at - 1

\* Each of them shows its pick, the clips where no two slots led to one file.
PicturesAre ==
  step \in {"cutting", "encoding", "sheet"} =>
    \A s \in Through :
      /\ thumbnail[s] = picked[s] /\ clip[s] # 0
      /\ ~linked => shows[clip[s]] = picked[s]

\* What their files show was picked for one of them that leads to the file, but
\* for the file the encoder is at work on.
FilesAre ==
  step \in {"cutting", "encoding", "sheet"} =>
    \A s \in Through :
      \/ step = "encoding" /\ clip[s] = clip[at]
      \/ \E t \in Through : clip[t] = clip[s] /\ shows[clip[s]] = picked[t]

\* No name leads to a file its own slot has not had cut; so a new file is new.
Named == \A s \in Slots : clip[s] # 0 => clip[s] \in Slots /\ clip[clip[s]] # 0

\* What keeps the encoder from cutting into a clip that is done: a slot the
\* run has still to come to shares its file with no other.
Apart ==
  step \in Going \ {"sheet"} /\ ~linked =>
    \A t \in at .. SlotCount, s \in Slots : s # t /\ clip[t] # 0 => clip[s] # clip[t]

BeingCut == step = "encoding" => clip[at] # 0

\* What a run that ended well leaves, until the next one begins.
Left == whole => /\ manifest \in Selection
                 /\ DirectoryIsOneStory
                 /\ ClipsShowTheirPicks

RunInv == RunType /\ OwnPicks /\ PicturesAre /\ FilesAre /\ Named /\ Apart /\ BeingCut /\ Left
-----------------------------------------------------------------------------
(* Lemmas.                                                                 *)

\* A list of decisions is not the empty sequence that stands for no file, and
\* neither is a selection: a run has a slot at least.
LEMMA NotEmpty == \A r : r \in Reviews \cup Selection => r # <<>>
  <1> SUFFICES ASSUME NEW r, r \in Reviews \cup Selection PROVE r # <<>>
    OBVIOUS
  <1>1. DOMAIN r = Slots /\ 1 \in Slots
    BY RunAssumption DEF Slots, Reviews, Selection
  <1>2. DOMAIN <<>> = {}
    OBVIOUS
  <1> QED BY <1>1, <1>2

\* What the run makes of the decisions on file has their form.
LEMMA AutodecidedType ==
    ASSUME RunType, picked \in Selection
    PROVE  Autodecided(picked) \in Reviews
  <1> QED BY DEF Autodecided, RunType, Reviews, Selection, Statuses

\* What the first run finds.
LEMMA RunInvInit == RunInit => RunInv
  <1> SUFFICES ASSUME RunInit PROVE RunInv
    OBVIOUS
  <1>1. 1 \in Slots /\ 0 \in 0..SlotCount /\ Selections \subseteq Selection
    BY RunAssumption DEF Slots, Selection
  <1>2. clip = [s \in Slots |-> 0] /\ clip \in [Slots -> 0..SlotCount]
    BY <1>1 DEF RunInit
  <1>3. [s \in Slots |-> "nothing"] \in [Slots -> Pictures]
    BY DEF Pictures
  <1>4. chosen \in Selection
    BY <1>1 DEF RunInit
  <1>5. RunType
    BY <1>1, <1>2, <1>3, <1>4 DEF RunInit, RunType
  <1> QED
    BY <1>2, <1>5 DEF RunInit, RunInv, OwnPicks, Going, PicturesAre, FilesAre, Named, Apart, BeingCut, Left
-----------------------------------------------------------------------------
(* The types stay, action by action.                                       *)

\* The next slot of a run is one of its slots.
LEMMA NextSlotType ==
    ASSUME at \in Slots, NextSlot
    PROVE  /\ at' \in Slots /\ step' \in {"cutting", "sheet"}
           /\ IF step' = "sheet" THEN at = SlotCount ELSE at' = at + 1
  <1>1. SlotCount \in Nat \ {0}
    BY RunAssumption
  <1> QED BY <1>1 DEF NextSlot, Slots

\* A slot's clip, a file's picture: what is put there is of the type.
LEMMA RunTypeStep ==
    ASSUME RunType, OwnPicks, BeingCut, RunNext
    PROVE  RunType'
  <1> USE DEF RunType, OwnPicks, Going
  <1>1. CASE StartResearch
    <2>1. 1 \in Slots /\ runs' \in Nat
      BY <1>1, RunAssumption DEF StartResearch, Slots
    <2>2. linked' \in BOOLEAN
      BY <1>1 DEF StartResearch
    <2> QED BY <1>1, <2>1, <2>2 DEF StartResearch
  <1>2. CASE ReadReview
    <2>1. Autodecided(picked) \in Reviews
      BY <1>2, AutodecidedType DEF ReadReview
    <2>2. review' \in Reviews \cup {<<>>} /\ approved' \in SUBSET Slots /\ step' \in {"bridge", "idle"}
      BY <1>2, <2>1 DEF ReadReview
    <2> QED BY <1>2, <2>2 DEF ReadReview
  <1>3. CASE WriteBridge
    <2>1. picked \in Selection
      BY <1>3 DEF WriteBridge
    <2>2. bridge' \in SUBSET (Slots \X Windows)
      BY <1>3, <2>1 DEF WriteBridge, Selection
    <2> QED BY <1>3, <2>2 DEF WriteBridge
  <1>4. CASE LinkClip
    <2>1. at' \in Slots /\ step' \in {"cutting", "sheet"}
      BY <1>4, NextSlotType DEF LinkClip
    <2>2. PICK s \in Reusable : clip' = [clip EXCEPT ![at] = clip[s]]
      BY <1>4 DEF LinkClip
    <2>3. s \in Slots
      BY <2>2, RunAssumption DEF Reusable, Slots
    <2>4. clip' \in [Slots -> 0..SlotCount]
      BY <2>2, <2>3
    <2>5. thumbnail' \in [Slots -> Pictures]
      BY <1>4 DEF LinkClip, Selection, Pictures
    <2> QED BY <1>4, <2>1, <2>4, <2>5 DEF LinkClip
  <1>5. CASE BeginClip
    <2>1. PICK file \in Slots : /\ clip' = [clip EXCEPT ![at] = file]
                                /\ shows' = [shows EXCEPT ![file] = "cut"]
      <3>1. (IF clip[at] = 0 THEN at ELSE clip[at]) \in Slots
        BY RunAssumption DEF Slots
      <3> QED BY <1>5, <3>1 DEF BeginClip
    <2>2. clip' \in [Slots -> 0..SlotCount]
      <3>1. file \in 0..SlotCount
        BY RunAssumption DEF Slots
      <3> QED BY <2>1, <3>1
    <2>3. shows' \in [Slots -> Pictures]
      BY <2>1 DEF Pictures
    <2> QED BY <1>5, <2>2, <2>3 DEF BeginClip
  <1>6. CASE EndClip
    <2>1. at' \in Slots /\ step' \in {"cutting", "sheet"}
      BY <1>6, NextSlotType DEF EndClip
    <2>2. picked[at] \in Pictures
      BY <1>6 DEF EndClip, Selection, Pictures
    <2>3. shows' \in [Slots -> Pictures] /\ thumbnail' \in [Slots -> Pictures]
      BY <1>6, <2>2 DEF EndClip
    <2> QED BY <1>6, <2>1, <2>3 DEF EndClip
  <1>7. CASE WriteManifest
    BY <1>7 DEF WriteManifest
  <1>8. CASE RunStops
    BY <1>8 DEF RunStops
  <1>9. CASE Decide
    <2>1. PICK s \in Slots, status \in Statuses : review' = [review EXCEPT ![s].status = status]
      BY <1>9 DEF Decide
    <2>2. review \in Reviews
      BY <1>9 DEF Decide
    <2>3. review' \in Reviews
      BY <2>1, <2>2 DEF Reviews
    <2> QED BY <1>9, <2>3 DEF Decide
  <1>10. CASE DropReview
    BY <1>10 DEF DropReview
  <1>11. CASE Refilm
    BY <1>11, RunAssumption DEF Refilm, Selection, Slots
  <1> QED BY <1>1, <1>2, <1>3, <1>4, <1>5, <1>6, <1>7, <1>8, <1>9, <1>10, <1>11 DEF RunNext
-----------------------------------------------------------------------------
(* The rest of the invariant, part by part.                                *)

\* From the reading of the review to the end of the run, nobody makes the
\* decisions on file be about other picks: the page changes no window, and the
\* owner takes the file away only between runs.
LEMMA OwnPicksStep ==
    ASSUME RunInv, RunType', RunNext
    PROVE  OwnPicks'
  <1> USE DEF RunInv, OwnPicks, Going
  <1>1. CASE StartResearch
    BY <1>1 DEF StartResearch, RunType
  <1>2. CASE ReadReview
    <2>1. Autodecided(picked) \in Reviews
      BY <1>2, AutodecidedType DEF ReadReview
    <2> QED BY <1>2, <2>1 DEF ReadReview
  <1>3. CASE WriteBridge
    BY <1>3 DEF WriteBridge
  <1>4. CASE LinkClip
    BY <1>4, NextSlotType DEF LinkClip, RunType
  <1>5. CASE BeginClip
    BY <1>5 DEF BeginClip
  <1>6. CASE EndClip
    BY <1>6, NextSlotType DEF EndClip, RunType
  <1>7. CASE WriteManifest
    BY <1>7 DEF WriteManifest
  <1>8. CASE RunStops
    BY <1>8 DEF RunStops
  <1>9. CASE Decide
    <2>1. PICK s \in Slots, status \in Statuses : review' = [review EXCEPT ![s].status = status]
      BY <1>9 DEF Decide
    <2>2. review \in Reviews
      BY <1>9 DEF Decide, RunType
    <2>3. review' \in Reviews /\ \A t \in Slots : review'[t].window = review[t].window
      BY <2>1, <2>2 DEF Reviews
    <2>4. About(review, picked) => About(review', picked)
      BY <2>3 DEF About
    <2> QED BY <1>9, <2>3, <2>4 DEF Decide
  <1>10. CASE DropReview
    BY <1>10 DEF DropReview
  <1>11. CASE Refilm
    BY <1>11 DEF Refilm
  <1> QED BY <1>1, <1>2, <1>3, <1>4, <1>5, <1>6, <1>7, <1>8, <1>9, <1>10, <1>11 DEF RunNext

\* Where a name leads, a clip was cut under the name it is a second name of.
LEMMA NamedStep ==
    ASSUME RunInv, RunNext
    PROVE  Named'
  <1> USE DEF RunInv, Named
  <1>1. CASE LinkClip
    <2>1. PICK s \in Reusable : clip' = [clip EXCEPT ![at] = clip[s]]
      BY <1>1 DEF LinkClip
    <2>2. s \in Slots /\ s < at /\ at \in Slots /\ clip \in [Slots -> 0..SlotCount]
      BY <2>1, RunAssumption DEF Reusable, Slots, RunType
    <2>3. clip[s] # 0
      <3>1. s \in 1 .. at - 1
        BY <2>1 DEF Reusable
      <3> QED BY <1>1, <3>1 DEF LinkClip, PicturesAre, Through
    <2>4. clip[s] \in Slots /\ clip[clip[s]] # 0
      BY <2>2, <2>3
    <2>5. SUFFICES ASSUME NEW t \in Slots, clip'[t] # 0 PROVE clip'[t] \in Slots /\ clip'[clip'[t]] # 0
      OBVIOUS
    <2>6. clip'[t] \in Slots /\ clip[clip'[t]] # 0
      <3>1. clip'[t] = IF t = at THEN clip[s] ELSE clip[t]
        BY <2>1, <2>2
      <3>2. CASE t = at
        BY <2>4, <3>1, <3>2
      <3>3. CASE t # at
        BY <2>5, <3>1, <3>3
      <3> QED BY <3>2, <3>3
    <2> QED BY <2>1, <2>2, <2>3, <2>6
  <1>2. CASE BeginClip
    BY <1>2 DEF BeginClip, RunType
  <1>3. clip' = clip => Named'
    OBVIOUS
  <1> QED
    BY <1>1, <1>2, <1>3 DEF RunNext, StartResearch, ReadReview, WriteBridge, EndClip, WriteManifest,
                            RunStops, Decide, DropReview, Refilm
\* The slots to come stay apart from all others: a second name is taken of a
\* slot the run is through with, by one it is through with then; a new file is
\* named after the slot it is cut for, and no name leads to it yet.
LEMMA ApartStep ==
    ASSUME RunInv, RunType', RunNext
    PROVE  Apart'
  <1> USE DEF RunInv
  <1>0. /\ SlotCount \in Nat \ {0} /\ at \in 1 .. SlotCount /\ at' \in 1 .. SlotCount
        /\ clip \in [Slots -> 0..SlotCount]
    BY RunAssumption DEF RunType, Slots
  <1>1. CASE StartResearch
    <2>1. at' = 1 /\ clip' = clip
          /\ (~linked' => \A s, t \in Slots : s # t /\ clip[t] # 0 => clip[s] # clip[t])
      BY <1>1 DEF StartResearch
    <2> QED BY <1>0, <2>1 DEF Apart, Slots
  <1>2. CASE LinkClip
    <2>1. PICK r \in Reusable : clip' = [clip EXCEPT ![at] = clip[r]]
      BY <1>2 DEF LinkClip
    <2>2. r \in 1 .. at - 1 /\ r \in Slots
      BY <1>0, <2>1 DEF Reusable, Slots
    <2>3. step' # "sheet" => at' = at + 1
      BY <1>2, NextSlotType DEF LinkClip, RunType
    <2>4. SUFFICES ASSUME step' # "sheet", ~linked, NEW t \in at' .. SlotCount, NEW s \in Slots,
                          s # t, clip'[t] # 0
                   PROVE  clip'[s] # clip'[t]
      BY <1>2 DEF Apart, LinkClip
    <2>5. t \in at .. SlotCount /\ t \in Slots /\ t # at /\ t # r
      BY <1>0, <2>2, <2>3, <2>4 DEF Slots
    <2>6. clip'[t] = clip[t]
      BY <1>0, <2>1, <2>5
    <2>7. clip'[s] = IF s = at THEN clip[r] ELSE clip[s]
      BY <1>0, <2>1
    <2>8. \A x \in Slots : x # t => clip[x] # clip[t]
      BY <1>2, <2>4, <2>5, <2>6 DEF Apart, LinkClip, Going
    <2> QED BY <2>2, <2>4, <2>5, <2>6, <2>7, <2>8
  <1>3. CASE BeginClip
    <2> DEFINE file == IF clip[at] = 0 THEN at ELSE clip[at]
    <2>1. clip' = [clip EXCEPT ![at] = file] /\ at' = at /\ linked' = linked
      BY <1>3 DEF BeginClip
    <2>2. SUFFICES ASSUME ~linked, NEW t \in at .. SlotCount, NEW s \in Slots, s # t, clip'[t] # 0
                   PROVE  clip'[s] # clip'[t]
      BY <2>1 DEF Apart
    <2>3. t \in Slots /\ at \in Slots
      BY <1>0, <2>2 DEF Slots
    <2>4. \A x \in at .. SlotCount, y \in Slots : x # y /\ clip[x] # 0 => clip[y] # clip[x]
      BY <1>3, <2>2 DEF Apart, BeginClip, Going
    <2>5. \A x \in Slots : clip[at] = 0 => clip[x] # at
      BY <1>0, <2>3 DEF Named
    <2>6. clip'[t] = (IF t = at THEN file ELSE clip[t]) /\ clip'[s] = (IF s = at THEN file ELSE clip[s])
      BY <1>0, <2>1, <2>3
    <2>7. CASE clip[at] = 0
      BY <1>0, <2>2, <2>3, <2>4, <2>5, <2>6, <2>7
    <2>8. CASE clip[at] # 0
      BY <1>0, <2>2, <2>3, <2>4, <2>6, <2>8
    <2> QED BY <2>7, <2>8
  <1>4. CASE EndClip
    <2>1. /\ step' # "sheet" => at' = at + 1
          /\ clip' = clip /\ linked' = linked /\ step = "encoding"
      BY <1>4, NextSlotType DEF EndClip, RunType
    <2>2. step' # "sheet" => at' .. SlotCount \subseteq at .. SlotCount
      BY <1>0, <2>1
    <2> QED BY <2>1, <2>2 DEF Apart, Going
  <1>5. ASSUME UNCHANGED <<clip, at, linked>>,
                step' \in Going \ {"sheet"} => step \in Going \ {"sheet"}
         PROVE  Apart'
    BY <1>5 DEF Apart
  <1> QED
    BY <1>1, <1>2, <1>3, <1>4, <1>5
       DEF RunNext, ReadReview, WriteBridge, WriteManifest, RunStops, Decide, DropReview, Refilm, Going
\* Slot by slot the thumbnails and clips become the picks', and what is done is
\* not undone: a second name shows what the first one does, which is the same
\* pick, and the encoder cuts into a file of one slot alone.
LEMMA ShownStep ==
    ASSUME RunInv, RunType', BeingCut', RunNext
    PROVE  PicturesAre'
  <1> USE DEF RunInv
  <1>0. /\ SlotCount \in Nat \ {0} /\ at \in 1 .. SlotCount /\ at' \in 1 .. SlotCount
        /\ clip \in [Slots -> 0..SlotCount] /\ thumbnail \in [Slots -> Pictures]
        /\ shows \in [Slots -> Pictures] /\ Slots = 1 .. SlotCount
    BY RunAssumption DEF RunType, Slots
  <1>1. CASE WriteBridge
    <2>1. step' = "cutting" /\ at' = 1
      BY <1>1 DEF WriteBridge, OwnPicks
    <2> QED BY <2>1 DEF PicturesAre, Through
  <1>2. CASE LinkClip
    <2>1. PICK r \in Reusable : clip' = [clip EXCEPT ![at] = clip[r]]
      BY <1>2 DEF LinkClip
    <2>2. r \in Slots /\ r \in Through /\ picked[r] = picked[at]
      BY <1>0, <1>2, <2>1 DEF Reusable, Through, LinkClip
    <2>3. clip[r] # 0 /\ (~linked => shows[clip[r]] = picked[at])
      BY <1>2, <2>2 DEF PicturesAre, LinkClip
    <2>4. \A s \in Through' : s = at \/ s \in Through \ {at}
      <3>1. step' = "sheet" => at = SlotCount
        BY <1>2, NextSlotType DEF LinkClip, RunType
      <3>2. step' # "sheet" => at' = at + 1
        BY <1>2, NextSlotType DEF LinkClip, RunType
      <3> QED BY <1>0, <1>2, <3>1, <3>2 DEF Through, LinkClip
    <2>5. SUFFICES ASSUME NEW s \in Through'
                   PROVE  /\ thumbnail'[s] = picked'[s] /\ clip'[s] # 0
                          /\ ~linked' => shows'[clip'[s]] = picked'[s]
      BY DEF PicturesAre
    <2>6. s \in Slots
      <3>1. Through = 1 .. at - 1
        BY <1>2 DEF Through, LinkClip
      <3> QED BY <1>0, <2>4, <2>5, <3>1
    <2>7. UNCHANGED <<picked, shows, linked>> /\ thumbnail' = [thumbnail EXCEPT ![at] = picked[at]]
      BY <1>2 DEF LinkClip
    <2>8. CASE s = at
      BY <1>0, <2>1, <2>3, <2>6, <2>7, <2>8
    <2>9. CASE s # at
      <3>1. thumbnail[s] = picked[s] /\ clip[s] # 0 /\ (~linked => shows[clip[s]] = picked[s])
        BY <1>2, <2>4, <2>5, <2>9 DEF PicturesAre, LinkClip
      <3> QED BY <1>0, <2>1, <2>6, <2>7, <2>9, <3>1
    <2> QED BY <2>8, <2>9
  <1>3. CASE BeginClip
    <2> DEFINE file == IF clip[at] = 0 THEN at ELSE clip[at]
    <2>1. /\ clip' = [clip EXCEPT ![at] = file] /\ shows' = [shows EXCEPT ![file] = "cut"]
          /\ UNCHANGED <<picked, thumbnail, linked, at>> /\ step = "cutting" /\ step' = "encoding"
      BY <1>3 DEF BeginClip
    <2>2. SUFFICES ASSUME NEW s \in 1 .. at - 1
                   PROVE  /\ thumbnail'[s] = picked'[s] /\ clip'[s] # 0
                          /\ ~linked' => shows'[clip'[s]] = picked'[s]
      BY <2>1 DEF PicturesAre, Through
    <2>3. s \in Slots /\ s # at /\ clip'[s] = clip[s]
      BY <1>0, <2>1
    <2>4. thumbnail[s] = picked[s] /\ clip[s] # 0 /\ (~linked => shows[clip[s]] = picked[s])
      BY <2>1 DEF PicturesAre, Through
    <2>5. clip[s] # file \/ linked
      <3>1. CASE clip[at] = 0
        BY <1>0, <2>3, <2>4, <3>1 DEF Named
      <3>2. CASE clip[at] # 0
        BY <1>0, <2>1, <2>3, <3>2 DEF Apart, Going
      <3> QED BY <3>1, <3>2
    <2>6. clip[s] \in Slots
      BY <1>0, <2>3, <2>4
    <2>7. ~linked => shows'[clip[s]] = shows[clip[s]]
      BY <1>0, <2>1, <2>5, <2>6
    <2> QED BY <2>1, <2>3, <2>4, <2>7
  <1>4. CASE EndClip
    <2>1. /\ shows' = [shows EXCEPT ![clip[at]] = picked[at]]
          /\ thumbnail' = [thumbnail EXCEPT ![at] = picked[at]]
          /\ UNCHANGED <<picked, clip, linked>> /\ step = "encoding"
      BY <1>4 DEF EndClip
    <2>2. clip[at] \in Slots
      BY <1>0, <2>1 DEF BeingCut
    <2>3. \A s \in Through' : s = at \/ s \in 1 .. at - 1
      <3>1. step' = "sheet" => at = SlotCount
        BY <1>4, NextSlotType DEF EndClip, RunType
      <3>2. step' # "sheet" => at' = at + 1
        BY <1>4, NextSlotType DEF EndClip, RunType
      <3>3. Through' = IF step' = "sheet" THEN Slots ELSE 1 .. at' - 1
        BY DEF Through, Slots
      <3>4. CASE step' = "sheet"
        BY <1>0, <3>1, <3>3, <3>4
      <3>5. CASE step' # "sheet"
        BY <1>0, <3>2, <3>3, <3>5
      <3> QED BY <3>4, <3>5
    <2>4. SUFFICES ASSUME NEW s \in Through'
                   PROVE  /\ thumbnail'[s] = picked'[s] /\ clip'[s] # 0
                          /\ ~linked' => shows'[clip'[s]] = picked'[s]
      BY DEF PicturesAre
    <2>5. CASE s = at
      BY <1>0, <2>1, <2>2, <2>5
    <2>6. CASE s # at
      <3>1. s \in 1 .. at - 1 /\ s \in Slots
        BY <1>0, <2>3, <2>6
      <3>2. thumbnail[s] = picked[s] /\ clip[s] # 0 /\ (~linked => shows[clip[s]] = picked[s])
        BY <2>1, <3>1 DEF PicturesAre, Through
      <3>3. ~linked => clip[s] # clip[at]
        BY <1>0, <2>1, <2>2, <2>6, <3>1 DEF Apart, Going
      <3>4. clip[s] \in Slots
        BY <1>0, <3>1, <3>2
      <3> QED BY <1>0, <2>1, <2>6, <3>1, <3>2, <3>3, <3>4
    <2> QED BY <2>5, <2>6
  <1>5. CASE UNCHANGED <<thumbnail, clip, shows, picked, linked, at, step>>
    BY <1>5 DEF PicturesAre, Through
  <1>6. CASE step' \in {"idle", "review", "bridge"}
    BY <1>6 DEF PicturesAre
  <1> QED
    BY <1>1, <1>2, <1>3, <1>4, <1>5, <1>6
       DEF RunNext, StartResearch, ReadReview, WriteManifest, RunStops, Decide, DropReview, Refilm

\* A slot's file is cut for it or has been cut for a slot before it, and once it
\* is cut again it shows a pick of a slot that the run is through with.
LEMMA FilesStep ==
    ASSUME RunInv, RunType', BeingCut', RunNext
    PROVE  FilesAre'
  <1> USE DEF RunInv
  <1>0. /\ SlotCount \in Nat \ {0} /\ at \in 1 .. SlotCount
        /\ clip \in [Slots -> 0..SlotCount] /\ shows \in [Slots -> Pictures] /\ Slots = 1 .. SlotCount
    BY RunAssumption DEF RunType, Slots
  <1>1. CASE WriteBridge
    <2>1. step' = "cutting" /\ at' = 1
      BY <1>1 DEF WriteBridge, OwnPicks
    <2> QED BY <2>1 DEF FilesAre, Through
  <1>2. ASSUME LinkClip \/ EndClip
        PROVE  /\ step' # "encoding"
               /\ \A s \in Through' : s \in Slots /\ (s = at \/ s \in 1 .. at - 1)
               /\ at \in Through' /\ 1 .. at - 1 \in SUBSET Through'
    <2>1. /\ step' \in {"cutting", "sheet"}
          /\ IF step' = "sheet" THEN at = SlotCount ELSE at' = at + 1
      BY <1>2, NextSlotType DEF LinkClip, EndClip, RunType
    <2>2. Through' = IF step' = "sheet" THEN Slots ELSE 1 .. at' - 1
      BY DEF Through, Slots
    <2>3. CASE step' = "sheet"
      BY <1>0, <2>1, <2>2, <2>3
    <2>4. CASE step' # "sheet"
      BY <1>0, <2>1, <2>2, <2>4
    <2> QED BY <2>1, <2>3, <2>4
  <1>3. CASE LinkClip
    <2>1. PICK r \in Reusable : clip' = [clip EXCEPT ![at] = clip[r]]
      BY <1>3 DEF LinkClip
    <2>2. step = "cutting" /\ Through = 1 .. at - 1 /\ r \in 1 .. at - 1 /\ UNCHANGED <<picked, shows>>
      BY <1>3, <2>1 DEF Through, LinkClip, Reusable
    <2>3. SUFFICES ASSUME NEW s \in Through'
                   PROVE  \E t \in Through' : clip'[t] = clip'[s] /\ shows'[clip'[s]] = picked'[t]
      BY DEF FilesAre
    <2>4. PICK u \in 1 .. at - 1 : clip'[s] = clip[u]
      <3>1. CASE s = at
        BY <1>0, <2>1, <2>2, <3>1
      <3>2. CASE s # at
        BY <1>0, <1>2, <1>3, <2>1, <3>2
      <3> QED BY <3>1, <3>2
    <2>5. PICK t \in 1 .. at - 1 : clip[t] = clip[u] /\ shows[clip[u]] = picked[t]
      BY <2>2, <2>4 DEF FilesAre
    <2>6. clip'[t] = clip[t] /\ t \in Through'
      BY <1>0, <1>2, <1>3, <2>1, <2>5
    <2> QED BY <2>2, <2>4, <2>5, <2>6
  <1>4. CASE BeginClip
    <2> DEFINE file == IF clip[at] = 0 THEN at ELSE clip[at]
    <2>1. /\ clip' = [clip EXCEPT ![at] = file] /\ shows' = [shows EXCEPT ![file] = "cut"]
          /\ UNCHANGED <<picked, at>> /\ step = "cutting" /\ step' = "encoding"
      BY <1>4 DEF BeginClip
    <2>2. Through = 1 .. at - 1 /\ Through' = 1 .. at - 1
      BY <2>1 DEF Through
    <2>3. SUFFICES ASSUME NEW s \in 1 .. at - 1, clip'[s] # clip'[at]
                   PROVE  \E t \in 1 .. at - 1 : clip'[t] = clip'[s] /\ shows'[clip'[s]] = picked'[t]
      BY <2>1, <2>2 DEF FilesAre
    <2>4. \A t \in 1 .. at - 1 : clip'[t] = clip[t]
      BY <1>0, <2>1
    <2>5. PICK t \in 1 .. at - 1 : clip[t] = clip[s] /\ shows[clip[s]] = picked[t]
      BY <2>1, <2>2 DEF FilesAre
    <2>6. clip'[at] = file /\ clip[s] # file
      BY <1>0, <2>1, <2>3, <2>4
    <2>7. clip[s] \in Slots
      BY <1>0, <2>1, <2>2 DEF PicturesAre
    <2>8. shows'[clip[s]] = shows[clip[s]]
      BY <1>0, <2>1, <2>6, <2>7
    <2> QED BY <2>1, <2>4, <2>5, <2>8
  <1>5. CASE EndClip
    <2>1. /\ shows' = [shows EXCEPT ![clip[at]] = picked[at]]
          /\ UNCHANGED <<picked, clip>> /\ step = "encoding" /\ Through = 1 .. at - 1
      BY <1>5 DEF EndClip, Through
    <2>2. clip[at] \in Slots /\ shows'[clip[at]] = picked[at]
      BY <1>0, <2>1 DEF BeingCut
    <2>3. SUFFICES ASSUME NEW s \in Through'
                   PROVE  \E t \in Through' : clip'[t] = clip'[s] /\ shows'[clip'[s]] = picked'[t]
      BY DEF FilesAre
    <2>4. CASE clip[s] = clip[at]
      BY <1>2, <1>5, <2>1, <2>2, <2>4
    <2>5. CASE clip[s] # clip[at]
      <3>1. s \in 1 .. at - 1 /\ s \in Slots
        BY <1>2, <1>5, <2>5
      <3>2. PICK t \in 1 .. at - 1 : clip[t] = clip[s] /\ shows[clip[s]] = picked[t]
        BY <2>1, <2>5, <3>1 DEF FilesAre
      <3>3. clip[s] \in Slots
        BY <1>0, <2>1, <3>1 DEF PicturesAre
      <3>4. shows'[clip[s]] = shows[clip[s]]
        BY <1>0, <2>1, <2>2, <2>5, <3>3
      <3> QED BY <1>2, <1>5, <2>1, <3>2, <3>4
    <2> QED BY <2>4, <2>5
  <1>6. CASE UNCHANGED <<clip, shows, picked, at, step>>
    BY <1>6 DEF FilesAre, Through
  <1>7. CASE step' \in {"idle", "review", "bridge"}
    BY <1>7 DEF FilesAre
  <1> QED
    BY <1>1, <1>3, <1>4, <1>5, <1>6, <1>7
       DEF RunNext, StartResearch, ReadReview, WriteManifest, RunStops, Decide, DropReview, Refilm

\* While the encoder is at work its slot has a file.
LEMMA BeingCutStep ==
    ASSUME RunInv, RunType', RunNext
    PROVE  BeingCut'
  <1> USE DEF RunInv, BeingCut
  <1>1. CASE BeginClip
    <2>1. at \in Slots /\ at # 0 /\ clip \in [Slots -> 0..SlotCount]
      BY RunAssumption DEF RunType, Slots
    <2> QED BY <1>1, <2>1 DEF BeginClip
  <1>2. CASE LinkClip \/ EndClip
    BY <1>2, NextSlotType DEF LinkClip, EndClip, RunType
  <1> QED
    BY <1>1, <1>2 DEF RunNext, StartResearch, ReadReview, WriteBridge, WriteManifest, RunStops,
                      Decide, DropReview, Refilm

\* What a run that ended well leaves is what it was about, and nothing between
\* runs takes from it: the page changes no window, and no clip is cut.
LEMMA LeftStep ==
    ASSUME RunInv, RunType', OwnPicks', RunNext
    PROVE  Left'
  <1> USE DEF RunInv
  <1>1. CASE WriteManifest
    <2>1. /\ step = "sheet" /\ picked \in Selection /\ review \in Reviews /\ About(review, picked)
          /\ bridge = {<<s, picked[s]>> : s \in approved} /\ approved \in SUBSET Slots
          /\ thumbnail \in [Slots -> Pictures]
          /\ manifest' = picked /\ UNCHANGED <<thumbnail, bridge, review, approved, clip, shows, linked>>
      BY <1>1 DEF WriteManifest, OwnPicks, Going, RunType
    <2>2. \A s \in Slots : /\ thumbnail[s] = picked[s] /\ clip[s] # 0
                           /\ ~linked => shows[clip[s]] = picked[s]
                           /\ \E t \in Slots : clip[t] = clip[s] /\ shows[clip[s]] = picked[t]
      BY <2>1 DEF PicturesAre, FilesAre, Through
    <2>3. thumbnail = picked
      BY <2>1, <2>2 DEF Selection
    <2>4. \A c \in bridge : c[2] = picked[c[1]]
      BY <2>1
    <2>5. {c[1] : c \in bridge} = approved
      <3>1. \A s \in approved : <<s, picked[s]>> \in bridge /\ <<s, picked[s]>>[1] = s
        BY <2>1
      <3>2. \A c \in bridge : c[1] \in approved
        BY <2>1
      <3> QED BY <3>1, <3>2
    <2>6. DirectoryIsOneStory'
      BY <2>1, <2>3, <2>4, <2>5 DEF DirectoryIsOneStory
    <2> QED BY <2>1, <2>2, <2>6 DEF Left, ClipsShowTheirPicks
  <1>2. CASE Decide
    <2>1. PICK s \in Slots, status \in Statuses : review' = [review EXCEPT ![s].status = status]
      BY <1>2 DEF Decide
    <2>2. review \in Reviews
      BY <1>2 DEF Decide, RunType
    <2>3. \A t \in Slots : review'[t].window = review[t].window
      BY <2>1, <2>2 DEF Reviews
    <2>4. review # <<>> /\ (About(review, manifest) => About(review', manifest))
      BY <1>2, <2>3 DEF About, Decide
    <2> QED BY <1>2, <2>4 DEF Left, DirectoryIsOneStory, ClipsShowTheirPicks, Decide
  <1>3. CASE ~whole'
    BY <1>3 DEF Left
  <1>4. CASE UNCHANGED <<whole, manifest, bridge, thumbnail, approved, clip, shows, linked>>
             /\ (review' = review \/ review' = <<>>)
    BY <1>4 DEF Left, DirectoryIsOneStory, ClipsShowTheirPicks
  <1>5. step # "idle" => ~whole
    BY DEF RunType, OwnPicks
  <1>6. CASE StartResearch
    BY <1>3, <1>6 DEF StartResearch
  <1>7. CASE ReadReview \/ WriteBridge \/ LinkClip \/ BeginClip \/ EndClip \/ RunStops
    BY <1>3, <1>5, <1>7 DEF ReadReview, WriteBridge, LinkClip, BeginClip, EndClip, RunStops
  <1>8. CASE DropReview \/ Refilm
    BY <1>4, <1>8 DEF DropReview, Refilm
  <1> QED
    BY <1>1, <1>2, <1>6, <1>7, <1>8 DEF RunNext
\* One invariant of every run, of reviews beside it and of changes between.
LEMMA RunInvariant == RunSpec => []RunInv
  <1>1. RunInv /\ [RunNext]_runVars => RunInv'
    <2>1. ASSUME RunInv, RunNext PROVE RunInv'
      <3>1. RunType'
        BY <2>1, RunTypeStep DEF RunInv
      <3>2. OwnPicks' /\ BeingCut'
        BY <2>1, <3>1, OwnPicksStep, BeingCutStep
      <3> QED
        BY <2>1, <3>1, <3>2, ShownStep, FilesStep, NamedStep, ApartStep, LeftStep DEF RunInv
    <2>2. ASSUME RunInv, UNCHANGED runVars PROVE RunInv'
      BY <2>2 DEF runVars, RunInv, RunType, OwnPicks, PicturesAre, FilesAre, Through, Named, Apart, BeingCut, Left,
                  DirectoryIsOneStory, ClipsShowTheirPicks
    <2> QED BY <2>1, <2>2
  <1> QED BY RunInvInit, <1>1, PTL DEF RunSpec

-----------------------------------------------------------------------------
(* The theorems.                                                           *)

\* After a run that ended well the directory is read as one story: its
\* manifest, its candidates, its thumbnails and its review are of the same picks,
\* and each of its clips shows one of them, never what an earlier run picked:
\* its own slot's, unless two slots led to one file when the run began, else its
\* own or that of a slot with which it shares its file; for any number of slots,
\* reruns over half a run's files and over hard links, and decisions meanwhile.
THEOREM WholeDirectoryIsOneStory == RunSpec => []DirectoryIsWhole
  <1>1. RunInv => DirectoryIsWhole
    <2> SUFFICES ASSUME RunInv PROVE DirectoryIsWhole
      OBVIOUS
    <2>1. whole => DirectoryIsOneStory
      BY DEF RunInv, Left
    <2>2. DirectoryIsOneStory
      BY <2>1 DEF DirectoryIsOneStory
    <2>3. ClipsShowTheirPicks
      <3>1. whole => ClipsShowTheirPicks
        BY DEF RunInv, Left
      <3> QED BY <3>1 DEF ClipsShowTheirPicks
    <2>4. ReviewedIsShown
      BY <2>2, <2>3 DEF DirectoryIsOneStory, ClipsShowTheirPicks, ReviewedIsShown, About
    <2> QED BY <2>2, <2>3, <2>4 DEF DirectoryIsWhole
  <1> QED BY RunInvariant, <1>1, PTL

\* No run changes or drops a decision that is on file, whatever the footage is
\* picked for by then: one decision at a time, and only on the page, or all of
\* them with their file, and only between runs.
THEOREM NoRunUndecides == RunSpec => DecisionsStand
  <1> DEFINE Stands ==
        review # <<>> /\ review' # review =>
          \/ review' = <<>> /\ step = "idle"
          \/ \E s \in Slots : \A t \in Slots \ {s} :
                review'[t] = review[t] /\ review'[s].window = review[s].window
  <1>1. RunInv /\ [RunNext]_runVars => [Stands]_runVars
    <2> SUFFICES ASSUME RunInv, RunNext, review # <<>>, review' # review PROVE Stands
      OBVIOUS
    <2>1. CASE ReadReview
      BY <2>1 DEF ReadReview, Autodecided
    <2>2. CASE Decide
      <3>1. PICK s \in Slots, status \in Statuses : review' = [review EXCEPT ![s].status = status]
        BY <2>2 DEF Decide
      <3>2. review \in Reviews
        BY DEF RunInv, RunType
      <3>3. /\ review'[s].window = review[s].window
            /\ \A t \in Slots \ {s} : review'[t] = review[t]
        BY <3>1, <3>2 DEF Reviews
      <3> QED BY <3>3
    <2>3. CASE DropReview
      BY <2>3 DEF DropReview
    <2> QED
      BY <2>1, <2>2, <2>3 DEF RunNext, StartResearch, WriteBridge, LinkClip, BeginClip, EndClip,
                              WriteManifest, RunStops, Refilm
  <1> QED BY RunInvariant, <1>1, PTL DEF RunSpec, DecisionsStand
-----------------------------------------------------------------------------
(* The package.                                                            *)

Event   == UNION {Range(Planned[h]) : h \in Highlights}
Cuts    == Highlights \X Picks
Exports == [events : Seq(Event), cut : Cuts]
Clips   == [event : Event, cut : Cuts]
Status  == {"awaiting", "confirmed", "rejected"}
Ways    == {"route", "file", "directory"}
Events  == SUBSET Event
Review  == UNION {[E -> Status] : E \in Events}
Films   == [script : BOOLEAN, whole : Ways \cup {"no"}, cut : Cuts, rejected : Events,
            clips : SUBSET Clips]
Files   == [exports    : Exports \cup {None},
            highlights : Highlights \cup {NoSnapshot},
            picks      : Picks \cup {NoSnapshot},
            evidence   : Review,
            clips      : Seq(Clips),
            manifest   : [events : Seq(Event)] \cup {None},
            script     : [events : Events, cut : Cuts] \cup {None},
            film       : Films \cup {None}]
AfterExports == {"highlights", "picks", "evidence", "clips", "director"}
Runs    == [step : AfterExports \cup {"exports"}, how : Ways \cup {"replay"}, cut : Cuts,
            events : Seq(Event), direct : BOOLEAN, extract : BOOLEAN, was : Ways \cup {"no"},
            at : Nat, confirmed : Events]

PackageType ==
  /\ package \in Files
  /\ run \in Runs \cup {Idle}
  /\ lastWhole \in Ways \cup {"no"}
  /\ told \in Events
  /\ prepares \in Nat

(***************************************************************************)
(* The inductive invariant.  The first part is of the run under way: what  *)
(* it has planned, what it has written of that so far, and how it came by  *)
(* the highlights and picks that the package keeps.                        *)
(***************************************************************************)
Candidates == [events |-> run.events, cut |-> run.cut]
NoneKept   == package.highlights = NoSnapshot /\ package.picks = NoSnapshot
KeptAre(cut) == <<package.highlights, package.picks>> = cut

\* Where its highlights and picks come from, and what is kept of them yet.
Snapshots ==
  /\ run.how = "route" => run.cut = <<0, 0>>
  /\ run.how \in {"route", "file"} => NoneKept /\ run.step \notin {"highlights", "picks"}
  /\ run.how = "directory" =>
        /\ run.step = "picks" => package.highlights = run.cut[1]
        /\ run.step \in {"evidence", "clips", "director"} => KeptAre(run.cut)
  /\ run.how = "replay" => \/ NoneKept /\ run.cut = <<0, 0>> /\ run.step \notin {"highlights", "picks"}
                           \/ package.highlights # NoSnapshot /\ KeptAre(run.cut)

\* What it has written down so far.
Written ==
  /\ run.step \in AfterExports => package.exports = Candidates
  /\ run.step \in {"clips", "director"} => AboutHighlights(run.events)
  /\ run.at <= Len(run.events) /\ run.at <= Len(package.clips)
  /\ \A i \in 1 .. run.at : package.clips[i] = [event |-> run.events[i], cut |-> run.cut]
  /\ run.step = "director" =>
        /\ package.manifest = [events |-> IF run.extract THEN run.events ELSE <<>>]
        /\ run.extract => run.at = Len(run.events)

\* A replay of a package that was whole finds the candidates it will write.
Repeats ==
  run.step = "exports" /\ run.how = "replay" /\ run.was \in {"route", "directory"} =>
      package.exports = Candidates

\* What it will tell its director of is among the events it has planned.
OfItsEvents == run # Idle /\ run.step \in {"clips", "director"} =>
                  run.confirmed \subseteq Range(run.events)

UnderWay == run # Idle => /\ lastWhole = "no"
                          /\ run.events = Planned[run.cut[1]]
                          /\ Snapshots /\ Written /\ Repeats

\* The candidates on file are those planned under the highlights they name.
AsPlanned == package.exports # None => package.exports.events = Planned[package.exports.cut[1]]

\* What the last run left, when it ended well.
WholeAs == lastWhole # "no" =>
  /\ package.exports # None /\ package.manifest # None
  /\ PackageAgrees
  /\ Len(package.clips) >= Len(package.manifest.events)
  /\ lastWhole = "route" => NoneKept /\ package.exports.cut = <<0, 0>>

PackageInv == /\ PackageType /\ UnderWay /\ OfItsEvents /\ AsPlanned /\ WholeAs
              /\ EvidenceStands /\ ScriptTells /\ FilmIsConfirmed
-----------------------------------------------------------------------------
(* Lemmas about the operators.                                             *)

\* What is planned is events, in a sequence.
LEMMA PlannedType == \A h \in Highlights : Planned[h] \in Seq(Event) /\ Range(Planned[h]) \in Events
  <1> SUFFICES ASSUME NEW h \in Highlights
               PROVE  Planned[h] \in Seq(Event) /\ Range(Planned[h]) \in Events
    OBVIOUS
  <1>1. Planned[h] \in Seq(Range(Planned[h]))
    BY PackageAssumption
  <1>2. Range(Planned[h]) \in Events
    BY DEF Event, Events
  <1> QED BY <1>1, <1>2 DEF Events

\* The events of a sequence, and the place of one of them in it.
LEMMA PlacesOf ==
    ASSUME NEW es \in Seq(Event)
    PROVE  /\ Range(es) \in Events
           /\ \A e \in Range(es) : \E i \in 1 .. Len(es) : es[i] = e
           /\ \A i \in 1 .. Len(es) : es[i] \in Range(es)
           /\ Range(es) = {es[i] : i \in 1 .. Len(es)}
  <1>1. DOMAIN es = 1 .. Len(es) /\ \A i \in 1 .. Len(es) : es[i] \in Event
    OBVIOUS
  <1>2. Range(es) = {es[i] : i \in 1 .. Len(es)}
    BY <1>1 DEF Range
  <1> QED BY <1>1, <1>2 DEF Events

\* Decisions about all the events of a plan, all of them confirmed.
LEMMA FreshReview ==
    ASSUME NEW es \in Seq(Event)
    PROVE  /\ [e \in Range(es) |-> "confirmed"] \in Review
           /\ DOMAIN [e \in Range(es) |-> "confirmed"] = Range(es)
  <1>1. Range(es) \in Events
    BY PlacesOf
  <1>2. [e \in Range(es) |-> "confirmed"] \in [Range(es) -> Status]
    BY DEF Status
  <1> QED BY <1>1, <1>2 DEF Review

\* A review is of some events; one decision changed, it is of the same.
LEMMA ReviewChanged ==
    ASSUME NEW r \in Review, NEW e \in DOMAIN r, NEW status \in Status
    PROVE  [r EXCEPT ![e] = status] \in Review
  <1>1. PICK E \in Events : r \in [E -> Status]
    BY DEF Review
  <1>2. [r EXCEPT ![e] = status] \in [E -> Status]
    BY <1>1
  <1> QED BY <1>1, <1>2 DEF Review

\* Of a review, the events decided in one way are among its events.
LEMMA DecidedType ==
    ASSUME package \in Files, NEW status
    PROVE  Decided(status) \in Events /\ DOMAIN package.evidence \in Events
  <1>1. PICK E \in Events : package.evidence \in [E -> Status]
    BY DEF Files, Review
  <1> QED BY <1>1 DEF Decided, Events

\* A run that is past its start is a run.
LEMMA RunGoes ==
    ASSUME PackageType, run # Idle
    PROVE  run \in Runs
  BY DEF PackageType

LEMMA IdleStep == Idle.step = "idle" /\ Idle \notin Runs
  <1>1. Idle.step = "idle"
    BY DEF Idle
  <1>2. \A r \in Runs : r.step # "idle"
    BY DEF Runs, AfterExports
  <1> QED BY <1>1, <1>2

\* Files that are there are not the file that is not there.
LEMMA NotNone == None \notin Exports /\ None \notin [events : Seq(Event)]
                 /\ None \notin [events : Events, cut : Cuts] /\ None \notin Films
  <1>1. DOMAIN None = {"absent"}
    BY DEF None
  <1> QED BY <1>1 DEF Exports, Films

\* One file of the directory is written, and no other.
LEMMA OneFile ==
    ASSUME package \in Files
    PROVE  /\ \A x \in Exports : [package EXCEPT !.exports = x] \in Files
           /\ \A x \in Highlights : [package EXCEPT !.highlights = x] \in Files
           /\ \A x \in Picks : [package EXCEPT !.picks = x] \in Files
           /\ \A x \in Review : [package EXCEPT !.evidence = x] \in Files
           /\ \A x \in Seq(Clips) : [package EXCEPT !.clips = x] \in Files
           /\ \A x \in Seq(Event) : [package EXCEPT !.manifest = [events |-> x]] \in Files
           /\ \A x \in Events, c \in Cuts :
                 [package EXCEPT !.script = [events |-> x, cut |-> c]] \in Files
           /\ \A x \in Films : [package EXCEPT !.film = x] \in Files
  BY DEF Files
-----------------------------------------------------------------------------
(* Every step keeps the types.                                             *)

\* A run begins as a run: its events are planned, and nothing is written.
LEMMA StartType ==
    ASSUME PackageType, NEW how \in Ways \cup {"replay"}, NEW h \in Highlights, NEW p \in Picks,
           NEW direct \in BOOLEAN, NEW extract \in BOOLEAN, Start(how, h, p, direct, extract)
    PROVE  /\ PackageType' /\ run' \in Runs
           /\ UNCHANGED <<package, human>> /\ lastWhole' = "no"
           /\ run'.step = "exports" /\ run'.how = how /\ run'.cut = <<h, p>>
           /\ run'.events = Planned[h] /\ run'.was = lastWhole /\ run'.at = 0
  <1>1. Planned[h] \in Seq(Event)
    BY PlannedType
  <1>2. {} \in Events /\ 0 \in Nat /\ <<h, p>> \in Cuts
    BY DEF Events, Cuts
  <1>3. run' \in Runs
    BY <1>1, <1>2 DEF Start, Runs, PackageType
  <1> QED BY <1>2, <1>3 DEF Start, PackageType

\* What each beginning of a run starts it with.
LEMMA Beginnings ==
    ASSUME PackageType, Prepare \/ Replay
    PROVE  /\ run = Idle
           /\ \E how \in Ways \cup {"replay"}, h \in Highlights, p \in Picks, direct, extract \in BOOLEAN :
                 /\ Start(how, h, p, direct, extract)
                 /\ how = "route" => h = 0 /\ p = 0
                 /\ how \in {"route", "file"} => NoneKept
                 /\ how = "replay" =>
                      /\ package.exports # None
                      /\ \/ NoneKept /\ h = 0 /\ p = 0
                         \/ package.highlights # NoSnapshot /\ KeptAre(<<h, p>>)
  <1>1. 0 \in Highlights /\ 0 \in Picks
    BY PackageAssumption
  <1>2. CASE Prepare
    <2>1. PICK over, direct, extract \in BOOLEAN :
            \/ Start("route", 0, 0, direct, extract)
            \/ \E given \in Highlights \ {0} : Start("file", given, 0, direct, extract)
            \/ \E given \in Highlights \ {0}, picks \in Picks :
                  Start("directory", given, picks, direct, extract)
      BY <1>2 DEF Prepare
    <2>2. NoneKept \/ run'.how = "directory"
      BY <1>2 DEF Prepare, NoneKept
    <2>3. run = Idle
      BY <1>2 DEF Prepare
    <2>4. CASE Start("route", 0, 0, direct, extract)
      <3>1. run'.how = "route"
        BY <1>1, <2>4, StartType DEF Ways
      <3> QED BY <1>1, <2>2, <2>3, <2>4, <3>1 DEF Ways
    <2>5. CASE \E given \in Highlights \ {0} : Start("file", given, 0, direct, extract)
      <3>1. PICK given \in Highlights \ {0} : Start("file", given, 0, direct, extract)
        BY <2>5
      <3>2. run'.how = "file"
        BY <1>1, <3>1, StartType DEF Ways
      <3> QED BY <1>1, <2>2, <2>3, <3>1, <3>2 DEF Ways
    <2>6. CASE \E given \in Highlights \ {0}, picks \in Picks :
                  Start("directory", given, picks, direct, extract)
      BY <2>3, <2>6 DEF Ways
    <2> QED BY <2>1, <2>4, <2>5, <2>6
  <1>3. CASE Replay
    <2>1. run = Idle /\ package.exports # None
          /\ ((package.highlights = NoSnapshot) <=> (package.picks = NoSnapshot))
      BY <1>3 DEF Replay, Replayable
    <2>2. CASE package.highlights = NoSnapshot
      <3>1. Start("replay", 0, 0, TRUE, TRUE)
        BY <1>3, <2>2 DEF Replay
      <3> QED BY <1>1, <2>1, <2>2, <3>1 DEF NoneKept
    <2>3. CASE package.highlights # NoSnapshot
      <3>1. Start("replay", package.highlights, package.picks, TRUE, TRUE)
        BY <1>3, <2>3 DEF Replay
      <3>2. package.highlights \in Highlights /\ package.picks \in Picks
        BY <2>1, <2>3 DEF PackageType, Files
      <3> QED BY <2>1, <2>3, <3>1, <3>2 DEF KeptAre
    <2> QED BY <2>2, <2>3
  <1> QED BY <1>2, <1>3

\* The clip a film takes for an event of the manifest is one that is there.
LEMMA ShownType ==
    ASSUME PackageType, package.manifest # None,
           Len(package.clips) >= Len(package.manifest.events),
           NEW e \in Range(package.manifest.events)
    PROVE  \E i \in 1 .. Len(package.manifest.events) :
              /\ package.manifest.events[i] = e
              /\ i \in 1 .. Len(package.clips)
              /\ ClipOf(e) = package.clips[i] /\ ClipOf(e) \in Clips
  <1> DEFINE es == package.manifest.events
  <1>1. es \in Seq(Event) /\ package.clips \in Seq(Clips)
    BY DEF PackageType, Files
  <1>2. \E i \in DOMAIN es : es[i] = e
    BY <1>1, PlacesOf
  <1> DEFINE i == CHOOSE x \in DOMAIN es : es[x] = e
  <1>3. i \in 1 .. Len(es) /\ es[i] = e /\ ClipOf(e) = package.clips[i]
    BY <1>1, <1>2 DEF ClipOf
  <1> HIDE DEF i
  <1>4. i \in 1 .. Len(package.clips)
    BY <1>1, <1>3
  <1>5. package.clips[i] \in Clips
    BY <1>1, <1>4
  <1> QED BY <1>3, <1>4, <1>5

\* The parts of a run.
LEMMA RunParts ==
    ASSUME run \in Runs
    PROVE  /\ run.events \in Seq(Event) /\ run.cut \in Cuts /\ run.at \in Nat
           /\ run.cut[1] \in Highlights /\ run.cut[2] \in Picks
           /\ run.confirmed \in Events /\ Range(run.events) \in Events
           /\ run.extract \in BOOLEAN
           /\ Len(run.events) \in Nat /\ Candidates \in Exports
           /\ run # Idle
  <1>1. run.events \in Seq(Event) /\ run.cut \in Cuts /\ run.at \in Nat /\ run.confirmed \in Events
        /\ run.extract \in BOOLEAN
    BY DEF Runs
  <1>2. Range(run.events) \in Events
    BY <1>1, PlacesOf
  <1>3. run.cut[1] \in Highlights /\ run.cut[2] \in Picks
    BY <1>1 DEF Cuts
  <1>4. Candidates \in Exports
    BY <1>1 DEF Candidates, Exports
  <1> QED BY <1>1, <1>2, <1>3, <1>4, IdleStep

\* A run goes to another step, and is the same run.
LEMMA ToStep ==
    ASSUME run \in Runs, NEW st \in AfterExports
    PROVE  /\ To(st) \in Runs
           /\ To(st).step = st /\ To(st).how = run.how /\ To(st).cut = run.cut
           /\ To(st).events = run.events /\ To(st).extract = run.extract /\ To(st).was = run.was
           /\ To(st).at = run.at /\ To(st).confirmed = run.confirmed /\ To(st).direct = run.direct
  BY DEF To, Runs

LEMMA PackageTypeStep ==
    ASSUME PackageType, PackageNext
    PROVE  PackageType'
  <1>1. CASE Prepare \/ Replay
    BY <1>1, Beginnings, StartType
  <1>2. CASE run.step # "idle" /\ (WriteExports \/ KeepHighlights \/ KeepPicks \/ ReadEvidence
                                   \/ CutReviewClip \/ WriteClipManifest \/ WriteScript \/ RunFails)
    <2>1. run \in Runs
      BY <1>2, RunGoes, IdleStep
    <2> USE <2>1, RunParts
    <2>2. CASE WriteExports
      <3>1. package' = [package EXCEPT !.exports = Candidates]
        BY <2>2 DEF WriteExports, Candidates
      <3>2. run' = To("highlights") \/ run' = To("evidence")
        BY <2>2 DEF WriteExports
      <3>3. run' \in Runs
        BY <3>2, ToStep DEF AfterExports
      <3> QED BY <2>2, <3>1, <3>3, OneFile DEF WriteExports, PackageType
    <2>3. CASE KeepHighlights
      <3>1. To("picks") \in Runs
        BY ToStep DEF AfterExports
      <3> QED BY <2>3, <3>1, OneFile DEF KeepHighlights, PackageType
    <2>4. CASE KeepPicks
      <3>1. To("evidence") \in Runs
        BY ToStep DEF AfterExports
      <3> QED BY <2>4, <3>1, OneFile DEF KeepPicks, PackageType
    <2>5. CASE ReadEvidence
      <3>1. /\ \/ package' = package
               \/ package' = [package EXCEPT !.evidence = [e \in Range(run.events) |-> "confirmed"]]
            /\ run' = Idle \/ \E c \in Events : run' = [To("clips") EXCEPT !.confirmed = c]
        BY <2>5, DecidedType DEF ReadEvidence, Stop, PackageType
      <3>2. package' \in Files
        BY <3>1, FreshReview, OneFile DEF PackageType
      <3>3. \A c \in Events : [To("clips") EXCEPT !.confirmed = c] \in Runs
        <4>1. To("clips") \in Runs
          BY ToStep DEF AfterExports
        <4> QED BY <4>1 DEF Runs
      <3>4. run' \in Runs \cup {Idle}
        BY <3>1, <3>3
      <3> QED BY <2>5, <3>2, <3>4 DEF ReadEvidence, PackageType
    <2>6. CASE CutReviewClip
      <3> DEFINE place == run.at + 1
                 shown == [event |-> run.events[place], cut |-> run.cut]
                 cs    == package.clips
      <3>1. package' = [package EXCEPT !.clips =
                IF place <= Len(cs) THEN [cs EXCEPT ![place] = shown] ELSE Append(cs, shown)]
        BY <2>6 DEF CutReviewClip, PackageType, Files
      <3>2. place \in 1 .. Len(run.events)
        BY <2>6 DEF CutReviewClip
      <3>3. shown \in Clips
        BY <3>2 DEF Clips
      <3>4. cs \in Seq(Clips)
        BY DEF PackageType, Files
      <3>5. (IF place <= Len(cs) THEN [cs EXCEPT ![place] = shown] ELSE Append(cs, shown)) \in Seq(Clips)
        BY <3>2, <3>3, <3>4
      <3>6. package' \in Files
        BY <3>1, <3>5, OneFile DEF PackageType
      <3>7. run' \in Runs
        BY <2>6 DEF CutReviewClip, Runs
      <3> QED BY <2>6, <3>6, <3>7 DEF CutReviewClip, PackageType
    <2>7. CASE WriteClipManifest
      <3>1. To("director") \in Runs
        BY ToStep DEF AfterExports
      <3>2. (IF run.extract THEN run.events ELSE <<>>) \in Seq(Event)
        OBVIOUS
      <3>3. package' \in Files
        BY <2>7, <3>2, OneFile DEF WriteClipManifest, PackageType
      <3> QED BY <2>7, <3>1, <3>3 DEF WriteClipManifest, PackageType
    <2>8. CASE WriteScript
      <3>1. package' \in Files
        BY <2>8, OneFile DEF WriteScript, PackageType
      <3>2. lastWhole' \in Ways
        BY <2>8 DEF WriteScript, Ways, Runs
      <3>3. told' \in Events
        BY <2>8 DEF WriteScript, Runs, Events
      <3> QED BY <2>8, <3>1, <3>2, <3>3 DEF WriteScript, PackageType
    <2>9. CASE RunFails
      BY <2>9 DEF RunFails, Stop, PackageType
    <2> QED BY <1>2, <2>2, <2>3, <2>4, <2>5, <2>6, <2>7, <2>8, <2>9
  <1>3. CASE DecideEvidence
    <2>1. PICK e \in Range(package.manifest.events), status \in Status :
             package' = [package EXCEPT !.evidence[e] = status]
      BY <1>3 DEF DecideEvidence, Status
    <2>2. e \in DOMAIN package.evidence
      BY <1>3 DEF DecideEvidence, AboutHighlights
    <2>3. package.evidence \in Review
      BY DEF PackageType, Files
    <2>4. [package.evidence EXCEPT ![e] = status] \in Review
      BY <2>2, <2>3, ReviewChanged
    <2>5. package' = [package EXCEPT !.evidence = [package.evidence EXCEPT ![e] = status]]
      BY <2>1
    <2>6. package' \in Files
      BY <2>4, <2>5, OneFile DEF PackageType
    <2> QED BY <1>3, <2>6 DEF DecideEvidence, PackageType
  <1>4. CASE \E script \in BOOLEAN : RenderFilm(script)
    <2>1. PICK script \in BOOLEAN : RenderFilm(script)
      BY <1>4
    <2> DEFINE es == IF script THEN package.script.events ELSE Range(package.manifest.events)
               new == [script |-> script, whole |-> lastWhole, cut |-> package.exports.cut,
                       rejected |-> Decided("rejected"), clips |-> Shown(es)]
    <2>2. es = Range(package.manifest.events) /\ package.manifest # None /\ package.exports # None
          /\ Len(package.clips) >= Len(package.manifest.events)
      BY <2>1 DEF RenderFilm, Renderable
    <2>3. Shown(es) \in SUBSET Clips
      BY <2>2, ShownType DEF Shown
    <2>4. package.exports.cut \in Cuts
      BY <2>2 DEF PackageType, Files, Exports
    <2>5. Decided("rejected") \in Events
      BY DecidedType DEF PackageType
    <2>6. new \in Films
      BY <2>3, <2>4, <2>5 DEF Films, PackageType
    <2>7. package' = [package EXCEPT !.film = new]
      BY <2>1 DEF RenderFilm
    <2>8. package' \in Files
      BY <2>6, <2>7, OneFile DEF PackageType
    <2> QED BY <2>1, <2>8 DEF RenderFilm, PackageType
  <1>5. WriteExports \/ KeepHighlights \/ KeepPicks \/ ReadEvidence \/ CutReviewClip
           \/ WriteClipManifest \/ WriteScript \/ RunFails => run.step # "idle"
    BY DEF WriteExports, KeepHighlights, KeepPicks, ReadEvidence, CutReviewClip, WriteClipManifest,
           WriteScript, RunFails
  <1> QED BY <1>1, <1>2, <1>3, <1>4, <1>5 DEF PackageNext

-----------------------------------------------------------------------------
(* Who writes which file.                                                  *)

\* Of a directory one file is written; the others are as they were.
LEMMA OtherFiles ==
    ASSUME package \in Files, NEW x
    PROVE  /\ LET q == [package EXCEPT !.exports = x] IN
                /\ q.exports = x
                /\ q.highlights = package.highlights /\ q.picks = package.picks
                /\ q.evidence = package.evidence /\ q.clips = package.clips
                /\ q.manifest = package.manifest /\ q.film = package.film
           /\ LET q == [package EXCEPT !.highlights = x] IN
                /\ q.highlights = x
                /\ q.exports = package.exports /\ q.picks = package.picks
                /\ q.evidence = package.evidence /\ q.clips = package.clips
                /\ q.manifest = package.manifest /\ q.film = package.film
           /\ LET q == [package EXCEPT !.picks = x] IN
                /\ q.picks = x
                /\ q.exports = package.exports /\ q.highlights = package.highlights
                /\ q.evidence = package.evidence /\ q.clips = package.clips
                /\ q.manifest = package.manifest /\ q.film = package.film
           /\ LET q == [package EXCEPT !.evidence = x] IN
                /\ q.evidence = x
                /\ q.exports = package.exports /\ q.highlights = package.highlights
                /\ q.picks = package.picks /\ q.clips = package.clips
                /\ q.manifest = package.manifest /\ q.film = package.film
           /\ LET q == [package EXCEPT !.clips = x] IN
                /\ q.clips = x
                /\ q.exports = package.exports /\ q.highlights = package.highlights
                /\ q.picks = package.picks /\ q.evidence = package.evidence
                /\ q.manifest = package.manifest /\ q.film = package.film
           /\ LET q == [package EXCEPT !.manifest = x] IN
                /\ q.manifest = x
                /\ q.exports = package.exports /\ q.highlights = package.highlights
                /\ q.picks = package.picks /\ q.evidence = package.evidence
                /\ q.clips = package.clips /\ q.film = package.film
           /\ LET q == [package EXCEPT !.script = x] IN
                /\ q.exports = package.exports /\ q.highlights = package.highlights
                /\ q.picks = package.picks /\ q.evidence = package.evidence
                /\ q.clips = package.clips /\ q.manifest = package.manifest /\ q.film = package.film
           /\ LET q == [package EXCEPT !.film = x] IN
                /\ q.film = x
                /\ q.exports = package.exports /\ q.highlights = package.highlights
                /\ q.picks = package.picks /\ q.evidence = package.evidence
                /\ q.clips = package.clips /\ q.manifest = package.manifest
  BY DEF Files

\* What the owner decides is one of the events there are decisions about.
LEMMA Deciding ==
    ASSUME PackageType, DecideEvidence
    PROVE  /\ \E e \in DOMAIN package.evidence, status \in Status :
                 /\ package'.evidence = [package.evidence EXCEPT ![e] = status]
                 /\ human' = [x \in DOMAIN human \cup {e} |-> IF x = e THEN status ELSE human[x]]
           /\ DOMAIN package'.evidence = DOMAIN package.evidence
           /\ package'.exports = package.exports /\ package'.highlights = package.highlights
           /\ package'.picks = package.picks /\ package'.clips = package.clips
           /\ package'.manifest = package.manifest /\ package'.film = package.film
           /\ UNCHANGED <<run, lastWhole, prepares>>
  <1>1. PICK e \in Range(package.manifest.events), status \in Status :
           /\ package' = [package EXCEPT !.evidence[e] = status]
           /\ human' = [x \in DOMAIN human \cup {e} |-> IF x = e THEN status ELSE human[x]]
    BY DEF DecideEvidence, Status
  <1>2. e \in DOMAIN package.evidence
    BY DEF DecideEvidence, AboutHighlights
  <1>3. package' = [package EXCEPT !.evidence = [package.evidence EXCEPT ![e] = status]]
    BY <1>1
  <1>4. /\ package'.evidence = [package.evidence EXCEPT ![e] = status]
        /\ package'.exports = package.exports /\ package'.highlights = package.highlights
        /\ package'.picks = package.picks /\ package'.clips = package.clips
        /\ package'.manifest = package.manifest /\ package'.film = package.film
    BY <1>3, OtherFiles DEF PackageType
  <1> QED BY <1>1, <1>2, <1>4 DEF DecideEvidence

\* Reading the decisions ends the run, or they are about its events from then
\* on: as they were, or all confirmed where there were none.
LEMMA Reading ==
    ASSUME PackageType, ReadEvidence
    PROVE  /\ run' = Idle
              \/ /\ DOMAIN package'.evidence = Range(run.events)
                 /\ run'.step = "clips" /\ run'.how = run.how /\ run'.cut = run.cut
                 /\ run'.events = run.events /\ run'.extract = run.extract /\ run'.at = run.at
                 /\ run'.was = run.was
           /\ package'.evidence = package.evidence \/ package.evidence = <<>>
           /\ package'.exports = package.exports /\ package'.highlights = package.highlights
           /\ package'.picks = package.picks /\ package'.clips = package.clips
           /\ package'.manifest = package.manifest /\ package'.film = package.film
           /\ UNCHANGED <<lastWhole, human, prepares>>
  <1>1. run \in Runs
    BY RunGoes, IdleStep DEF ReadEvidence
  <1>2. /\ To("clips").step = "clips" /\ To("clips") \in Runs /\ To("clips").how = run.how
        /\ To("clips").cut = run.cut /\ To("clips").events = run.events
        /\ To("clips").extract = run.extract /\ To("clips").at = run.at /\ To("clips").was = run.was
    BY <1>1, ToStep DEF AfterExports
  <1>3. \A c : LET r == [To("clips") EXCEPT !.confirmed = c] IN
                 /\ r.step = "clips" /\ r.how = run.how /\ r.cut = run.cut /\ r.events = run.events
                 /\ r.extract = run.extract /\ r.at = run.at /\ r.was = run.was
    BY <1>2 DEF Runs
  <1>4. CASE package.evidence = <<>>
    <2>1. package' = [package EXCEPT !.evidence = [e \in Range(run.events) |-> "confirmed"]]
          /\ run' = [To("clips") EXCEPT !.confirmed = Range(run.events)]
      BY <1>4 DEF ReadEvidence
    <2>2. DOMAIN package'.evidence = Range(run.events)
      BY <2>1, OtherFiles DEF PackageType
    <2> QED BY <1>3, <1>4, <2>1, <2>2, OtherFiles DEF PackageType, ReadEvidence
  <1>5. CASE package.evidence # <<>>
    <2>1. package' = package
      BY <1>5 DEF ReadEvidence
    <2>2. run' = Idle \/ /\ DOMAIN package.evidence = Range(run.events)
                         /\ run' = [To("clips") EXCEPT !.confirmed = Decided("confirmed")]
      BY <1>5 DEF ReadEvidence, AboutHighlights, Stop
    <2> QED BY <1>3, <2>1, <2>2 DEF ReadEvidence
  <1> QED BY <1>4, <1>5

\* Each file has one writer: whatever other step is taken leaves it as it was.
LEMMA Frames ==
    ASSUME PackageType, PackageNext
    PROVE  /\ package'.evidence = package.evidence \/ ReadEvidence \/ DecideEvidence
           /\ package'.exports = package.exports \/ (WriteExports /\ package'.exports = Candidates)
           /\ package'.highlights = package.highlights
                \/ (KeepHighlights /\ package'.highlights = run.cut[1])
           /\ package'.picks = package.picks \/ (KeepPicks /\ package'.picks = run.cut[2])
           /\ package'.clips = package.clips \/ CutReviewClip
           /\ package'.manifest = package.manifest \/ WriteClipManifest
           /\ package'.film = package.film \/ \E script \in BOOLEAN : RenderFilm(script)
           /\ human' = human \/ DecideEvidence
  <1> USE DEF PackageType
  <1>1. CASE ReadEvidence
    BY <1>1, Reading
  <1>2. CASE DecideEvidence
    BY <1>2, Deciding
  <1>3. CASE WriteExports
    <2>1. package' = [package EXCEPT !.exports = Candidates] /\ human' = human
      BY <1>3 DEF WriteExports, Candidates
    <2> QED BY <1>3, <2>1, OtherFiles
  <1>4. CASE KeepHighlights
    <2>1. package' = [package EXCEPT !.highlights = run.cut[1]] /\ human' = human
      BY <1>4 DEF KeepHighlights
    <2> QED BY <1>4, <2>1, OtherFiles
  <1>5. CASE KeepPicks
    <2>1. package' = [package EXCEPT !.picks = run.cut[2]] /\ human' = human
      BY <1>5 DEF KeepPicks
    <2> QED BY <1>5, <2>1, OtherFiles
  <1>6. CASE CutReviewClip
    <2>1. PICK x : package' = [package EXCEPT !.clips = x]
      BY <1>6 DEF CutReviewClip
    <2> QED BY <1>6, <2>1, OtherFiles DEF CutReviewClip
  <1>7. CASE WriteClipManifest
    <2>1. PICK x : package' = [package EXCEPT !.manifest = x]
      BY <1>7 DEF WriteClipManifest
    <2> QED BY <1>7, <2>1, OtherFiles DEF WriteClipManifest
  <1>8. CASE WriteScript
    <2>1. package' = package \/ \E x : package' = [package EXCEPT !.script = x]
      BY <1>8 DEF WriteScript
    <2> QED BY <1>8, <2>1, OtherFiles DEF WriteScript
  <1>9. CASE \E script \in BOOLEAN : RenderFilm(script)
    <2>1. (\E x : package' = [package EXCEPT !.film = x]) /\ human' = human
      BY <1>9 DEF RenderFilm
    <2> QED BY <1>9, <2>1, OtherFiles
  <1>10. CASE Prepare \/ Replay
    <2>1. ASSUME NEW how, NEW h, NEW p, NEW direct, NEW extract, Start(how, h, p, direct, extract)
          PROVE  package' = package /\ human' = human
      BY <2>1 DEF Start
    <2> QED BY <1>10, <2>1 DEF Prepare, Replay
  <1>11. CASE RunFails
    BY <1>11 DEF RunFails
  <1> QED
    BY <1>1, <1>2, <1>3, <1>4, <1>5, <1>6, <1>7, <1>8, <1>9, <1>10, <1>11 DEF PackageNext

-----------------------------------------------------------------------------
(* The owner's decisions.                                                  *)

\* Decisions are made anew only where there are none, so none is lost.
LEMMA EvidenceStep ==
    ASSUME PackageType, EvidenceStands, PackageNext
    PROVE  EvidenceStands'
  <1>1. CASE DecideEvidence
    <2>1. PICK e \in DOMAIN package.evidence, status \in Status :
            /\ package'.evidence = [package.evidence EXCEPT ![e] = status]
            /\ human' = [x \in DOMAIN human \cup {e} |-> IF x = e THEN status ELSE human[x]]
      BY <1>1, Deciding
    <2>2. \A x \in DOMAIN human' : x \in DOMAIN package.evidence
                                   /\ human'[x] = IF x = e THEN status ELSE human[x]
      BY <2>1 DEF EvidenceStands
    <2>3. \A x \in DOMAIN package.evidence :
             package'.evidence[x] = IF x = e THEN status ELSE package.evidence[x]
      BY <2>1
    <2>4. DOMAIN package'.evidence = DOMAIN package.evidence
      BY <2>1
    <2>5. \A x \in DOMAIN human' : x # e => x \in DOMAIN human
      BY <2>1
    <2> QED BY <2>2, <2>3, <2>4, <2>5 DEF EvidenceStands
  <1>2. CASE ReadEvidence
    <2>1. human' = human /\ (package'.evidence = package.evidence \/ package.evidence = <<>>)
      BY <1>2, Reading
    <2>2. package.evidence = <<>> => DOMAIN human = {}
      <3>1. DOMAIN <<>> = {}
        OBVIOUS
      <3>2. \A e \in DOMAIN human : e \in DOMAIN package.evidence
        BY DEF EvidenceStands
      <3> QED BY <3>1, <3>2
    <2> QED BY <2>1, <2>2 DEF EvidenceStands
  <1>3. CASE package'.evidence = package.evidence /\ human' = human
    BY <1>3 DEF EvidenceStands
  <1> QED BY <1>1, <1>2, <1>3, Frames
-----------------------------------------------------------------------------
(* The run under way.                                                      *)

\* The candidates on file are written by one step, from a plan.
LEMMA AsPlannedStep ==
    ASSUME PackageType, UnderWay, AsPlanned, PackageNext
    PROVE  AsPlanned'
  <1>1. CASE package'.exports = package.exports
    BY <1>1 DEF AsPlanned
  <1>2. CASE WriteExports /\ package'.exports = Candidates
    <2>1. run # Idle
      BY <1>2, IdleStep DEF WriteExports
    <2>2. package'.exports.events = run.events /\ package'.exports.cut = run.cut
      BY <1>2 DEF Candidates
    <2> QED BY <2>1, <2>2 DEF UnderWay, AsPlanned
  <1> QED BY <1>1, <1>2, Frames

\* A beginning: the last run has ended, and nothing is written of this one.
LEMMA BeginStep ==
    ASSUME PackageInv, Prepare \/ Replay
    PROVE  UnderWay'
  <1> USE DEF PackageInv
  <1>1. PICK how \in Ways \cup {"replay"}, h \in Highlights, p \in Picks, direct, extract \in BOOLEAN :
           /\ Start(how, h, p, direct, extract)
           /\ how = "route" => h = 0 /\ p = 0
           /\ how \in {"route", "file"} => NoneKept
           /\ how = "replay" =>
                /\ package.exports # None
                /\ \/ NoneKept /\ h = 0 /\ p = 0
                   \/ package.highlights # NoSnapshot /\ KeptAre(<<h, p>>)
    BY Beginnings
  <1>2. /\ run' \in Runs /\ package' = package /\ lastWhole' = "no"
        /\ run'.step = "exports" /\ run'.how = how /\ run'.cut = <<h, p>>
        /\ run'.events = Planned[h] /\ run'.was = lastWhole /\ run'.at = 0
    BY <1>1, StartType
  <1>3. Snapshots'
    BY <1>1, <1>2 DEF Snapshots, NoneKept, KeptAre
  <1>4. Written'
    <2>1. Len(Planned[h]) \in Nat /\ Len(package.clips) \in Nat
      BY PlannedType DEF PackageType, Files
    <2> QED BY <1>2, <2>1 DEF Written, AfterExports
  <1>5. Repeats'
    <2>1. SUFFICES ASSUME how = "replay", lastWhole \in {"route", "directory"}
                   PROVE  package.exports = [events |-> Planned[h], cut |-> <<h, p>>]
      BY <1>2 DEF Repeats, Candidates
    <2>2. /\ package.exports # None /\ PackageAgrees
          /\ lastWhole = "route" => NoneKept /\ package.exports.cut = <<0, 0>>
      BY <2>1 DEF WholeAs
    <2>3. package.exports \in Exports
      BY <2>2 DEF PackageType, Files
    <2>4. package.exports.cut = <<h, p>>
      <3>1. CASE lastWhole = "route"
        BY <1>1, <2>1, <2>2, <3>1 DEF NoneKept
      <3>2. CASE lastWhole = "directory"
        <4>1. <<package.highlights, package.picks>> = package.exports.cut
          BY <2>2, <3>2 DEF PackageAgrees
        <4>2. package.highlights \in Highlights
          BY <2>3, <4>1 DEF Exports, Cuts
        <4>3. package.highlights # NoSnapshot
          BY <4>2, PackageAssumption
        <4> QED BY <1>1, <2>1, <4>1, <4>3 DEF NoneKept, KeptAre
      <3> QED BY <2>1, <3>1, <3>2
    <2>5. package.exports.events = Planned[h]
      BY <2>2, <2>4 DEF AsPlanned
    <2> QED BY <2>3, <2>4, <2>5 DEF Exports
  <1> QED BY <1>2, <1>3, <1>4, <1>5 DEF UnderWay

\* What one clip more comes to.
LEMMA OneClipMore ==
    ASSUME PackageType, UnderWay, CutReviewClip
    PROVE  /\ run'.at = run.at + 1 /\ run'.at <= Len(run.events) /\ run'.at <= Len(package'.clips)
           /\ \A i \in 1 .. run'.at :
                 package'.clips[i] = [event |-> run.events[i], cut |-> run.cut]
           /\ run'.step = "clips" /\ run'.how = run.how /\ run'.cut = run.cut
           /\ run'.events = run.events /\ run'.was = run.was /\ run.step = "clips"
  <1>1. run \in Runs /\ Written
    BY RunGoes, IdleStep DEF CutReviewClip, UnderWay
  <1> DEFINE place == run.at + 1
             shown == [event |-> run.events[place], cut |-> run.cut]
             cs    == package.clips
             new   == IF place <= Len(cs) THEN [cs EXCEPT ![place] = shown] ELSE Append(cs, shown)
  <1>2. cs \in Seq(Clips) /\ run.at \in Nat /\ Len(run.events) \in Nat
    BY <1>1, RunParts DEF PackageType, Files
  <1>3. package' = [package EXCEPT !.clips = new]
    BY DEF CutReviewClip, PackageType, Files
  <1>4. package'.clips = new
    BY <1>3, OtherFiles DEF PackageType
  <1>5. place <= Len(run.events) /\ run.at <= Len(cs)
    BY <1>1, <1>2 DEF CutReviewClip, Written
  <1>6. place <= Len(new) /\ new[place] = shown /\ \A i \in 1 .. run.at : new[i] = cs[i]
    <2>1. CASE place <= Len(cs)
      BY <1>2, <2>1
    <2>2. CASE place = Len(cs) + 1
      BY <1>2, <2>2
    <2> QED BY <1>2, <1>5, <2>1, <2>2
  <1>7. /\ run'.at = place /\ run'.step = run.step /\ run'.how = run.how /\ run'.cut = run.cut
        /\ run'.events = run.events /\ run'.was = run.was /\ run.step = "clips"
    BY <1>1 DEF CutReviewClip, Runs
  <1> HIDE DEF new
  <1>8. \A i \in 1 .. place : new[i] = [event |-> run.events[i], cut |-> run.cut]
    <2>1. \A i \in 1 .. run.at : new[i] = [event |-> run.events[i], cut |-> run.cut]
      BY <1>1, <1>6 DEF Written
    <2> QED BY <1>2, <1>6, <2>1
  <1> QED BY <1>4, <1>5, <1>6, <1>7, <1>8

\* A run writes its candidates, keeps what it was given, reads the decisions,
\* cuts its clips and lists them; each step finds what those before it wrote.
LEMMA RunningStep ==
    ASSUME PackageInv, run # Idle,
           WriteExports \/ KeepHighlights \/ KeepPicks \/ ReadEvidence \/ CutReviewClip
             \/ WriteClipManifest
    PROVE  UnderWay'
  <1> USE DEF PackageInv
  <1>1. /\ run \in Runs /\ lastWhole = "no" /\ run.events = Planned[run.cut[1]]
        /\ Snapshots /\ Written
    BY RunGoes DEF UnderWay
  <1>2. /\ run.at \in Nat /\ Len(run.events) \in Nat /\ run.extract \in BOOLEAN
        /\ package.clips \in Seq(Clips) /\ Candidates.events = run.events
        /\ Candidates.cut = run.cut /\ run.cut \in Cuts
    BY <1>1, RunParts DEF PackageType, Files, Candidates
  <1>3. \A st \in AfterExports :
           /\ To(st).step = st /\ To(st).how = run.how /\ To(st).cut = run.cut
           /\ To(st).events = run.events /\ To(st).extract = run.extract /\ To(st).was = run.was
           /\ To(st).at = run.at
    BY <1>1, ToStep
  <1>4. CASE WriteExports
    <2>1. /\ package' = [package EXCEPT !.exports = Candidates] /\ lastWhole' = lastWhole
          /\ run' = To(IF Kept THEN "highlights" ELSE "evidence") /\ run.step = "exports"
      BY <1>4 DEF WriteExports, Candidates
    <2>2. /\ package'.exports = Candidates /\ package'.highlights = package.highlights
          /\ package'.picks = package.picks /\ package'.clips = package.clips
      BY <2>1, OtherFiles DEF PackageType
    <2>3. /\ run'.step = (IF Kept THEN "highlights" ELSE "evidence") /\ run'.how = run.how
          /\ run'.cut = run.cut /\ run'.events = run.events /\ run'.at = run.at
      BY <1>3, <2>1 DEF AfterExports
    <2>4. Snapshots'
      BY <1>1, <2>1, <2>2, <2>3 DEF Snapshots, Kept, NoneKept, KeptAre
    <2>5. Written'
      BY <1>1, <2>1, <2>2, <2>3 DEF Written, Candidates
    <2>6. Repeats'
      BY <2>3 DEF Repeats
    <2> QED BY <1>1, <2>1, <2>3, <2>4, <2>5, <2>6 DEF UnderWay
  <1>5. CASE KeepHighlights
    <2>1. /\ package' = [package EXCEPT !.highlights = run.cut[1]] /\ lastWhole' = lastWhole
          /\ run' = To("picks") /\ run.step = "highlights"
      BY <1>5 DEF KeepHighlights
    <2>2. /\ package'.exports = package.exports /\ package'.highlights = run.cut[1]
          /\ package'.picks = package.picks /\ package'.clips = package.clips
      BY <2>1, OtherFiles DEF PackageType
    <2>3. /\ run'.step = "picks" /\ run'.how = run.how
          /\ run'.cut = run.cut /\ run'.events = run.events /\ run'.at = run.at
      BY <1>3, <2>1 DEF AfterExports
    <2>4. Snapshots'
      <3>1. run.how = "replay" => package.highlights # NoSnapshot /\ KeptAre(run.cut)
        BY <1>1, <2>1 DEF Snapshots
      <3>2. run.how \in {"directory", "replay"}
        BY <1>1, <2>1 DEF Snapshots, Runs, Ways
      <3>3. KeptAre(run.cut) => run.cut[1] = package.highlights
        BY DEF KeptAre
      <3> QED BY <2>2, <2>3, <3>1, <3>2, <3>3 DEF Snapshots, KeptAre
    <2>5. Written'
      BY <1>1, <2>1, <2>2, <2>3 DEF Written, Candidates, AfterExports
    <2>6. Repeats'
      BY <2>3 DEF Repeats
    <2> QED BY <1>1, <2>1, <2>3, <2>4, <2>5, <2>6 DEF UnderWay
  <1>6. CASE KeepPicks
    <2>1. /\ package' = [package EXCEPT !.picks = run.cut[2]] /\ lastWhole' = lastWhole
          /\ run' = To("evidence") /\ run.step = "picks"
      BY <1>6 DEF KeepPicks
    <2>2. /\ package'.exports = package.exports /\ package'.picks = run.cut[2]
          /\ package'.highlights = package.highlights /\ package'.clips = package.clips
      BY <2>1, OtherFiles DEF PackageType
    <2>3. /\ run'.step = "evidence" /\ run'.how = run.how
          /\ run'.cut = run.cut /\ run'.events = run.events /\ run'.at = run.at
      BY <1>3, <2>1 DEF AfterExports
    <2>4. Snapshots'
      <3>1. run.how = "replay" => package.highlights # NoSnapshot /\ KeptAre(run.cut)
        BY <1>1, <2>1 DEF Snapshots
      <3>2. run.how = "directory" \/ run.how = "replay"
        BY <1>1, <2>1 DEF Snapshots, Runs, Ways
      <3>3. run.how = "directory" => package.highlights = run.cut[1]
        BY <1>1, <2>1 DEF Snapshots
      <3>4. run.cut = <<run.cut[1], run.cut[2]>>
        BY <1>2 DEF Cuts
      <3>5. KeptAre(run.cut) => run.cut[2] = package.picks
        BY DEF KeptAre
      <3> QED BY <2>2, <2>3, <3>1, <3>2, <3>3, <3>4, <3>5 DEF Snapshots, KeptAre
    <2>5. Written'
      BY <1>1, <2>1, <2>2, <2>3 DEF Written, Candidates, AfterExports
    <2>6. Repeats'
      BY <2>3 DEF Repeats
    <2> QED BY <1>1, <2>1, <2>3, <2>4, <2>5, <2>6 DEF UnderWay
  <1>7. CASE ReadEvidence
    <2>1. CASE run' = Idle
      BY <2>1 DEF UnderWay
    <2>2. CASE run' # Idle
      <3>1. /\ DOMAIN package'.evidence = Range(run.events)
            /\ run'.step = "clips" /\ run'.how = run.how /\ run'.cut = run.cut
            /\ run'.events = run.events /\ run'.extract = run.extract /\ run'.at = run.at
            /\ package'.exports = package.exports /\ package'.highlights = package.highlights
            /\ package'.picks = package.picks /\ package'.clips = package.clips
            /\ lastWhole' = lastWhole /\ run.step = "evidence"
        BY <1>7, <2>2, Reading DEF ReadEvidence
      <3>2. Snapshots'
        BY <1>1, <3>1 DEF Snapshots, NoneKept, KeptAre
      <3>3. Written'
        BY <1>1, <3>1 DEF Written, Candidates, AfterExports, AboutHighlights
      <3>4. Repeats'
        BY <3>1 DEF Repeats
      <3> QED BY <1>1, <3>1, <3>2, <3>3, <3>4 DEF UnderWay
    <2> QED BY <2>1, <2>2
  <1>8. CASE CutReviewClip
    <2>1. \E x : package' = [package EXCEPT !.clips = x]
      BY <1>8 DEF CutReviewClip
    <2>2. /\ package'.exports = package.exports /\ package'.highlights = package.highlights
          /\ package'.picks = package.picks /\ package'.evidence = package.evidence
      BY <2>1, OtherFiles DEF PackageType
    <2>3. /\ run'.at = run.at + 1 /\ run'.at <= Len(run.events) /\ run'.at <= Len(package'.clips)
          /\ \A i \in 1 .. run'.at :
                package'.clips[i] = [event |-> run.events[i], cut |-> run.cut]
          /\ run'.step = "clips" /\ run'.how = run.how /\ run'.cut = run.cut
          /\ run'.events = run.events /\ run.step = "clips" /\ lastWhole' = lastWhole
      BY <1>8, OneClipMore DEF CutReviewClip
    <2>4. Snapshots'
      BY <1>1, <2>2, <2>3 DEF Snapshots, NoneKept, KeptAre
    <2>5. Written'
      BY <1>1, <2>2, <2>3 DEF Written, Candidates, AfterExports, AboutHighlights
    <2>6. Repeats'
      BY <2>3 DEF Repeats
    <2> QED BY <1>1, <2>3, <2>4, <2>5, <2>6 DEF UnderWay
  <1>9. CASE WriteClipManifest
    <2>1. /\ package' = [package EXCEPT !.manifest =
                            [events |-> IF run.extract THEN run.events ELSE <<>>]]
          /\ run' = To("director") /\ run.step = "clips" /\ lastWhole' = lastWhole
          /\ run.extract => run.at = Len(run.events)
      BY <1>9 DEF WriteClipManifest
    <2>2. /\ package'.exports = package.exports /\ package'.highlights = package.highlights
          /\ package'.picks = package.picks /\ package'.evidence = package.evidence
          /\ package'.clips = package.clips
          /\ package'.manifest = [events |-> IF run.extract THEN run.events ELSE <<>>]
      BY <2>1, OtherFiles DEF PackageType
    <2>3. /\ run'.step = "director" /\ run'.how = run.how /\ run'.extract = run.extract
          /\ run'.cut = run.cut /\ run'.events = run.events /\ run'.at = run.at
      BY <1>3, <2>1 DEF AfterExports
    <2>4. Snapshots'
      BY <1>1, <2>1, <2>2, <2>3 DEF Snapshots, NoneKept, KeptAre
    <2>5. Written'
      BY <1>1, <2>1, <2>2, <2>3 DEF Written, Candidates, AfterExports, AboutHighlights
    <2>6. Repeats'
      BY <2>3 DEF Repeats
    <2> QED BY <1>1, <2>1, <2>3, <2>4, <2>5, <2>6 DEF UnderWay
  <1> QED BY <1>4, <1>5, <1>6, <1>7, <1>8, <1>9

\* Beside a run, the page decides and no film is made.
LEMMA UnderWayStep ==
    ASSUME PackageInv, PackageNext
    PROVE  UnderWay'
  <1> USE DEF PackageInv
  <1>1. CASE Prepare \/ Replay
    BY <1>1, BeginStep
  <1>2. CASE WriteExports \/ KeepHighlights \/ KeepPicks \/ ReadEvidence \/ CutReviewClip
               \/ WriteClipManifest
    <2>1. run # Idle
      BY <1>2, IdleStep DEF WriteExports, KeepHighlights, KeepPicks, ReadEvidence, CutReviewClip,
                            WriteClipManifest
    <2> QED BY <1>2, <2>1, RunningStep
  <1>3. CASE WriteScript \/ RunFails
    BY <1>3 DEF WriteScript, RunFails, Stop, UnderWay
  <1>4. CASE DecideEvidence
    <2>1. /\ DOMAIN package'.evidence = DOMAIN package.evidence
          /\ package'.exports = package.exports /\ package'.highlights = package.highlights
          /\ package'.picks = package.picks /\ package'.clips = package.clips
          /\ package'.manifest = package.manifest /\ run' = run /\ lastWhole' = lastWhole
      BY <1>4, Deciding
    <2>2. Snapshots => Snapshots'
      BY <2>1 DEF Snapshots, NoneKept, KeptAre
    <2>3. Written => Written'
      BY <2>1 DEF Written, Candidates, AboutHighlights
    <2>4. Repeats => Repeats'
      BY <2>1 DEF Repeats, Candidates
    <2> QED BY <2>1, <2>2, <2>3, <2>4 DEF UnderWay
  <1>5. CASE \E script \in BOOLEAN : RenderFilm(script)
    BY <1>5 DEF RenderFilm, UnderWay
  <1> QED BY <1>1, <1>2, <1>3, <1>4, <1>5 DEF PackageNext

\* The events read as confirmed are those of the run, whatever is decided later.
LEMMA OfItsEventsStep ==
    ASSUME PackageInv, PackageNext
    PROVE  OfItsEvents'
  <1> USE DEF PackageInv
  <1>1. CASE ReadEvidence
    <2>1. run \in Runs
      BY <1>1, RunGoes, IdleStep DEF ReadEvidence
    <2>2. To("clips") \in Runs /\ To("clips").events = run.events
      BY <2>1, ToStep DEF AfterExports
    <2>3. \A c : LET r == [To("clips") EXCEPT !.confirmed = c] IN
                   r.events = run.events /\ r.confirmed = c
      BY <2>2 DEF Runs
    <2>4. AboutHighlights(run.events) => Decided("confirmed") \subseteq Range(run.events)
      BY DEF AboutHighlights, Decided
    <2>5. run' = Idle \/ \E c \in SUBSET Range(run.events) : run' = [To("clips") EXCEPT !.confirmed = c]
      <3>1. CASE package.evidence = <<>>
        BY <1>1, <3>1 DEF ReadEvidence
      <3>2. CASE package.evidence # <<>>
        BY <1>1, <2>4, <3>2 DEF ReadEvidence, Stop
      <3> QED BY <3>1, <3>2
    <2> QED BY <2>3, <2>5 DEF OfItsEvents
  <1>2. CASE CutReviewClip \/ WriteClipManifest
    <2>1. run \in Runs /\ run # Idle /\ run.step = "clips"
      BY <1>2, RunGoes, IdleStep DEF CutReviewClip, WriteClipManifest
    <2>2. run'.confirmed = run.confirmed /\ run'.events = run.events
      <3>1. CASE CutReviewClip
        BY <2>1, <3>1 DEF CutReviewClip, Runs
      <3>2. CASE WriteClipManifest
        BY <2>1, <3>2, ToStep DEF WriteClipManifest, AfterExports
      <3> QED BY <1>2, <3>1, <3>2
    <2> QED BY <2>1, <2>2 DEF OfItsEvents
  <1>3. CASE WriteExports \/ KeepHighlights \/ KeepPicks
    <2>1. run \in Runs
      BY <1>3, RunGoes, IdleStep DEF WriteExports, KeepHighlights, KeepPicks
    <2>2. run' \in {To("highlights"), To("evidence"), To("picks")}
      BY <1>3 DEF WriteExports, KeepHighlights, KeepPicks
    <2>3. run'.step \notin {"clips", "director"}
      BY <2>1, <2>2, ToStep DEF AfterExports
    <2> QED BY <2>3 DEF OfItsEvents
  <1>4. CASE Prepare \/ Replay
    <2>1. run'.step = "exports"
      BY <1>4, Beginnings, StartType
    <2> QED BY <2>1 DEF OfItsEvents
  <1>5. CASE WriteScript \/ RunFails
    BY <1>5 DEF WriteScript, RunFails, Stop, OfItsEvents
  <1>6. CASE DecideEvidence \/ \E script \in BOOLEAN : RenderFilm(script)
    BY <1>6 DEF DecideEvidence, RenderFilm, OfItsEvents
  <1> QED BY <1>1, <1>2, <1>3, <1>4, <1>5, <1>6 DEF PackageNext

-----------------------------------------------------------------------------
(* A package whose last run ended well, and the films made of it.          *)

\* The script beside the other files that are written.
LEMMA ScriptFile ==
    ASSUME package \in Files, NEW x
    PROVE  /\ LET q == [package EXCEPT !.evidence = x] IN
                q.script = package.script /\ q.exports = package.exports
           /\ LET q == [package EXCEPT !.film = x] IN
                q.script = package.script /\ q.exports = package.exports
           /\ LET q == [package EXCEPT !.script = x] IN
                q.script = x /\ q.exports = package.exports
  BY DEF Files

\* The script of a run is of the candidates that run has written, and is left
\* until the next one begins; what is decided or filmed meanwhile is not in it.
LEMMA ScriptTellsStep ==
    ASSUME PackageInv, PackageNext
    PROVE  ScriptTells'
  <1> USE DEF PackageInv
  <1>1. CASE Prepare \/ Replay
    <2>1. lastWhole' = "no"
      BY <1>1, Beginnings, StartType
    <2> QED BY <2>1 DEF ScriptTells
  <1>2. CASE WriteExports \/ KeepHighlights \/ KeepPicks \/ ReadEvidence \/ CutReviewClip
               \/ WriteClipManifest \/ RunFails
    <2>1. run # Idle
      BY <1>2, IdleStep DEF WriteExports, KeepHighlights, KeepPicks, ReadEvidence, CutReviewClip,
                            WriteClipManifest, RunFails
    <2>2. lastWhole = "no" /\ lastWhole' = lastWhole
      BY <1>2, <2>1 DEF WriteExports, KeepHighlights, KeepPicks, ReadEvidence, CutReviewClip,
                        WriteClipManifest, RunFails, UnderWay
    <2> QED BY <2>2 DEF ScriptTells
  <1>3. CASE WriteScript
    <2>1. run \in Runs /\ run # Idle /\ run.step = "director" /\ Written
      BY <1>3, RunGoes, IdleStep DEF WriteScript, UnderWay
    <2>2. /\ package.exports = Candidates
          /\ run.confirmed \subseteq Range(run.events)
      BY <2>1 DEF Written, AfterExports, OfItsEvents
    <2>3. SUFFICES ASSUME told' # {}
                   PROVE  /\ package'.script = [events |-> told', cut |-> package'.exports.cut]
                          /\ told' \subseteq Range(package'.exports.events)
      BY DEF ScriptTells
    <2>4. /\ told' = run.confirmed
          /\ package' = [package EXCEPT !.script = [events |-> run.confirmed, cut |-> run.cut]]
      BY <1>3, <2>3 DEF WriteScript
    <2>5. /\ package'.script = [events |-> run.confirmed, cut |-> run.cut]
          /\ package'.exports = package.exports
      BY <2>4, ScriptFile DEF PackageType
    <2> QED BY <2>2, <2>4, <2>5 DEF Candidates
  <1>4. CASE DecideEvidence \/ \E script \in BOOLEAN : RenderFilm(script)
    <2>1. \/ \E x : package' = [package EXCEPT !.evidence = x]
          \/ \E x : package' = [package EXCEPT !.film = x]
      <3>1. CASE DecideEvidence
        <4>1. PICK e, status : package' = [package EXCEPT !.evidence[e] = status]
          BY <3>1 DEF DecideEvidence
        <4>2. package' = [package EXCEPT !.evidence = [package.evidence EXCEPT ![e] = status]]
          BY <4>1
        <4> QED BY <4>2
      <3>2. CASE \E script \in BOOLEAN : RenderFilm(script)
        BY <3>2 DEF RenderFilm
      <3> QED BY <1>4, <3>1, <3>2
    <2>2. package'.script = package.script /\ package'.exports = package.exports
      <3>1. package \in Files
        BY DEF PackageType
      <3>2. CASE \E x : package' = [package EXCEPT !.evidence = x]
        <4>1. PICK x : package' = [package EXCEPT !.evidence = x]
          BY <3>2
        <4> QED BY <3>1, <4>1, ScriptFile
      <3>3. CASE \E x : package' = [package EXCEPT !.film = x]
        <4>1. PICK x : package' = [package EXCEPT !.film = x]
          BY <3>3
        <4> QED BY <3>1, <4>1, ScriptFile
      <3> QED BY <2>1, <3>2, <3>3
    <2>3. lastWhole' = lastWhole /\ told' = told
      BY <1>4 DEF DecideEvidence, RenderFilm
    <2> QED BY <2>2, <2>3 DEF ScriptTells
  <1> QED BY <1>1, <1>2, <1>3, <1>4 DEF PackageNext

\* With its script a run has written all of its story, and kept what it was of.
LEMMA ScriptStep ==
    ASSUME PackageInv, WriteScript
    PROVE  WholeAs'
  <1> USE DEF PackageInv
  <1>1. /\ run \in Runs /\ run.step = "director" /\ Snapshots /\ Written
    BY RunGoes, IdleStep DEF WriteScript, UnderWay
  <1>2. /\ Candidates.events = run.events /\ Candidates.cut = run.cut /\ Candidates \in Exports
        /\ run.events \in Seq(Event) /\ run.cut \in Cuts /\ run.extract \in BOOLEAN
        /\ package.clips \in Seq(Clips)
    BY <1>1, RunParts DEF Candidates, PackageType, Files
  <1>3. package' = package \/ \E x : package' = [package EXCEPT !.script = x]
    BY DEF WriteScript
  <1>4. /\ package'.exports = package.exports /\ package'.highlights = package.highlights
        /\ package'.picks = package.picks /\ package'.evidence = package.evidence
        /\ package'.clips = package.clips /\ package'.manifest = package.manifest
    <2>1. CASE package' = package
      BY <2>1
    <2>2. CASE \E x : package' = [package EXCEPT !.script = x]
      BY <2>2, OtherFiles DEF PackageType
    <2> QED BY <1>3, <2>1, <2>2
  <1> DEFINE es == IF run.extract THEN run.events ELSE <<>>
  <1>5. /\ package.exports = Candidates /\ package.manifest = [events |-> es]
        /\ DOMAIN package.evidence = Range(run.events)
    BY <1>1 DEF Written, AfterExports, AboutHighlights
  <1>6. es \in Seq(Event) /\ package.manifest.events = es /\ package.manifest # None
    <2>1. es \in Seq(Event) /\ package.manifest.events = es
      BY <1>2, <1>5
    <2>2. package.manifest \in [events : Seq(Event)]
      BY <1>5, <2>1
    <2> QED BY <2>1, <2>2, NotNone
  <1>7. es # <<>> => /\ es = run.events
                     /\ \A i \in DOMAIN es : package.clips[i] = [event |-> es[i], cut |-> run.cut]
    <2>1. SUFFICES ASSUME run.extract
                   PROVE  \A i \in DOMAIN run.events :
                             package.clips[i] = [event |-> run.events[i], cut |-> run.cut]
      OBVIOUS
    <2>2. DOMAIN run.events = 1 .. run.at
      BY <1>1, <1>2, <2>1 DEF Written
    <2> QED BY <1>1, <2>2 DEF Written
  <1>8. Len(package.clips) >= Len(es)
    <2>1. CASE run.extract
      BY <1>1, <1>2, <2>1 DEF Written
    <2>2. CASE ~run.extract
      BY <1>2, <2>2
    <2> QED BY <2>1, <2>2
  <1>9. lastWhole' = IF run.how = "replay" THEN (IF Kept THEN "directory" ELSE "route") ELSE run.how
    BY DEF WriteScript
  <1>10. lastWhole' = "directory" => <<package.highlights, package.picks>> = run.cut
    BY <1>1, <1>9 DEF Snapshots, Kept, NoneKept, KeptAre
  <1>11. lastWhole' = "route" => NoneKept /\ run.cut = <<0, 0>>
    BY <1>1, <1>9 DEF Snapshots, Kept, NoneKept
  <1>12. /\ package'.exports.events = run.events /\ package'.exports.cut = run.cut
         /\ package'.exports # None
    BY <1>2, <1>4, <1>5, NotNone
  <1> HIDE DEF es
  <1>13. PackageAgrees'
    BY <1>4, <1>5, <1>6, <1>7, <1>10, <1>12 DEF PackageAgrees, AboutHighlights
  <1> QED BY <1>4, <1>6, <1>8, <1>11, <1>12, <1>13 DEF WholeAs, NoneKept

\* Until the next run begins that is not changed: the page decides about the
\* same events, and a film is a file of its own.
LEMMA WholeAsStep ==
    ASSUME PackageInv, PackageNext
    PROVE  WholeAs'
  <1> USE DEF PackageInv
  <1>1. CASE Prepare \/ Replay
    <2>1. PICK how \in Ways \cup {"replay"}, h \in Highlights, p \in Picks,
               direct, extract \in BOOLEAN : Start(how, h, p, direct, extract)
      BY <1>1, Beginnings
    <2>2. lastWhole' = "no"
      BY <2>1 DEF Start
    <2> QED BY <2>2 DEF WholeAs
  <1>2. CASE WriteExports \/ KeepHighlights \/ KeepPicks \/ ReadEvidence \/ CutReviewClip
               \/ WriteClipManifest \/ RunFails
    <2>1. run # Idle
      BY <1>2, IdleStep DEF WriteExports, KeepHighlights, KeepPicks, ReadEvidence, CutReviewClip,
                            WriteClipManifest, RunFails
    <2>2. lastWhole = "no" /\ lastWhole' = lastWhole
      BY <1>2, <2>1 DEF WriteExports, KeepHighlights, KeepPicks, ReadEvidence, CutReviewClip,
                        WriteClipManifest, RunFails, UnderWay
    <2> QED BY <2>2 DEF WholeAs
  <1>3. CASE WriteScript
    BY <1>3, ScriptStep
  <1>4. CASE DecideEvidence \/ \E script \in BOOLEAN : RenderFilm(script)
    <2>1. CASE DecideEvidence
      <3>1. /\ DOMAIN package'.evidence = DOMAIN package.evidence
            /\ package'.exports = package.exports /\ package'.highlights = package.highlights
            /\ package'.picks = package.picks /\ package'.clips = package.clips
            /\ package'.manifest = package.manifest /\ lastWhole' = lastWhole
        BY <2>1, Deciding
      <3> QED BY <3>1 DEF WholeAs, PackageAgrees, NoneKept, AboutHighlights
    <2>2. CASE \E script \in BOOLEAN : RenderFilm(script)
      <3>1. (\E x : package' = [package EXCEPT !.film = x]) /\ lastWhole' = lastWhole
        BY <2>2 DEF RenderFilm
      <3>2. /\ package'.evidence = package.evidence
            /\ package'.exports = package.exports /\ package'.highlights = package.highlights
            /\ package'.picks = package.picks /\ package'.clips = package.clips
            /\ package'.manifest = package.manifest
        BY <3>1, OtherFiles DEF PackageType
      <3> QED BY <3>1, <3>2 DEF WholeAs, PackageAgrees, NoneKept, AboutHighlights
    <2> QED BY <1>4, <2>1, <2>2
  <1> QED BY <1>1, <1>2, <1>3, <1>4 DEF PackageNext

\* A script is filmed only where every event there is a decision about is in it
\* and confirmed, so none is rejected; and clip by clip of a whole package, the
\* film takes what is cut as its candidates are.
LEMMA FilmStep ==
    ASSUME PackageInv, PackageNext
    PROVE  FilmIsConfirmed'
  <1> USE DEF PackageInv
  <1>1. CASE package'.film = package.film
    BY <1>1 DEF FilmIsConfirmed
  <1>2. CASE \E script \in BOOLEAN : RenderFilm(script)
    <2>1. PICK script \in BOOLEAN : RenderFilm(script)
      BY <1>2
    <2> DEFINE es == IF script THEN package.script.events ELSE Range(package.manifest.events)
               new == [script |-> script, whole |-> lastWhole, cut |-> package.exports.cut,
                       rejected |-> Decided("rejected"), clips |-> Shown(es)]
    <2>2. package' = [package EXCEPT !.film = new]
      BY <2>1 DEF RenderFilm
    <2>3. package'.film = new
      BY <2>2, OtherFiles DEF PackageType
    <2>4. es = Range(package.manifest.events) /\ package.manifest # None /\ package.exports # None
          /\ Len(package.clips) >= Len(package.manifest.events)
      BY <2>1 DEF RenderFilm, Renderable
    <2>5. script => Decided("rejected") = {}
      <3>1. SUFFICES ASSUME script, NEW e \in Decided("rejected") PROVE FALSE
        OBVIOUS
      <3>2. e \in DOMAIN package.evidence /\ package.evidence[e] = "rejected"
        BY <3>1 DEF Decided
      <3>3. e \in Range(package.manifest.events)
        BY <2>1, <3>2 DEF RenderFilm, Renderable, AboutHighlights
      <3>4. e \in Decided("confirmed")
        BY <2>1, <3>1, <3>3 DEF RenderFilm, Renderable
      <3> QED BY <3>2, <3>4 DEF Decided
    <2>6. lastWhole # "no" => \A part \in Shown(es) : part.cut = package.exports.cut
      <3>1. SUFFICES ASSUME lastWhole # "no", NEW e \in Range(package.manifest.events)
                     PROVE  ClipOf(e).cut = package.exports.cut
        BY <2>4 DEF Shown
      <3>2. PICK i \in 1 .. Len(package.manifest.events) : ClipOf(e) = package.clips[i]
        BY <2>4, ShownType
      <3>3. package.manifest.events \in Seq(Event)
        BY <2>4 DEF PackageType, Files
      <3>4. i \in DOMAIN package.manifest.events /\ package.manifest.events # <<>>
        BY <3>2, <3>3
      <3>5. package.clips[i] = [event |-> package.manifest.events[i], cut |-> package.exports.cut]
        BY <3>1, <3>4 DEF WholeAs, PackageAgrees
      <3> QED BY <3>2, <3>5
    <2> QED BY <2>3, <2>5, <2>6 DEF FilmIsConfirmed
  <1> QED BY <1>1, <1>2, Frames
-----------------------------------------------------------------------------
(* The theorems.                                                           *)

\* An empty directory, which nobody has decided anything about.
LEMMA PackageInvInit == PackageInit => PackageInv
  <1> SUFFICES ASSUME PackageInit PROVE PackageInv
    OBVIOUS
  <1>1. /\ package = Empty /\ run = Idle /\ lastWhole = "no" /\ human = <<>> /\ prepares = 0
        /\ told \in Events
    BY DEF PackageInit, Events
  <1>2. /\ Empty.exports = None /\ Empty.film = None
        /\ Empty \in Files
    <2>1. <<>> \in Review
      <3>1. {} \in Events /\ <<>> \in [{} -> Status]
        BY DEF Events
      <3> QED BY <3>1 DEF Review
    <2>2. <<>> \in Seq(Clips)
      OBVIOUS
    <2> QED BY <2>1, <2>2 DEF Empty, Files
  <1>3. DOMAIN human = {}
    BY <1>1
  <1> QED
    BY <1>1, <1>2, <1>3 DEF PackageInv, PackageType, UnderWay, OfItsEvents, AsPlanned, WholeAs,
                            EvidenceStands, ScriptTells, FilmIsConfirmed

\* One invariant of the directory, whoever is at work on it.
LEMMA PackageInvariant == PackageSpec => []PackageInv
  <1>1. PackageInv /\ [PackageNext]_packageVars => PackageInv'
    <2>1. ASSUME PackageInv, PackageNext PROVE PackageInv'
      BY <2>1, PackageTypeStep, UnderWayStep, OfItsEventsStep, AsPlannedStep, WholeAsStep,
         EvidenceStep, ScriptTellsStep, FilmStep DEF PackageInv
    <2>2. ASSUME PackageInv, UNCHANGED packageVars PROVE PackageInv'
      BY <2>2 DEF packageVars, PackageInv, PackageType, UnderWay, Snapshots, Written, Repeats,
                  AsPlanned, WholeAs, PackageAgrees, EvidenceStands, FilmIsConfirmed, Candidates,
                  NoneKept, KeptAre, AboutHighlights, OfItsEvents, ScriptTells
    <2> QED BY <2>1, <2>2
  <1> QED BY PackageInvInit, <1>1, PTL DEF PackageSpec

\* What the owner decided stands; a package whose last run ended well holds one
\* story, its candidates, decisions, clips and snapshots being of one plan, and
\* its script as well where that run had a director to ask; and a film of a
\* script, that run's or an earlier one's, shows confirmed clips as they are cut:
\* over any number of runs that stop after any write, decisions taken beside
\* them, and whatever becomes of the owner's highlights and picks.
THEOREM PackageHoldsOneStory == PackageSpec => []PackageIsOneStory
  <1>1. PackageInv => PackageIsOneStory
    BY DEF PackageInv, PackageIsOneStory, WholeAs, PackageAgrees
  <1> QED BY PackageInvariant, <1>1, PTL

\* A replay of a package that was whole, which plans anew from what the package
\* keeps, writes the candidates that are there.
THEOREM ReplayMakesTheSame == PackageSpec => ReplayRepeats
  <1> DEFINE Same == (run.step = "exports" /\ run.how = "replay" /\ run.was \in {"route", "directory"}
                        /\ package' # package)
                       => package'.exports = package.exports
  <1>1. PackageInv /\ [PackageNext]_packageVars => [Same]_packageVars
    <2> SUFFICES ASSUME PackageInv, PackageNext, run.step = "exports", run.how = "replay",
                        run.was \in {"route", "directory"}
                 PROVE  package'.exports = package.exports
      OBVIOUS
    <2>1. run # Idle /\ PackageType
      BY IdleStep DEF PackageInv
    <2>2. package.exports = Candidates
      BY <2>1 DEF PackageInv, UnderWay, Repeats
    <2> QED BY <2>1, <2>2, Frames
  <1> QED BY PackageInvariant, <1>1, PTL DEF PackageSpec, ReplayRepeats
=============================================================================
