---------------------------- MODULE HighlightRun ----------------------------
(***************************************************************************)
(* A run of the local highlight research over one output directory         *)
(* (run_local_highlight_research and _extract_research_clips of            *)
(* app/video/highlight_research.py, the review file of                     *)
(* app/video/highlight_review.py, the candidates of                        *)
(* app/video/highlight_story_bridge.py) beside the page on which its       *)
(* picks are reviewed (app/web/private_highlight_review.py).               *)
(*                                                                         *)
(* A slot is a method and a rank: the place of one clip and one thumbnail. *)
(* A candidate is a window in a slot, which is what its opaque identifier  *)
(* hashes.  A clip already cut for an earlier slot is hard-linked, so two  *)
(* slots may hold one file; a file is named after the slot it was first    *)
(* cut for.  The encoder writes into the file that is there.               *)
(***************************************************************************)
EXTENDS Integers, FiniteSets, Sequences

CONSTANTS
    Windows,        \* what may be picked
    SlotCount,      \* clips of a run: the methods times their picks
    Selections,        \* the selections the footage may lead to: [slots -> Windows]
    MaxRuns         \* bound on the runs

ASSUME RunAssumption == /\ {SlotCount, MaxRuns} \subseteq Nat \ {0}
                        /\ Selections \subseteq [1 .. SlotCount -> Windows]

VARIABLES
    chosen,     \* what the footage would be picked for now
    clip,       \* the file each slot's name leads to, 0 when none
    shows,      \* what each file shows: a window, "cut" or "nothing"
    thumbnail,  \* what each slot's thumbnail shows
    manifest,   \* the selection written down last, <<>> when none
    bridge,     \* the candidates handed to the story: slots and windows
    review,     \* the decisions on file, <<>> when there is no file
    step,       \* what the run does next
    overwrite,  \* whether it may replace what is there
    picked,     \* its selection
    approved,   \* the slots approved when it read the review
    at,         \* the slot it is cutting
    linked,     \* whether two slots led to one file when it began
    whole,      \* whether the last run ended well
    runs        \* runs begun

runVars == <<chosen, clip, shows, thumbnail, manifest, bridge, review, step,
             overwrite, picked, approved, at, linked, whole, runs>>

Slots    == 1 .. SlotCount
Statuses == {"awaiting", "approved", "rejected"}

\* A review names exactly these candidates (evaluate_highlight_review).
About(decisions, selection) == \A s \in Slots : decisions[s].window = selection[s]

\* A variant of Autodecided: the review is remade when it is about others.
AutodecidedAnew(selection) ==
    IF review # <<>> /\ About(review, selection) THEN review
    ELSE [s \in Slots |-> [window |-> selection[s], status |-> "approved"]]

\* load_or_autodecide_highlight_review: what a person decided is kept; only
\* where there is no file is every pick approved.
Autodecided(selection) ==
    IF review # <<>> THEN review
    ELSE [s \in Slots |-> [window |-> selection[s], status |-> "approved"]]

\* A variant of Reusable: any slot's file will do, cut in this run or before.
ReusableAny == {s \in Slots : clip[s] # 0 /\ shows[clip[s]] = picked[at]}

\* The slots of this run already cut for the window wanted now.
Reusable == {s \in 1 .. at - 1 : picked[s] = picked[at]}

-----------------------------------------------------------------------------

RunInit ==
    /\ chosen \in Selections
    /\ clip = [s \in Slots |-> 0]
    /\ shows = [s \in Slots |-> "nothing"]
    /\ thumbnail = [s \in Slots |-> "nothing"]
    /\ manifest = <<>>
    /\ bridge = {}
    /\ review = <<>>
    /\ step = "idle"
    /\ overwrite = FALSE
    /\ picked = <<>>
    /\ approved = {}
    /\ at = 1
    /\ linked = FALSE
    /\ whole = FALSE
    /\ runs = 0

\* A finished directory is only run over when asked to.
StartResearch ==
    /\ step = "idle"
    /\ runs < MaxRuns
    /\ overwrite' \in BOOLEAN
    /\ manifest = <<>> \/ overwrite'
    /\ step' = "review"
    /\ picked' = chosen
    /\ at' = 1
    /\ linked' = \E s, t \in Slots : s # t /\ clip[s] # 0 /\ clip[s] = clip[t]
    /\ whole' = FALSE
    /\ runs' = runs + 1
    /\ UNCHANGED <<chosen, clip, shows, thumbnail, manifest, bridge, review,
                   approved>>

\* Decisions about other candidates stop the run rather than be applied.
ReadReview ==
    /\ step = "review"
    /\ LET decisions == Autodecided(picked)
       IN  IF About(decisions, picked)
           THEN /\ review' = decisions
                /\ approved' = {s \in Slots : decisions[s].status = "approved"}
                /\ step' = "bridge"
           ELSE step' = "idle" /\ UNCHANGED <<review, approved>>
    /\ UNCHANGED <<chosen, clip, shows, thumbnail, manifest, bridge, overwrite,
                   picked, at, linked, whole, runs>>

\* A pick without a location would be left out; a window of which the track
\* gives none is not measured, so none is picked.
WriteBridge ==
    /\ step = "bridge"
    /\ bridge' = {<<s, picked[s]>> : s \in approved}
    /\ step' = "cutting"
    /\ UNCHANGED <<chosen, clip, shows, thumbnail, manifest, review, overwrite,
                   picked, approved, at, linked, whole, runs>>

NextSlot == IF at = SlotCount THEN step' = "sheet" /\ UNCHANGED at
         ELSE step' = "cutting" /\ at' = at + 1

\* The window was cut for an earlier slot: its file gets a second name.
LinkClip ==
    /\ step = "cutting"
    /\ Reusable # {}
    /\ clip[at] = 0 \/ overwrite
    /\ \E s \in Reusable : clip' = [clip EXCEPT ![at] = clip[s]]
    /\ thumbnail' = [thumbnail EXCEPT ![at] = picked[at]]
    /\ NextSlot
    /\ UNCHANGED <<chosen, shows, manifest, bridge, review, overwrite, picked,
                   approved, linked, whole, runs>>

\* The encoder opens the file that is there, or a new one.
BeginClip ==
    /\ step = "cutting"
    /\ Reusable = {}
    /\ clip[at] = 0 \/ overwrite
    /\ LET file == IF clip[at] = 0 THEN at ELSE clip[at]
       IN  /\ clip' = [clip EXCEPT ![at] = file]
           /\ shows' = [shows EXCEPT ![file] = "cut"]
    /\ step' = "encoding"
    /\ UNCHANGED <<chosen, thumbnail, manifest, bridge, review, overwrite,
                   picked, approved, at, linked, whole, runs>>

EndClip ==
    /\ step = "encoding"
    /\ shows' = [shows EXCEPT ![clip[at]] = picked[at]]
    /\ thumbnail' = [thumbnail EXCEPT ![at] = picked[at]]
    /\ NextSlot
    /\ UNCHANGED <<chosen, clip, manifest, bridge, review, overwrite, picked,
                   approved, linked, whole, runs>>

\* The contact sheet, the manifest and the private state.
WriteManifest ==
    /\ step = "sheet"
    /\ manifest' = picked
    /\ whole' = TRUE
    /\ step' = "idle"
    /\ UNCHANGED <<chosen, clip, shows, thumbnail, bridge, review, overwrite,
                   picked, approved, at, linked, runs>>

\* A clip is in the way, a command fails or the process is killed.
RunStops ==
    /\ step # "idle"
    /\ step' = "idle"
    /\ UNCHANGED <<chosen, clip, shows, thumbnail, manifest, bridge, review,
                   overwrite, picked, approved, at, linked, whole, runs>>

\* PrivateHighlightReviewSession.update: one decision is changed, of a
\* package all of whose clips and thumbnails are there.
Decide ==
    /\ review # <<>>
    /\ \A s \in Slots : clip[s] # 0 /\ thumbnail[s] # "nothing"
    /\ \E s \in Slots, status \in Statuses :
          review' = [review EXCEPT ![s].status = status]
    /\ UNCHANGED <<chosen, clip, shows, thumbnail, manifest, bridge, step,
                   overwrite, picked, approved, at, linked, whole, runs>>

\* The owner takes the review away, which is how a stale one is got rid of,
\* or changes the footage or its clock between runs.
DropReview ==
    /\ step = "idle"
    /\ review # <<>>
    /\ review' = <<>>
    /\ UNCHANGED <<chosen, clip, shows, thumbnail, manifest, bridge, step,
                   overwrite, picked, approved, at, linked, whole, runs>>

Refilm ==
    /\ step = "idle"
    /\ chosen' \in Selections
    /\ UNCHANGED <<clip, shows, thumbnail, manifest, bridge, review, step,
                   overwrite, picked, approved, at, linked, whole, runs>>

RunNext == \/ StartResearch \/ ReadReview \/ WriteBridge
           \/ LinkClip \/ BeginClip \/ EndClip \/ WriteManifest
           \/ RunStops \/ Decide \/ DropReview \/ Refilm

RunSpec == RunInit /\ [][RunNext]_runVars

-----------------------------------------------------------------------------
(* What the directory promises.                                            *)

\* After a run that ended well the directory tells one story: the manifest,
\* the candidates handed on, the thumbnails and the review, if it is still
\* there, are about the same picks, and what a person had rejected when the
\* run read the review was not handed on.
DirectoryIsOneStory ==
    whole =>
        /\ \A c \in bridge : c[2] = manifest[c[1]]
        /\ thumbnail = manifest
        /\ review # <<>> => About(review, manifest)
        /\ {c[1] : c \in bridge} = approved

\* What a slot's clip shows is a pick of this run, never what an earlier run
\* picked: its own pick or, where slots led to one file before the run and the
\* encoder wrote several picks into it, that of a slot it shares the file with.
ClipsShowTheirPicks ==
    whole => \A s \in Slots :
        /\ clip[s] # 0
        /\ \E t \in Slots : clip[t] = clip[s] /\ shows[clip[s]] = manifest[t]
        /\ ~linked => shows[clip[s]] = manifest[s]

\* A decision is never applied to a window that is not of this run: while no run
\* has stopped half-way, the clip that is reviewed shows the window the decision
\* is about, or the window of a decision whose clip is the same file.
ReviewedIsShown ==
    whole /\ review # <<>> => \A s \in Slots :
        /\ \E t \in Slots : clip[t] = clip[s] /\ shows[clip[s]] = review[t].window
        /\ ~linked => shows[clip[s]] = review[s].window

\* The output directory of a research run, read as its reviewer reads it: one
\* run's manifest, its clips, and decisions about what those clips show.
DirectoryIsWhole == DirectoryIsOneStory /\ ClipsShowTheirPicks /\ ReviewedIsShown

\* What a person decided outlives every rerun: only the page changes a
\* decision, and only taking the file away forgets it.
DecisionsStand ==
    [][review # <<>> /\ review' # review =>
          \/ review' = <<>> /\ step = "idle"
          \/ \E s \in Slots : \A t \in Slots \ {s} :
                review'[t] = review[t] /\ review'[s].window = review[s].window]_runVars
=============================================================================
