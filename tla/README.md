# A verification project for ride-storyteller

ride-storyteller turns a day's motorcycle footage and its GPS track into a short
film.  Candidate windows of footage are planned locally and free of charge; small
copies of them are uploaded to a bucket and judged by a paid model; a film is then
planned and cut from the best of them, on the owner's machine.  A private console
(one page, one web server, one background job) drives it, and so does the command
line.  An older path picks highlights and directs a story on the owner's machine
alone.

This directory holds TLA+ modules of the program's own logic, the TLC runs that
check them on small instances, and proofs that TLAPS checks for every value of the
constants.  `PROJECT.json` maps every definition to the lines it stands for.

    tlasany AnalysisRun.tla
    tlc -config AnalysisRun_fixed.cfg MCAnalysisRun
    tlapm AnalysisRunProofs.tla

## 1. Inventory

### What runs, and what it shares

| actor | where | concurrency |
|---|---|---|
| console server, public demo | `web/server.py` under wsgiref or gunicorn | one request at a time locally; two workers of two threads deployed |
| job thread | `web/private_journey_actions.py` | one daemon thread beside the server |
| judging pool | `analysis_run.py` | `concurrency` threads inside whoever judges |
| browser tabs | the page served by `server.py` | any number, each re-reading on its own timer |
| command line | `analysis_cli.py`, `private_journey_film.py`, `local_pipeline.py`, `portable_package.py`, `submission/*` | any number of processes |
| bucket | `analysis_adapters.py`, `retention.py`, `tenant_migration.py` | shared by all of them, and by other accounts |

They meet at three places: the files of a **package** directory (and a few caches
beside it), the objects of the **bucket**, and, inside the server process,
`_CURRENT_PACKAGE`, the job state and the rate limiter.  There is no lock between
processes; the code relies on writing a file beside its destination and moving it
across (`os.replace`), and on refusing to overwrite.

### How a ride goes through it

    track + references --RideTrack, RideLegs--> stops, crossings, moments, legs, lines
    recordings --CameraClock--> a day on one clock
    both --JudgementPlan--> candidate windows and their price
       --JobConsole--> an approved job --AnalysisRun, UploadBucket--> a judgement
       --WindowOrder--> an order    --Caches--> names, maps, looks, copies
       --FilmChoice, FilmPlan--> a plan --FilmCut--> the film and its files
       --WebService--> streamed   --Sharing--> a package others may cut   --DemoVideo--> the demo
    recordings --HighlightPick, HighlightRun--> highlights
       --LocalStory, LocalPackage--> the older path's script, package and film

### The parts

For each: its state, its operations, what is hard about it, when it is correct.

| part | state | operations | hard | correct when |
|---|---|---|---|---|
| judgement run | finished record, running total; results, futures, lock | read what is left, carry, copy/upload/ask, write total, write record | every answer costs money; crashes, failures billed or not, reruns, two processes | nothing paid for is lost or bought again, the record is whole, a run ends |
| plan and budget | none | windows, cascade, tightening | rounding, floors, overlaps at the ride's ends | windows are filmed ride, what is judged is what was priced, what could fit is not refused |
| ranking, tournament | an order file | groups, questions asked again, rounds | answers with holes, groups of one | every window placed once, winners above those they beat, the bill foreseen |
| console and gate | the job state, under a lock; each tab's last reading | read, post, start, refuse, work | double clicks, stale tabs, restart | one job, what is billed was typed, judged packages not bought again, ends are heard of |
| bucket | objects by account prefix, links handed out | upload, sweep, forget, migrate, sign | each lists once, then acts call by call; copies that do not arrive | no hole, promised deletions done, strangers' objects untouched |
| track and legs | none | stops, climbs, turns, ferries, routes, towns; legs; lines | a ship's quay, silences of the receiver, routes within routes | the day is tiled, no leg ends at sea, lines answer to moments |
| film choice | none | fixed shots, stops' pictures, opening, windows of each leg | each stage has to keep clear of the others | shown windows are allowed and apart, every leg told that can be |
| film plan | none | timeline, opening, lines, subtitles, segments | cuts that meet at borders | the plan tells the whole ride, the film follows the plan |
| film files | plan, card directory, film, subtitles, scored film | plan, draw, encode, subtitle, score | minutes between first and last; leftovers; a second cutter | what stands is whole and one film |
| portable package | clips, map, judgement, manifest, film | build, harden by clips or film, install | stopped between any two writes; a plate read in one pass of two | what was read stays blurred, a settled package is clean |
| caches | one file each | read, ask or measure, write whole | processes meeting, stopped; inputs replaced meanwhile | what stands is whole, nothing is asked twice |
| highlights | an output directory, a review file | pick, cut, compose, review, rerun | leftovers of another run; decisions on other windows | clips show their picks, decisions stand |
| local story and package | a package directory | plan, resolve, reinforce, direct, execute, replay, decide, render | snapshots apart, files changed between | the script shows confirmed footage once, a replay repeats |
| camera clock | a proposal a person confirms | catalogue, propose, read GPS | chapters, clocks that are out | files are placed where they were shot, or it is said they may not be |
| web service | limiter windows | one request | routes and lists kept apart | the demo reads nothing of a ride, the limit and its promise hold |
| demo video | the video, its subtitles | fill, check, draw, join, place, inspect | the package changes meanwhile | captions and cues are one, figures agree |

Correct also means what is listed under "hazards" in `PROJECT.json`, each at its line.

## 2. Modules

| module | stands for | with |
|---|---|---|
| `Purchase` | what buying a judgement promises (abstract) | implemented by `AnalysisRun` |
| `AnalysisRun` | one package's judgement, thread by thread | its start and end are `JobConsole`'s purchase |
| `AnalysisRunProofs` | theorems of `AnalysisRun`, and that it implements `Purchase` | section 4 |
| `JudgementPlan` | windows, cascade, price | what `AnalysisRun` is given as `Plans` |
| `WindowOrder` | rankings and tournaments | reads the record |
| `JobConsole` | tabs, server, gate, job thread, command line | |
| `UploadBucket` | the bucket and every command on it | its `Upload` is `AnalysisRun`'s |
| `RideTrack` -> `RideLegs` | readings of a track -> legs and lines | extends |
| `FilmChoice` -> `FilmPlan` | windows of the film -> plan and segments | extends; legs, moments and lines are inputs in the shape `RideLegs` gives them |
| `FilmCut` | one package's film, file by file | what `FilmPlan` plans |
| `Sharing` | plates, faces, portable packages, health | |
| `Caches` | names, map, looks, metrics, references, copies | |
| `CameraClock` | catalogue and clock of a day | |
| `HighlightPick`, `HighlightRun` | choosing highlights; the directory they are cut into | |
| `LocalStory`, `LocalPackage` | the script; the directory it is kept in | |
| `WebService` | a request through limiter, rules and routes | |
| `DemoVideo` | both demo assemblies | |
| `JobConsoleProofs`, `UploadBucketProofs`, `SharingProofs` | theorems of the module of the name | |
| `FilmProofs` | theorems of `FilmCut` and `FilmChoice` | |
| `LocalProofs` | theorems of `HighlightRun` and `LocalPackage` | |
| `PlanningProofs` | theorems of `HighlightPick`, `JudgementPlan`, `LocalStory`, `CameraClock` and `WindowOrder` | |
| `WorkshopProofs` | theorems of `WebService`, `Caches` and `DemoVideo` | |
| `MC...` | instances for TLC | `MCJourney`, `MCWorkshop` and `MCLocal` run several machines |

### AnalysisRun

A file is a function from windows to judgements, a judgement the serial number of the
purchase that made it, so that losing, keeping and replacing one can be told apart; 0
is none and 1 stands for what an older program bought.  `future[p][w]` walks through
the statements of `judge_one` (`copying`, `asking`, `answered`, `writing`, `kept`), with
the lock held exactly while a future is `writing`.  The running total is composed when
the lock is taken (`snapshot`) and moved across in a step of its own, so a crash can
fall between.  `bought`, `lost` and `refreshes` are the ledger the properties speak of;
the code has no such variables.  `tries` is the transport's attempt counter.

Decisions: the pool's threads take queued futures in submission order; an
`os.replace` is one step, everything around it is not; `record` and `partial` survive
a crash and nothing else does; a request that fails was billed or was not.

**Refinement.**  `Purchase` knows judgements kept (`held`), the finished one, an account
of purchases and an account of excuses: a window may be paid for once and once more for
each excuse; what is kept stays; the judgement is finished with all of it kept.
`Implements` maps `held` to what either file holds, `finished` to what the record holds,
`spent` to `bought` and `excused` to answers lost and refreshes asked for.

### JudgementPlan and WindowOrder

A plan is made in four steps (`StrideWindows`, turns, moments, cascade) because each
step of the code sees the windows of those before.  Money and keep ratios are whole
numbers; `Rounded` is Python's rounding to even.  The screened cascade, the fallback
when the direct one would have to be tightened, is taken exactly when the code takes it.
In `WindowOrder` the model's answer is any order of the group or one with a hole;
`bill` counts what the command foretold, which `Shape` works out round by round, and
`ReadBack` reads the rounds back into one order.

### JobConsole

`request` is the request being handled: a page read is `Read` then `Show`, a button
`Post` then `Start` or `Refuse`, because each handler reads the console before it
touches the job.  `work[n]` is the thread the n-th button press started, which plans
for itself (`PlanWork`) before it does anything.  `pages[g].due` says that a tab's timer
is set; the figure it shows is left out, since any may be typed.  The stride of a package
may be written on the command line at any time: `meanwhile`, of a request and of a thread,
is the strides written since its figure was checked and before the job has planned, and a
bill keeps them (`WriteAnalysisSettings`, `Checked`, `Planless`).

### UploadBucket

An object carries its stamp, when its footage first came to the bucket, and which write
it is.  A command lists (`Sweep`, `ForgetAccount`, `MigrateAccount`) in one step and acts
in others, object by object; a migration looks, copies, confirms and deletes in four.
`Answers` lets a listing contain what is not the account's, which `_verified_names` is
there for.  `erased` remembers which windows somebody asked to be rid of, so that a hole
is told from a deletion.

### RideTrack, RideLegs

A point of the track is [seconds, metres, height, speed, bearing, lines, places and
answers within reach]: geometry is outside and what is in reach is part of the input.
Readings are operators on that track; `RideLegs` takes them in the order
`plan_journey_film` does, one stage a step: stops, turns, crossings, roads, legs, cards,
lines.  A title or a line is what it is about.

### FilmChoice, FilmPlan

What a model saw in a window is a record of the answers the choice reads.  The stages are
the code's: moments as the camera shows them, fixed shots, pictures of stops, opening,
shares of the legs, then the windows leg by leg, best first, and their cuts.  `FilmPlan`
lays the cuts and cards on a timeline, frames them, writes lines and cues, and makes the
list of segments; every refusal of those functions is a step to `refused`.

### FilmCut

A plan is a version, and a drawing carries the version it was drawn from.  `cards` is
the one directory of a package; a film is the sequence of frames FFmpeg found in it,
which ends where the numbers stop.  Position maps and section strips live in the same
directory, cleared and drawn with the cards, and one animated card stands for all.
`Stop` is a failure, a timeout or a kill; an encode that is not finished never leaves
its `.partial-<pid>` name, so it is not part of the shelf.  `alone` records whether
another cut or scoring ran beside this one: two at once share the card directory, and
only what is whole can be promised of their films.

### Sharing

A clip is its sampled frames, a frame the plates that can be made out, by their place
across the picture, and whether a face shows.  The reader of frames is external: it
makes out one plate at a time, another in a film than in a clip, which is what the
passes and rounds of the code are for.  `sampled` is the work directory that outlives a
clip; `verdict` says how the last command ended.

### Caches

A file's content is the set of things it holds an answer for, with whether it is whole.
A process opens its temporary file, fills it and moves it across in separate steps; a
file that is open stays the same file when it is moved.  `raced` records that two films
of one package were being made at once.

### CameraClock

A file of the day carries what it shows (true seconds) and what it says (its camera's
clock, its name, its GPS fixes).  The scores of the candidate steps and the best of them are
`propose_clock_offset`'s.  A file also carries when its recording began by its own stamp
(`began`), which the first chapter need not be there for.  The GPS clock is the median of the recordings' medians, where
their spread is within what is allowed; a median is said of the values of a function, by
how many are below, and not of a sorted sequence.

### HighlightPick, HighlightRun

Windows are gated, scored and picked greedily, as in the code.  In `HighlightRun` a
slot's name leads to a file (a hard link may lead two slots to one), a file shows a
window, and the selection, thumbnails, candidates for the story and the review are
written in the code's order by a run that may stop anywhere.  `WriteBridge` hands on every
approved slot: what the code leaves out for having no place on the track is
left out by `EvidenceGate` before, which asks for coverage.

### LocalStory, LocalPackage

Events, recordings and highlights give clips; picks narrow them; decisions confirm or
reject them; a script is composed, by a model (any order of the allowed) or by rule.
`LocalPackage` names how clips are cut by the versions of highlights and picks they were
cut from, so that files which disagree can be seen to.  `told` is what the director of the
last whole run was asked about, kept beside the package to compare its script with; it is
empty if that run asked none, and an older script then stands beside newer clips.

### WebService

A route is a family and what it gives.  A request meets the limiter, the credentials,
the demo's rules and the routes in the server's order; `answer.touched` is what the
handler reached: nothing, a review, the package, the cloud, the job.

### DemoVideo

Both assemblies: figures are filled from the package, checked, drawn one segment at a
time from film and copies, joined, put in place, subtitled and looked through, while
the package may change beside them.  Two things are remembered to speak of: `cutShort`,
that a package came whose film does not reach for what was left to draw, and `torn`, the
demos whose assembly ended after the video was in place and before its subtitles were.

## 3. What the runs check

Bounds are in the `.cfg` files and every one is a named constant.

| run | instance | shows |
|---|---|---|
| `analysis_run` | 1 process, 3 windows, 2 threads, 3 starts, 3 faults, older record or none | types; `Implements`: a judgement run is a `Purchase`; `NewestStays`: a refreshed judgement is not replaced by the one it replaced |
| `analysis_two` | 2 processes, 2 windows, 2 budgets, 3 starts, 1 fault, fairness | a finished record is whole; only missing windows are bought; every run ends |
| `console` | 2 tabs, 2 packages, 2 strides, 2 presses, 1 edit at any time, 1 fault, fairness | one job; the approved figure is billed, or that of a stride written since it was checked; bought once; a job shown running is seen to end |
| `bucket` | 2 accounts and the root, 2 commands at once, 3 writes, 1 stray listing, 1 crash or lost copy; or 3 commands one at a time over 3 days with links | a stray listing deletes nothing; deletions are done; a working link has an object; no hole |
| `local` | 5 machines | highlights, their directory, script, plan, package, clock |
| `workshop` | 7 machines | plan, order, film files, parcel, caches, web service, demo |
| `journey` | 2 machines | the day's legs and lines; the film's choice, plan and segments |

`local`, `workshop` and `journey` are **sums**: each behaviour picks one machine
(`atWork`) which runs from any of its initial states while the others stand in one
fixed state.  The machines share no variable, and an invariant of one is not affected
by another, so a sum checks each machine exactly as a run of its own would; it is done
this way because they are started by one person in a row and never at once.  Machines
that do meet, `Caches`' processes, `FilmCut`'s cutters, `LocalPackage`'s run and page,
are one machine each.

Why the bounds are enough.

* *Judgement.*  Two answers in flight and a third window queued, so that one fault leaves
  one future running and one to cancel; two runs to see what the first left and a third
  to see what the second made of it.
* *Console.*  Two tabs and two packages for a press from a stale page, two presses for one
  that comes while the other's job is at work or just over.
* *Bucket.*  Two commands that list before either deletes; three writes are an upload, a
  copy of it and an upload over one of them; the clock stands before, at and after a
  deadline.
* *Film files.*  A longer drawing before a shorter one, a third cut or scoring after two,
  two cutters, one change of plan, one fault anywhere.
* *Plan.*  Rides of up to eleven windows whose recordings begin before the ride, end after
  it, overlap or miss it; budgets from one nothing fits to one that does not bind.
  *Order.*  Five windows in groups of two: three rounds, windows left alone in two.
* *Sharing.*  Five plates against two passes of one plate each, so that passes run out;
  a face in the last frame of a longer clip before a shorter one; four commands are
  a build, two hardenings and an installation.
* *Caches.*  Two processes, three starts: one stopped, one that meets another.  Nothing in
  `Caches` or `FilmCut` tells their processes apart but the names of their files, which are
  pairs with the process in them, so the run takes both sets as symmetric.
* *Web service.*  A window's worth of requests before and after its border, ticks finer than
  the second the wait is told in; every route, method and mode.
* *Demo.*  Both versions in one directory or one twice, a package that changes once, before,
  between or after two segments are drawn, films too short and long enough, assemblies
  that end anywhere, figures that agree and do not.
* *Journey.*  Every two stages of fifteen kinds (crossings, silences, towns, bends, climbs)
  followed by one of seven, days of sixteen stages, which fill the number of legs, and every
  four of five kinds
  named and unnamed; rides of four windows at the borders of two legs with each of the
  answers the choice reads; unjudged rides whose clips touch, overlap, are apart or leave no minute for a card and so
  nothing to say in the subtitles; rides whose towns are charted and rides whose towns are
  guessed from slow stretches, at sea and ashore.
* *Highlights and local story.*  Windows refused for each of the gates by itself, covered by
  too few fixes or of too little use as pictures among them; windows together, apart and between; three slots and all
  the ways two runs' picks can share windows; routes that cross the sampling threshold;
  sets of three highlights of six; two preparations and a page.
* *Clock.*  Days of single files and of recordings of three chapters, one missing, unread
  or begun at another time, on clocks right, a step out, or out by something else.

### Where the code and its own words part

Each of these runs checks one property taken from a comment or docstring and TLC
refutes it; `PROJECT.json` quotes the line under "findings".

| run | what happens |
|---|---|
| `analysis_paid_kept` | A rerun under a tighter budget replaces the running total by one without windows already paid for. |
| `console_waiting` | After a failed judge job the page says the judgement is being bought, and offers nothing. |
| `bucket_deadline` | A migrated copy starts its retention period over. |
| `film_stream` | After a silent recut the page streams the scored film of the cut before. |
| `faces` | A clip looked at after a longer one is judged by the longer one's leftover frames and dropped for its face. |

### Seen on the way

Other partings of code and words, and behaviour worth a maintainer's look, that the
models step through or that were read beside them.  None has a run of its own.

*Judgement and console*

* A window asked to be refreshed is carried all the same when a failed run's running
  total holds it (`Carry` looks at `results` before it looks at `refresh`).
* Between the first fault and the cancelling of what is queued, a free thread takes
  another window (`Claim` before `CancelPending`), though a comment says the fault stops
  new work.
* `command_judge` reports as newly bought the plan's candidates less what was held, also
  those a binding budget never watched.
* A direct cascade that fits only when tightened is replaced by the screened one, which
  may be refused although the direct one fitted; and `run_analysis` never performs the
  screening that was priced.
* A failure in a later group of `rank_windows` loses the answers paid for in earlier
  ones; `plan_ranking_cost` counts a single window left over as a group.
* The figure is compared in the request and the plan made again in the thread: a stride
  written between the two is what is bought, at a sum nobody approved.  `ApprovedIsBilled`
  allows that and nothing else.  A request names no package, so a
  tab that shows one ride buys another, selected meanwhile, if both come to the same
  figure: the sum is then the one approved, the ride is not.  In the run each has its own.
* A page read that straddles the end of a job (`Read`, the job ends, `Show`) shows the
  old stage and sets no timer.  A failed intake leaves a directory whose name is taken.

*Bucket*

* A sweep deletes by name a copy uploaded again since it listed, with a link to it handed
  out; hence the `careful` habit of `LinkNeverOutlives`.
* A forgetting between a migration's confirmation and its delete, with an upload at the
  root, costs the upload; hence `erased` in `NoHole`.

*Film*

* A refused or failed cut has already replaced the plan the page lays out, and scoring
  then takes its length from a plan the film was not cut from; `FilmTellsOneStory` speaks
  of cuts that return.  Subtitles are written in place after the film.
* The opening may pick a standing picture that selection then refuses; fixed shots held
  eight seconds may be shortened by the next required window; a halt that spans two legs
  can be shown twice.
* A card between two cuts that meet at a border refuses the plan (`RefusedOnlyAtABorder`
  names the cases); confirmed clips that overlap refuse an unjudged film, and so does one
  with clips and no card, for `render_srt` and `render_webvtt` take no empty list of cues:
  a ride confirmed in full cannot be cut without a judgement.
* A town guessed from a slow stretch is kept clear of ships at the middle of the stretch and
  said at its start, which may be at sea; `LinesAreClear` holds it to the middle, and a
  charted town to the moment it is said at.  A leg after a
  crossing or a route that ended in a halt says the whole halt's minutes.
* An opening's taste of a cut shows the full cut's map, for maps are keyed by event.

*Caches, clock and local path*

* `place_names` and `map_background` catch `URLError` but not a read's timeout, which ends
  the film, though "No film waits on a name."
* Metrics of a recording replaced while it is measured are kept under the new bytes'
  fingerprint; the preflight reuses a copy by event id although the window moved; two
  films at once share the names' temporary file (`raced`).
* The camera's clock is proposed from raw container times, so later chapters of a GoPro
  recording count at the first one's start, unlike in the catalogue.
* The director orders events by a requested start that is 0.0 for every event, so its
  "chronological" build-up is alphabetical by event id.
* A render without a script shows rejected clips too, one with a script refuses whenever a
  matched clip is rejected; a crash between two snapshots leaves a pair that is replayed
  mixed.
* A preparation that overwrites and is given no director leaves the earlier one's script
  beside its own clips and snapshots, events and cuts of which may be others.
* Recordings are found by file name only, the first of that name below the folder.

*Sharing and demo*

* `harden_from_film` traces a region merged over a cut to one of its windows; the last
  blur pass is not inspected again; a rebuild that fails followed by a hardening leaves an
  empty judgement.
* The first demo holds its last caption for 8 of 17 seconds while the cue lasts 17,
  replaces the video before its subtitles, and does not ask how long the film is.  The
  second is inspected after it is in place.  A film that is replaced by a shorter one while
  a demo is drawn shortens the demo, in the second version too, and its cues stay.

### Fairness

`analysis_two` assumes weak fairness of `Proceed(p)` for each process: a running
process's threads are scheduled, and every request, upload and write has a timeout or
comes back.  It does not assume that any of them succeeds, and starting a run and
crashing are not fair.

`console` assumes that a started thread is scheduled, that a request being handled
is answered (the server is single-threaded and no handler blocks on a job), and strong
fairness of a tab's next read while its timer is set: the browser keeps firing the
timer, though other tabs' requests may get in first each time.  A tab that finds no
server stops its timer and is not owed anything.

The other machines have no liveness property: a command that is neither fair nor
resumed may stop for good after any step, and nothing else waits for it.

## 4. What is proved

Each theorem is a statement about every instance that satisfies the ASSUMEs of its
module: any sets of processes, windows, accounts, tabs, places or clients, any plans and
costs, any bounds.  What else a theorem assumes stands in its ASSUME and is named below.
The inductive invariants that TLC can evaluate were checked on the instances of section 3
as well.  No property that is stated here is inductive as it stands,
unless said so; the text names what had to be added, for that is what the code relies on.

### The judgement (`AnalysisRunProofs`)

From the ASSUMEs of `AnalysisRun`: windows are finitely many naturals, plans have
candidates and keep at least one, the bounds are numbers.

* `TypeCorrect`: `Spec => []TypeOK`.
* `FinishedRecordIsWhole`: `Spec => []RecordWhole`.  The record is written from a process's
  results, so `WholeInv` adds that a process at work judges the watched windows of some
  plan (`Planned`), that nothing is submitted before what is held was carried
  (`Unsubmitted`), and that a future which has come through has its judgement in the
  results (`ResultsHeld`).  Then `AllJudged` at the moment of writing says the results
  cover the plan.  No assumption on who else writes the files is needed, which is why it
  holds for two processes.
* `OnlyTheMissingIsAsked`: `Spec => BuysOnlyMissing`, likewise for any number of processes.
  `Unasked` says that a window in the pool, up to its answer, has nothing in the results:
  `TakeLock` notes a result and moves the future on in one step.
* `PaidIsKept`: `Spec /\ Alone => PurchaseKept`, where `Alone` says that there is one
  process and that all plans watch the same windows; both are needed, as
  `analysis_paid_kept` shows for plans.  The argument is `KeptInv`: what the running total
  holds is always within the results of the process at work (`PartialCarried`), what a
  writer is about to move across leaves none of it out (`WriterCovers`, which is where the
  lock counts), and it is removed only when the record covers it (`UnlinkCovered`).
* `NewestIsKept`: `Spec /\ Alone => NewestStays`.  Judgements are numbered as they are
  bought, and nothing held bears a number to come (`Numbered`); so what was just bought is
  newer than the record's (`NoneOlder`), and since the process at work holds the running
  total as it is on disk (`HeldAsWritten`), neither writing the record nor removing the
  total brings an older judgement back.
* `BuyingIsPurchase`: `Spec /\ Alone => Implements`, the refinement.  What a step of
  `Purchase` may do is guarded by the accounts, so the proof needs `LedgerInv` beside
  `WholeInv` and `KeptInv`: no window was bought more often than once and for each excuse
  (`ChargedOnce`); one that is due, or that nobody holds, not even that often
  (`DueIsExcused`), which is what lets an answer be paid for; what is held was bought
  (`HeldIsBought`), which is what lets it be kept; an answer belongs to a future that has
  come so far (`AnswersInHand`) and a written record holds all that was judged
  (`UnlinkWhole`).  `NextLedger` keeps them action by action; then each action is a `Pay`,
  an `Excuse`, a `Keep`, a `Finish` or a stutter.

### The console (`JobConsoleProofs`)

From the ASSUMEs of `JobConsole`: there is a tab, the first package and the default
stride are among theirs, costs are numbers.

* `TypeCorrect`: `Spec => []TypeOK`.
* `OneJobAtATime`: `Spec => []OneJob`.  `OneThread` says the same without counting, and
  `PressCounted` that a request which is to start a job has been counted, so that the
  thread it starts is a new one.
* `JudgementBoughtOnce`: `Spec => []BoughtOnce`, with `OneThread`: no other thread can finish
  the record between a thread's look at it and its purchase.  Purchases of the command
  line are not in this module; `AnalysisRun` has them, as its second process.
* `ApprovedIsTheBill`: `Spec => []ApprovedIsBilled`, of edits at any time.  `FigureHeld`
  follows a figure from the request to the thread: until the thread plans, it is that of the
  package under the stride it has, or the stride it has was written since and is noted
  (`StrideNoted`, `Agreed`, `Holding`, `Carrying`); from then on it is so of the stride
  that was planned with.  Packages may come to equal figures.

### The bucket (`UploadBucketProofs`)

From the ASSUMEs of `UploadBucket`: the root is not an account, habits are of their type.

* `BucketTypeCorrect`: types, and that a deletion holds names of its own account, a
  migration names at the root, and no listing is from the future (`Owned`, `Numbered`).
* `StrayedListingDeletesNothing`: `BucketSpec => []StrayStops`.
* `DeletionDoesItsWork`: `BucketSpec => []DeletionIsDone`, by `Listed`: an object that was
  seen, is there and was not written since is still on the list or was not due.
* `NoInterleavingLosesFootage`: `BucketSpec => NoHole`, by `MoveIsSafe`: a migration about to
  delete an old name has the window under the new one, or a retention command has been
  there.  Any number of commands, uploads, crashes and copies that do not arrive.
* `NoLinkOutlives`: `OnePeriod /\ BucketSpec => []LinkNeverOutlives`.  `Carefully` says of
  every link that its object is there and stays within the period beyond it
  (`WithinPeriod`), that what a sweep holds is at its deadline (`AtDeadline`) and that no
  stamp is ahead (`NotAhead`).  `OnePeriod` puts into words what a careful habit is: one
  retention period and no skew.  It cannot be dropped: with an upload stamped one
  tick ahead, a link as long as that and a migration's copy over it, TLC finds a link to
  nothing.

### The film (`FilmProofs`)

*Its files.*

* `CutTypeCorrect`, with `Going`: a cut past its plan has one, draws no further than its
  card goes, and has a whole film in place when it gets to subtitles and music.
* `OnlyAWholeFilmReplaces`: `CutSpec => FilmStays`, for any number of cutters at once.
* `FilmIsOneStory`: `CutSpec => []FilmTellsOneStory`.  `CutInv` adds, of a cut that nobody is
  beside, that the plan on file is its own, that the card directory holds its drawing so
  far and nothing else (`Drawing`: this is where clearing it first counts), that what is
  encoded shows a beginning of that drawing, and that each file written after it is of the
  same plan (`Telling`).

That FFmpeg reads consecutive numbers up to the first gap is a statement over all lengths.
Induction is not at hand for it; `LeastNatural`, that a set of naturals has a least
element, is (from the well-foundedness of `<`), and the proofs argue by the least
counterexample.

*Its windows.*  For any set of judged rides, from one ASSUME: what the judgement wrote and the
day's legs are lists, windows begin at whole times and are all of one length, which the
code cuts them to and leaves out where a recording does not last, and legs follow one
another (`RidesAssumption`).

* `LegsAreAllTold`: `ChoiceSpec => []EveryLegIsTold`.  A leg is left when what it took
  reaches its time, so this is where the time matters: every leg with a window has some
  (`TimeIsShared`, through all rounds of `Shares`: `SharesAre`), so a leg that took nothing
  was left because nothing remained to be considered, and a window considered with nothing
  taken was turned away for one shown or required elsewhere (`LegsAreTold`).  That a window
  turned away stays too near another is that what is chosen is never taken back.
* `ChoicesAreSound`: `ChoiceSpec => []ChoiceIsSound`.  *Allowed*: what is in a leg's pool is
  not refused (`LegIsFit`, `ChosenAreFit`), and the opening was picked from what the floors
  let through (`OpeningIsFit`).  *Apart*: `KeptApart` is not inductive.  A required window is
  taken if it merely does not overlap, and one chosen for itself in an earlier leg may
  be near; `RequiredApart` says that it is not, for it was held against all that is
  required elsewhere, and that a leg takes what it must first.  *Cut*: `CutsAre` gives each
  window one cut inside it, of two seconds at least, whichever way its hold was found
  (`MotionIs`, `RaisedIs`, `VariedIs`), and `OverlapsAreGone` that two neighbours in the order of
  where they begin no longer overlap and that a dropped cut's window overlaps the next one's.

Both share `TakingKeeps`, what any taking of a window comes to, and the lemmas that make an
order of keys (`KeysOrder`: the first difference decides) into a first (`FirstOfFinite`) and a
list (`OrderedIs`).

### Highlights and the local package (`LocalProofs`)

* `WholeDirectoryIsOneStory`: `RunSpec => []DirectoryIsWhole`.  `RunInv` says what a run owns
  at each of its steps (`OwnPicks`), that the slots it is through with show its picks
  (`Shown`), and, where no two names led to one file when it began, that what it has yet to
  cut shares no file with what it has done (`Apart`).  Where two did, a rerun that cuts one
  slot writes the other's file: `FilesAre` says that each slot it is through with then has a
  file which shows the pick of one of the slots that share it, and that is what is promised
  of hard-linked directories.
* `NoRunUndecides`: `RunSpec => DecisionsStand`, action by action from the same invariant.
* `PackageHoldsOneStory`: `PackageSpec => []PackageIsOneStory`.  `PackageInv` says what the run
  under way has written down (`Written`), where its highlights and picks came from and
  what the package keeps of them by then (`Snapshots`), and what a run that ended well
  left (`WholeAs`).  Of the script, `OfItsEvents` says that a run which has asked its
  director asked about confirmed events of its own exports, and `ScriptTellsStep` that
  nothing else writes the script of a package that is whole.  Nothing is promised of the
  script where the last whole run asked no director.
* `ReplayMakesTheSame`: `PackageSpec => ReplayRepeats`, by `Repeats`: a replay of a whole
  package plans what it finds there.

From the ASSUMEs of the modules: there is a slot and a run; no highlights and no picks are
a version, events planned for each version are a sequence.

### The planners (`PlanningProofs`)

These five modules compute: what a window, a clip, a plan or a shift is chosen for is a
maximum, a rank, a sum or the next free place.  Their proofs share lemmas about that: a finite
set that is totally ordered by a transitive relation has a first element
(`FirstOfOrder`, `FirstOfFinite`), every element has a place in it and each place is
somebody's (`PlaceIn`, `PlacesInOrder`), the least and greatest of finitely many integers
(`LeastOf`, `GreatestOf`), and what a recursive function over naturals keeps from one value
to the next (`StepByStep`, `StaysIn`, `GrowsOn`, each by the least counterexample).

*Highlights.*  `PicksStandAndSpread`: `PickSpec => []PicksAreSound`, for any footage, any
measure of how two windows look and any bounds.  Picking looks at what is free now, and the
promise is about the end, so `PickInv` adds that any two picks stand apart already
(`StandApart`); that once a part of the route was taken from twice, nothing free is in a
part nothing was taken from (`NothingSpread`: it becomes false nowhere, because nothing
becomes free again); and why picking ended (`EndsFull`).  That the first pick is the most
relevant (`FirstIsBest`) needs that with nothing picked nothing stands in the way and no
part of the route is used up, whichever of the three orders the run picks by.

*What is judged.*  `PlansAreSound`: `PlanSpec => []PlanIsSound`.  `Drawn` says that windows
lie in a recording and in the ride and no two begin together; it is kept by snapping to
the stride, whose arithmetic is `PlacedIs`' and `TwiceTheStride`'s.  `StepIs` is what each
stage leaves the next: all of the stride's windows before the turns, a window for every
moment before the price.  That the price is that of the windows watched
(`JudgedIsPriced`) rests on the rank of each window at each stage being a bijection onto
`1 .. n` (`PlacesInOrder`), hence `SurvivorsAre`: a level passes on as many windows as it
says.  That nothing is refused which would fit tighter is `~Fits /\ Feeders(stages) = {}`
at the refusal, and that a stage that is no feeder is at the floor.

*The local story.*  `ScriptsAreSound`: `StorySpec => []ScriptIsSound`; `PlansCanBeCut`:
`StorySpec => []PlanCanBeCut`; `ReinforcingOnlyNarrows`: `StorySpec => OnlyNarrowed`.
`StoryInv` carries that events are finitely many and told apart by their identifiers
(`EventsAreTold`, `Identified`), and that a plan has one clip of an event, in one of the
recordings (`ClipsAreTold`), from the plan to the script.  Events of one importance and
moment are ordered by their identifiers, as text; `Alphabet` gives an identifier's place
there and `DigitsDiffer` and `AlphabetTells` show that no two points, types or highlights
share one, so that ties are always decided (`EventsAreOrdered`).  That is what the strongest
of each type exists by (`StrongestIs`).  `PlanFollowsFootage` rests on more events asking for
no less (`MoreAskForMore`): the first event left out was left out because the film was full.
`Reinforce` narrows to an overlap, so `OneNarrowed` shows that it is within both; a script
shares scenes out of a sorted list without showing one twice (`CastSharesOut`), and shows
something because something was confirmed.

*The clock.*  `DaysArePlaced`: `ClockSpec => []DayIsPlaced`, for any number of files,
chapters, fixes and steps.  `EntriesAre` says that each of finitely many entries stands where its
file was shot: chapters that are all there are a bijection onto `1 .. n` (`ChaptersAre`, by
cardinality), each begins where the one before ended, so the sum the catalog adds up is
the time since the first (`EarlierChaptersAre`).  `ProposalIsRight`: the right shift puts
every recording inside (`RightShiftFits`), none can do better, the best exists because
shifts that score alike differ in size or sign (`ScoresAreOrdered`), and if it is the only one
that does as well it is the right one.  `GpsIsRight`: a median is between what its values are
between (`MedianIsBetween`, from `ValueIs`), used once within a recording and once between
them.  ASSUMEd is that a camera files chapters one after the other, and that a fix which
can be trusted is wrong by no more than `Noise` (`DayAssumption`).

*An order is bought.*  `OrdersAreBought`: `OrderSpec => []OrderIsBought`, for any windows and
scores, any size of group, any attempts, holes and rounds.  What is ranked is windows of
the ride, each once (`WorthRankingIs`: their places are a bijection); groups share a list out
(`GroupNumbers`, `GroupsAre`).  `OrderInv` carries that an order so far is of its group, or a
ranking that was given up in the order of the scores (`StandsFor`); that each round before
shared out who entered it and sent its winners on (`RoundsAre`, `RoundComesIn`,
`WinnersAre`); that answers are among the orders and, with no hole, every order that compares
is an answer (`AnswersFit`); and that what was spent is what is no longer left of the quote
(`BillFits`).  The quote is a recursion on the size of a tournament; that its function exists
over all naturals is `ShapeIs`, by tables up to each size.  At the end, reading back carries
"all of them, each answer kept, and the first is unbeaten" round by round to the first
(`FlattenIs`, `ReadOutIs`, `RoundBack`, `ReadBackIs`).

ASSUMEd is of the footage and the rides what their parsers give: windows, recordings and
moments are finite sequences of whole seconds, a distance of looks is a number
(`FootageAssumption`, `RideAssumption`), a highlight's identifier is its own and a route's
events lie at its points (`RideAndFootageAssumption`).  `MostPoints` bounds the points of a
route at 100000, more than a day has seconds.

### The web service, the caches and the demo (`WorkshopProofs`)

* `DemoIsSynthetic`: `WebSpec => []DemoStaysSynthetic`.  Inductive as it stands, since the
  answer is all that is remembered; the proof is the walk through the rules and routes, in
  their order (`OpenTouchesNothing`).
* `LimitIsKept`: `WebSpec => []RateKept`.  `Counted` speaks of one worker: its window counted
  what it admitted since it began, and any stretch as long as a window that ends before it
  took in one window's worth; hence two in any stretch.  The workers' counts add up because
  their admissions are disjoint sets (`AllWorkers`: finitely many workers, by ASSUME).
  `ToldEnough` is the promise: the wait covers the window, or a new one has begun.
* `WhatIsKeptIsWhole`: `CachesSpec => []PublishedIsWhole`.  `PlacedIn` says that a run which
  writes something nobody else writes beside has the temporary file to itself until it is
  moved, and that what it moves is whole.  It holds for names too while films of one
  package are made one after another (`~raced`).
* `PlacesAskedOnce`: `CachesSpec => []AskedOnce`, while not `raced`: there is one film
  (`OneFilm`), it knows all that is on file (`Knows`), and an answer is on file, known to
  that film or accounted as lost (`AnswersKept`).  ASSUMEd is that no process is called
  what the two kinds of path end in.
* `DemosSayThemselves`: `DemoSpec => []DemoSaysItself`, for any packages, inputs and
  excerpts.  Two recursions have to be followed: when a segment is on (`RunTimeIs`,
  `TimeGoesOn`) and what is said in the cues so far.  `CuesUpTo` is the second's invariant:
  each caption is in a cue, each cue says one stretch of segments and neither neighbour
  of it, and only the last cue ends where the segments do; `CueTakenIs` takes one segment
  further.  `DemoInv` relates an assembly to the film: a part of a segment says the same
  for no longer and is the segment if it lasts as long (`CutIs`), so a video that lasts as
  long as the script has no part that was shortened (`SameLengths`, `WholePartsAre`),
  whatever films it was cut from.  The second version asks how far the film reaches
  (`Assemble2Keeps`), and until a film comes that does not reach for what is left
  (`cutShort`) every part is its segment.  `Said` is the promise of the demos in place
  while others are made; `ByThen`, that subtitles in place are not of a later demo, is what
  makes a video just joined the newer.    That captions fade exactly where cues begin and end is
  that segments of one caption, the judged windows, come one after another
  (`Timeline2Is`).  ASSUMEd is that inputs list windows, times are numbers
  (`DemoAssumption`), and the judged windows share their half minute with none left out
  (`JudgedAssumption`; there are four).

### The package to share (`SharingProofs`)

`WhatIsSharedIsSound`: `ShareSpec => []ParcelIsSound`, all three parts of it, for any footage
and plans and any numbers of passes and rounds, whatever stops.  ASSUMEd is that clips
are sequences of frames and that plans name events there is footage of.

* *What was read stays blurred.*  `BoxIsAround` (padding, widening and even pixels leave the
  plate inside its box, at the edges of the picture too), `SightingCovers` and
  `MergedCovers` (every region taken in is inside one that is kept; by the least
  counterexample along the recursion) say that one pass blurs all it read.  Over passes it
  is `FoundSoFar`: a window is blurred from its recording again each time, so a plate read
  in any earlier pass has to be inside a region found so far.
  A clip that is hardened is blurred in place, where nothing comes back (`BlurringKeeps`).
* *What settled is clean.*  `LookedAt`: a round that has changed nothing has found each clip
  behind it clean or gone, and `Settled`: only a hardening from the film touches it after.
  That a look sees leftover frames of another clip too costs clips (`faces`), but never
  lets a plate or a face through (`SampledAre`).
* *What is listed is judged.*  `Planned` says of a build that each window is cut or still to
  be cut, `Judged` that the map is within the judgement from the end of the first build to
  the beginning of another, and again after any that ended.

### What TLC alone shows

* Liveness (`RunEnds`, `RunningShownEnds`): the proof system has no ENABLED and no fairness.
* What a fold over an input computes: `RideTrack`, `RideLegs` and `FilmPlan`.
  Their properties are about results of folds over sequences, one feeding the next, and
  of a few RECURSIVE operators; they would need induction over data, which has a way round
  only where the recursion is on a number, as in `MergedRegions`, the turns and moments of
  a plan, its estimate, the cues of a demo, the rounds of a tournament or the shares of the
  legs.  The runs enumerate inputs instead.
* The five runs that refute a comment are counterexamples, which a proof cannot add to.

## 5. Not modelled

* **Drawing, colour, layout, sound and FFmpeg filter graphs** (`story_color.py`,
  `story_audio.py`, `chapter_card.py`, `lower_third_text.py`, most of `story_film.py`, the
  drawing half of `demo_scenario_v2.py`): numbers and pictures with no control state.
* **Measuring frames and telemetry** (`analysis_screening.py`, `story_hold.py`'s pixels,
  `video/gpmf_metrics.py`, `apple_vision.py`, `probe.py`): models take what they say as
  input.
* **Parsing** of GPX, GoPro, JSON and the services' answers, and **great-circle
  geometry**: a point of the track says what is within its reach.
* **Wording and markup** (`i18n.py`, page templates, most of `server.py`): what a page
  offers is in `JobConsole`, what a route touches in `WebService`.
* **Prompts and the text agents write**, adapters to external runtimes, deployment and
  submission checks, `unit_economics.py`, `data_handling_disclosure.py`: no state.
* **The V4 signature** and the **bucket's lifecycle rule**, which deletes on the provider's
  schedule.  `check_backstop` says a rule of the expected age is there also when a tighter
  one is there too.
* **`analysis_compare.py`, `trip_days.py`, `story_timelapse.py`, `chapter_order.py`**: a
  report, a grouping by date, a drawing, and the order of the older story's chapters,
  which nothing but its own text depends on.
* Leftover `.partial-<pid>` files, which nothing reads.  Crash means the process goes and
  the files stay; loss of unsynced writes in a power cut is not modelled (the code does
  not fsync).

## 6. What is left

1. Proofs about `RideLegs` and `FilmPlan`, with recursive functions in place of their
   folds, as in `MergedRegions`, `JudgementPlan`, `WindowOrder`, `DemoVideo` and `FilmChoice`.
2. `trip_days.py` with several days in `RideLegs`; the reinforcement page beside
   `LocalPackage`.
3. A reader in `FilmCut` whose film is replaced while it is played, once the source says
   what it is owed.
