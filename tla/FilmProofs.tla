----------------------------- MODULE FilmProofs -----------------------------
(***************************************************************************)
(* What TLAPS proves of FilmCut for every set of processes, every list of  *)
(* plans and lengths of their cards, and any number of cuts, changes and   *)
(* failures, and of FilmChoice for every set of judged rides.              *)
(***************************************************************************)
EXTENDS FilmCut, FilmChoice, FiniteSetTheorems, WellFoundedInduction, TLAPS

Plans == 0..Len(Frames)
Films == [plan : Plans, shows : Seq(Version), whole : BOOLEAN, alone : BOOLEAN]
Scores == [film : Films, length : Plans]
Steps == {"", "plan", "clear", "draw", "check", "open", "encode", "srt", "srt_write",
          "vtt", "vtt_write", "mix", "put", "done"}
Cutting == [kind : {"", "cut", "score"}, step : Steps, alone : BOOLEAN, overwrite : BOOLEAN,
         music : BOOLEAN, plan : Plans, drawn : File, partial : Films, mix : Scores]

Types ==
  /\ evidence \in Version
  /\ plan \in Plans
  /\ cards \in [File -> Plans]
  /\ film \in Films
  /\ scored \in Scores
  /\ subtitles \in [{"srt", "vtt"} -> Plans \cup {Torn}]
  /\ cut \in [Cutter -> Cutting]
  /\ cuts \in Nat /\ edits \in Nat /\ faults \in Nat

\* The steps of a cut once it has its plan, and of those once it has its film.
AfterFilm == {"srt", "srt_write", "vtt", "vtt_write", "mix", "put", "done"}
AfterPlan == {"clear", "draw", "check", "open", "encode"} \cup AfterFilm

(***************************************************************************)
(* Of any cut, whatever is beside it: it has a plan to go by; it draws no  *)
(* further than its card goes; and once it has put its film in place there *)
(* is a whole one, and what it mixes music under is whole.                 *)
(***************************************************************************)
Going(c) ==
  /\ cut[c].step \in AfterPlan => cut[c].plan \in Version
  /\ cut[c].step \in {"plan", "clear"} => cut[c].drawn = 0
  /\ cut[c].step = "draw" => cut[c].drawn <= Frames[cut[c].plan]
  /\ cut[c].step \in AfterFilm => film.whole
  /\ cut[c].step = "put" => cut[c].mix.film.whole

WholeFilms ==
  /\ film = NoFilm \/ film.whole
  /\ scored = NoScore \/ scored.film.whole

CutType == Types /\ WholeFilms /\ \A c \in Cutter : Going(c)

-----------------------------------------------------------------------------
(* Lemmas about the operators.                                             *)

\* A set of naturals with anything in it has a least one: what induction comes
\* to here, by way of the least counterexample.
LEMMA LeastNatural ==
    ASSUME NEW T \in SUBSET Nat, T # {}
    PROVE  \E x \in T : \A y \in T : ~(y < x)
  <1>1. IsWellFoundedOn(OpToRel(<, Nat), Nat)
    BY NatLessThanWellFounded
  <1>2. PICK x \in T : \A y \in T : ~(<<y, x>> \in OpToRel(<, Nat))
    BY <1>1, WFMin
  <1>3. ASSUME NEW y \in T PROVE ~(y < x)
    BY <1>2, <1>3 DEF OpToRel
  <1> QED
    BY <1>3

\* Each plan's card is animated in one frame at least.
LEMMA FramesAre ==
    /\ Len(Frames) \in Nat \ {0} /\ 1 \in Version /\ Version \subseteq Plans
    /\ \A v \in Version : Frames[v] \in Nat \ {0}
  <1>1. Frames \in Seq(Nat \ {0}) /\ Frames # <<>>
    BY FramesAssumption
  <1>2. Len(Frames) \in Nat \ {0}
    BY <1>1
  <1> QED
    BY <1>1, <1>2 DEF Version, Plans

\* Of three lengths.
LEMMA Longer ==
    ASSUME NEW a \in Nat, NEW b \in Nat, NEW c \in Nat
    PROVE  a <= a /\ (a <= b /\ ~(c <= b) => a <= c)
  OBVIOUS

\* MostFrames is as long as any of the cards, and one of them is as long.
LEMMA MostFramesAre ==
    MostFrames \in Nat \ {0} /\ \A v \in Version : Frames[v] <= MostFrames
  <1> DEFINE Longest(k, v) == \A u \in 1..k : Frames[u] <= Frames[v]
             Without == {k \in 1..Len(Frames) : \A v \in 1..k : ~Longest(k, v)}
  <1>1. Len(Frames) \in Nat \ {0} /\ Version = 1..Len(Frames)
    BY FramesAre DEF Version
  <1>2. \A v \in Version : Frames[v] \in Nat \ {0}
    BY FramesAre
  <1>3. Without = {}
    <2> SUFFICES ASSUME Without # {} PROVE FALSE
      OBVIOUS
    <2>1. Without \in SUBSET Nat
      OBVIOUS
    <2>2. PICK k \in Without : \A j \in Without : ~(j < k)
      <3> HIDE DEF Without
      <3> QED
        BY <2>1, LeastNatural
    <2>3. k \in 1..Len(Frames) /\ k \in Nat
      OBVIOUS
    <2>4. k # 1
      <3>1. k = 1 => Longest(k, 1)
        BY <1>1, <1>2
      <3> QED
        BY <2>3, <3>1
    <2>5. k - 1 \in 1..Len(Frames) /\ k - 1 < k
      BY <1>1, <2>3, <2>4
    <2>6. PICK v \in 1..(k - 1) : Longest(k - 1, v)
      BY <2>2, <2>5
    <2>7. /\ v \in Version /\ v \in 1..k /\ k \in Version
          /\ \A u \in 1..k : u \in Version /\ (u # k => u \in 1..(k - 1))
      <3>1. k \in Nat /\ Len(Frames) \in Nat /\ k <= Len(Frames) /\ 1 <= k
        BY <1>1, <2>3
      <3> HIDE DEF Without, Longest
      <3> QED
        BY <1>1, <3>1
    <2>8. CASE Frames[k] <= Frames[v]
      <3>1. ASSUME NEW u \in 1..k PROVE Frames[u] <= Frames[v]
        <4>1. CASE u = k
          BY <2>8, <4>1
        <4>2. CASE u # k
          BY <2>6, <2>7, <4>2
        <4> QED
          BY <4>1, <4>2
      <3> QED
        BY <2>2, <2>7, <3>1
    <2>9. CASE ~(Frames[k] <= Frames[v])
      <3>1. ASSUME NEW u \in 1..k PROVE Frames[u] <= Frames[k]
        <4>1. Frames[u] \in Nat /\ Frames[v] \in Nat /\ Frames[k] \in Nat
          BY <1>2, <2>7
        <4>2. CASE u = k
          BY <4>1, <4>2, Longer
        <4>3. CASE u # k
          <5>1. Frames[u] <= Frames[v]
            BY <2>6, <2>7, <4>3
          <5> QED
            BY <2>9, <4>1, <5>1, Longer
        <4> QED
          BY <4>2, <4>3
      <3>2. k \in 1..k
        BY <2>3
      <3> QED
        BY <2>2, <3>1, <3>2
    <2> QED
      BY <2>8, <2>9
  <1>4. \E v \in Version : Longest(Len(Frames), v)
    <2>1. Len(Frames) \in 1..Len(Frames)
      BY <1>1
    <2>2. Len(Frames) \notin Without
      BY <1>3
    <2> QED
      BY <1>1, <2>1, <2>2
  <1>5. \E n \in {Frames[v] : v \in Version} : \A v \in Version : Frames[v] <= n
    BY <1>1, <1>4
  <1>6. MostFrames \in {Frames[v] : v \in Version} /\ \A v \in Version : Frames[v] <= MostFrames
    BY <1>5 DEF MostFrames
  <1> QED
    BY <1>2, <1>6

\* Nothing, and nobody cutting, are values like the others.
LEMMA EmptyTypes ==
    /\ NoFilm \in Films /\ NoScore \in Scores /\ NoCut \in Cutting
    /\ NoCut.step = "" /\ NoCut.kind = "" /\ NoCut.alone = FALSE /\ NoCut.drawn = 0
  <1>1. 0 \in Plans /\ 0 \in File /\ <<>> \in Seq(Version)
    BY FramesAre, MostFramesAre DEF Plans, File
  <1>2. NoFilm \in Films
    BY <1>1 DEF NoFilm, Films
  <1>3. NoScore \in Scores
    BY <1>1, <1>2 DEF NoScore, Scores
  <1>4. NoCut \in Cutting
    BY <1>1, <1>2, <1>3 DEF NoCut, Cutting, Steps
  <1>5. NoCut.step = "" /\ NoCut.kind = "" /\ NoCut.alone = FALSE /\ NoCut.drawn = 0
    BY DEF NoCut
  <1> QED
    BY <1>2, <1>3, <1>4, <1>5

\* A cut that has begun; the others only learn that they are not alone.
LEMMA BegunIs ==
    ASSUME CutType, NEW c \in Cutter, cut[c] = NoCut, NEW start \in Cutting, Begun(c, start)
    PROVE  /\ cut' \in [Cutter -> Cutting]
           /\ cut'[c].kind = start.kind /\ cut'[c].step = start.step
           /\ cut'[c].plan = start.plan /\ cut'[c].drawn = start.drawn
           /\ cut'[c].mix = start.mix
           /\ cut'[c].alone => \A o \in Cutter \ {c} : cut'[o] = NoCut
           /\ \A o \in Cutter \ {c} :
                /\ cut'[o] = cut[o] \/ cut'[o] = [cut[o] EXCEPT !.alone = FALSE]
                /\ ~cut'[o].alone
  <1> DEFINE others == {o \in Cutter \ {c} : cut[o] # NoCut}
             mine == [start EXCEPT !.alone = (others = {})]
             theirs(o) == IF o \in others THEN [cut[o] EXCEPT !.alone = FALSE] ELSE cut[o]
  <1>1. cut' = [o \in Cutter |-> IF o = c THEN mine ELSE theirs(o)]
    BY DEF Begun
  <1>2. cut'[c] = mine /\ \A o \in Cutter \ {c} : cut'[o] = theirs(o)
    BY <1>1
  <1>3. \A o \in Cutter : cut[o] \in Cutting
    BY DEF CutType, Types
  <1>4. ASSUME NEW r \in Cutting, NEW b \in BOOLEAN
        PROVE  LET s == [r EXCEPT !.alone = b]
               IN  /\ s \in Cutting /\ s.alone = b
                   /\ s.kind = r.kind /\ s.step = r.step /\ s.plan = r.plan
                   /\ s.drawn = r.drawn /\ s.mix = r.mix
    BY DEF Cutting
  <1>5. (others = {}) \in BOOLEAN
    OBVIOUS
  <1> HIDE DEF others
  <1>6. /\ mine \in Cutting /\ mine.alone = (others = {})
        /\ mine.kind = start.kind /\ mine.step = start.step /\ mine.plan = start.plan
        /\ mine.drawn = start.drawn /\ mine.mix = start.mix
    BY <1>4, <1>5
  <1>7. ASSUME NEW o \in Cutter \ {c}
        PROVE  /\ theirs(o) \in Cutting
               /\ theirs(o) = cut[o] \/ theirs(o) = [cut[o] EXCEPT !.alone = FALSE]
               /\ ~theirs(o).alone
    <2>1. CASE o \in others
      <3>1. [cut[o] EXCEPT !.alone = FALSE] \in Cutting /\ [cut[o] EXCEPT !.alone = FALSE].alone = FALSE
        BY <1>3, <1>4
      <3> QED
        BY <2>1, <3>1
    <2>2. CASE o \notin others
      <3>1. cut[o] = NoCut
        BY <2>2 DEF others
      <3> QED
        BY <1>3, <2>2, <3>1, EmptyTypes
    <2> QED
      BY <2>1, <2>2
  <1> HIDE DEF mine, theirs
  <1>8. cut' \in [Cutter -> Cutting]
    BY <1>1, <1>6, <1>7
  <1>9. ASSUME cut'[c].alone PROVE \A o \in Cutter \ {c} : cut'[o] = NoCut
    <2>1. others = {}
      BY <1>2, <1>6, <1>9
    <2>2. \A o \in Cutter \ {c} : cut[o] = NoCut
      BY <2>1 DEF others
    <2>3. \A o \in Cutter \ {c} : cut'[o] = cut[o]
      BY <1>2, <2>1 DEF theirs
    <2> QED
      BY <2>2, <2>3
  <1> QED
    BY <1>2, <1>6, <1>7, <1>8, <1>9

\* A cut that goes on keeps what a step does not name.
LEMMA GoesOn ==
    ASSUME CutType, NEW c \in Cutter, NEW next \in Cutting,
           cut' = [cut EXCEPT ![c] = next]
    PROVE  /\ cut' \in [Cutter -> Cutting] /\ cut'[c] = next
           /\ \A o \in Cutter \ {c} : cut'[o] = cut[o]
  BY DEF CutType, Types

\* The cut after each form of step: over, and at another step with one or two
\* more things known.
LEMMA CutForms ==
    ASSUME CutType, NEW c \in Cutter
    PROVE  /\ cut[c] \in Cutting
           /\ Over(c) <=> cut' = [cut EXCEPT ![c] = NoCut]
           /\ \A step \in Steps :
                /\ GoTo(c, step) => cut' = [cut EXCEPT ![c] = [cut[c] EXCEPT !.step = step]]
                /\ [cut[c] EXCEPT !.step = step] \in Cutting
  <1>1. cut \in [Cutter -> Cutting] /\ cut[c] \in Cutting
    BY DEF CutType, Types
  <1> QED
    BY <1>1 DEF Over, GoTo, Cutting

-----------------------------------------------------------------------------
(* Type correctness, and that what is going has what it goes by.           *)

\* What a cut that has not moved keeps, while there is no less of a film.
LEMMA StillGoing ==
    ASSUME NEW o \in Cutter, Going(o),
           cut'[o].step = cut[o].step, cut'[o].plan = cut[o].plan,
           cut'[o].drawn = cut[o].drawn, cut'[o].mix = cut[o].mix,
           film' = film \/ film'.whole
    PROVE  Going(o)'
  BY DEF Going

\* The film and the scored film only become whole ones, and every other cut is
\* where it was: what is left to see of a step is its own cut.
LEMMA CutTypeStep ==
    ASSUME CutType, NEW c \in Cutter, NEW next \in Cutting, cut' = [cut EXCEPT ![c] = next],
           evidence' \in Version, plan' \in Plans, cards' \in [File -> Plans],
           film' \in Films, scored' \in Scores,
           subtitles' \in [{"srt", "vtt"} -> Plans \cup {Torn}],
           cuts' \in Nat, edits' \in Nat, faults' \in Nat,
           film' = film \/ film'.whole,
           scored' = scored \/ scored'.film.whole,
           next.step \in AfterPlan => next.plan \in Version,
           next.step \in {"plan", "clear"} => next.drawn = 0,
           next.step = "draw" => next.drawn <= Frames[next.plan],
           next.step \in AfterFilm => film'.whole,
           next.step = "put" => next.mix.film.whole
    PROVE  CutType'
  <1>1. /\ cut' \in [Cutter -> Cutting] /\ cut'[c] = next
        /\ \A o \in Cutter \ {c} : cut'[o] = cut[o]
    BY GoesOn
  <1>2. Types'
    BY <1>1 DEF Types
  <1>3. WholeFilms'
    BY DEF CutType, WholeFilms
  <1>4. Going(c)'
    BY <1>1 DEF Going
  <1>5. ASSUME NEW o \in Cutter, o # c PROVE Going(o)'
    BY <1>1, <1>5, StillGoing DEF CutType
  <1> QED
    BY <1>2, <1>3, <1>4, <1>5 DEF CutType

\* A cut or a scoring that begins.
LEMMA BegunType ==
    ASSUME CutType, NEW c \in Cutter, cut[c] = NoCut, NEW start \in Cutting, Begun(c, start),
           start.step = "plan" \/ (start.step = "mix" /\ start.plan \in Version /\ film.whole),
           start.drawn = 0, cuts' = cuts + 1,
           UNCHANGED <<evidence, shelf, edits, faults>>
    PROVE  CutType'
  <1>1. /\ cut' \in [Cutter -> Cutting]
        /\ cut'[c].step = start.step
        /\ cut'[c].plan = start.plan /\ cut'[c].drawn = start.drawn
        /\ \A o \in Cutter \ {c} :
             cut'[o] = cut[o] \/ cut'[o] = [cut[o] EXCEPT !.alone = FALSE]
    BY BegunIs
  <1>2. Types'
    BY <1>1 DEF CutType, Types, shelf
  <1>3. WholeFilms'
    BY DEF CutType, WholeFilms, shelf
  <1>4. Going(c)'
    BY <1>1 DEF Going, AfterPlan, AfterFilm, shelf
  <1>5. ASSUME NEW o \in Cutter, o # c PROVE Going(o)'
    <2>1. cut[o] \in Cutting
      BY DEF CutType, Types
    <2>2. /\ cut'[o].step = cut[o].step /\ cut'[o].plan = cut[o].plan
          /\ cut'[o].drawn = cut[o].drawn /\ cut'[o].mix = cut[o].mix
      BY <1>1, <1>5, <2>1 DEF Cutting
    <2> QED
      BY <2>2, StillGoing DEF CutType, shelf
  <1> QED
    BY <1>2, <1>3, <1>4, <1>5 DEF CutType

\* A package begins with nothing cut and nobody cutting.
LEMMA TypeInit == CutInit => CutType
  <1> SUFFICES ASSUME CutInit PROVE CutType
    OBVIOUS
  <1>1. 0 \in Plans /\ 1 \in Version
    BY FramesAre DEF Plans
  <1>2. Types
    BY <1>1, EmptyTypes DEF CutInit, Types
  <1>3. WholeFilms
    BY DEF CutInit, WholeFilms
  <1>4. \A c \in Cutter : cut[c].step = ""
    BY EmptyTypes DEF CutInit
  <1>5. \A c \in Cutter : Going(c)
    BY <1>4 DEF Going, AfterPlan, AfterFilm
  <1> QED
    BY <1>2, <1>3, <1>5 DEF CutType

\* Every step keeps the types and what each cut goes by.
LEMMA TypeStep == CutType /\ [CutNext]_cutVars => CutType'
  <1> SUFFICES ASSUME CutType, [CutNext]_cutVars PROVE CutType'
    OBVIOUS
  <1>1. /\ evidence \in Version /\ plan \in Plans /\ cards \in [File -> Plans]
        /\ film \in Films /\ scored \in Scores
        /\ subtitles \in [{"srt", "vtt"} -> Plans \cup {Torn}]
        /\ cut \in [Cutter -> Cutting] /\ cuts \in Nat /\ edits \in Nat /\ faults \in Nat
    BY DEF CutType, Types
  <1>2. /\ Version \subseteq Plans /\ 0 \in Plans /\ 0 \in File
        /\ \A v \in Version : Frames[v] \in Nat \ {0} /\ Frames[v] <= MostFrames
        /\ MostFrames \in Nat
    BY FramesAre, MostFramesAre DEF Plans, File
  <1>3. \A c \in Cutter : Going(c) /\ cut[c] \in Cutting
    BY <1>1 DEF CutType
  <1>4. CASE UNCHANGED cutVars
    BY <1>4 DEF cutVars, shelf, counts, CutType, Types, WholeFilms, Going
  <1>5. CASE Reconsider
    BY <1>1, <1>5 DEF Reconsider, shelf, CutType, Types, WholeFilms, Going
  <1>6. ASSUME NEW c \in Cutter, StartCut(c) PROVE CutType'
    <2>1. PICK overwrite \in BOOLEAN, music \in BOOLEAN :
            Begun(c, [NoCut EXCEPT !.kind = "cut", !.step = "plan",
                                   !.overwrite = overwrite, !.music = music])
      BY <1>6 DEF StartCut
    <2> DEFINE start == [NoCut EXCEPT !.kind = "cut", !.step = "plan",
                                      !.overwrite = overwrite, !.music = music]
    <2>2. start \in Cutting /\ start.step = "plan" /\ start.drawn = 0
      BY EmptyTypes DEF NoCut, Cutting, Steps
    <2> HIDE DEF start
    <2>3. Begun(c, start)
      BY <2>1 DEF start
    <2> QED
      BY <1>6, <2>2, <2>3, BegunType DEF StartCut
  <1>7. ASSUME NEW c \in Cutter, StartScoring(c) PROVE CutType'
    <2>1. PICK overwrite \in BOOLEAN :
            Begun(c, [NoCut EXCEPT !.kind = "score", !.step = "mix",
                                   !.overwrite = overwrite, !.plan = plan])
      BY <1>7 DEF StartScoring
    <2> DEFINE start == [NoCut EXCEPT !.kind = "score", !.step = "mix",
                                      !.overwrite = overwrite, !.plan = plan]
    <2>2. start \in Cutting /\ start.step = "mix" /\ start.drawn = 0 /\ start.plan = plan
      BY <1>1, EmptyTypes DEF NoCut, Cutting, Steps
    <2> HIDE DEF start
    <2>3. Begun(c, start)
      BY <2>1 DEF start
    <2>4. plan \in Version
      BY <1>1, <1>7 DEF StartScoring, Plans, Version
    <2>5. film.whole
      BY <1>7 DEF StartScoring, CutType, WholeFilms
    <2> QED
      BY <1>7, <2>2, <2>3, <2>4, <2>5, BegunType DEF StartScoring
  <1>8. ASSUME NEW c \in Cutter, Over(c), UNCHANGED <<evidence, shelf, cuts, edits>>, faults' \in Nat
        PROVE  CutType'
    <2>1. cut' = [cut EXCEPT ![c] = NoCut]
      BY <1>8, CutForms
    <2>2. NoCut.step \notin AfterPlan \cup {"plan"}
      BY EmptyTypes DEF AfterPlan, AfterFilm
    <2> QED
      BY <1>1, <1>8, <2>1, <2>2, EmptyTypes, CutTypeStep DEF AfterPlan, shelf
  <1>9. ASSUME NEW c \in Cutter, NEW step \in Steps \ {"plan", "clear", "draw", "put"},
               GoTo(c, step), cut[c].step \in AfterPlan,
               evidence' = evidence, plan' = plan, cards' = cards, counts' = counts,
               film' \in Films, scored' \in Scores,
               subtitles' \in [{"srt", "vtt"} -> Plans \cup {Torn}],
               film' = film \/ film'.whole,
               scored' = scored \/ scored'.film.whole,
               step \in AfterFilm => film'.whole
        PROVE  CutType'
    <2> DEFINE next == [cut[c] EXCEPT !.step = step]
    <2>1. next \in Cutting /\ cut' = [cut EXCEPT ![c] = next]
      BY <1>9, CutForms
    <2>2. next.step = step /\ next.plan = cut[c].plan
      BY <1>3 DEF Cutting
    <2>3. next.plan \in Version
      BY <1>3, <1>9, <2>2 DEF Going
    <2> HIDE DEF next
    <2> QED
      BY <1>1, <1>9, <2>1, <2>2, <2>3, CutTypeStep DEF counts
  <1>10. ASSUME NEW c \in Cutter, PlanFilm(c) PROVE CutType'
    <2> DEFINE next == [cut[c] EXCEPT !.step = "clear", !.plan = evidence]
    <2>1. cut' = [cut EXCEPT ![c] = next]
      BY <1>1, <1>10 DEF PlanFilm
    <2>2. /\ next \in Cutting /\ next.step = "clear" /\ next.plan = evidence
          /\ next.drawn = cut[c].drawn
      BY <1>1, <1>2, <1>3 DEF Cutting, Steps
    <2>3. next.drawn = 0
      BY <1>3, <1>10, <2>2 DEF Going, PlanFilm, CutAt
    <2> HIDE DEF next
    <2>4. /\ plan' = evidence
          /\ UNCHANGED <<evidence, cards, film, scored, subtitles, cuts, edits, faults>>
      BY <1>10 DEF PlanFilm, counts
    <2>5. next.step \notin AfterFilm
      BY <2>2 DEF AfterFilm
    <2> QED
      BY <1>1, <1>2, <2>1, <2>2, <2>3, <2>4, <2>5, CutTypeStep
  <1>11. ASSUME NEW c \in Cutter, ClearCards(c) PROVE CutType'
    <2> DEFINE next == [cut[c] EXCEPT !.step = "draw"]
    <2>1. cut' = [cut EXCEPT ![c] = next] /\ next \in Cutting
      BY <1>11, CutForms DEF ClearCards, Steps
    <2>2. next.step = "draw" /\ next.plan = cut[c].plan /\ next.drawn = cut[c].drawn
      BY <1>3 DEF Cutting
    <2>3. cut[c].drawn = 0 /\ cut[c].plan \in Version
      BY <1>3, <1>11 DEF Going, ClearCards, CutAt, AfterPlan
    <2>4. cut[c].drawn <= Frames[cut[c].plan]
      BY <1>2, <2>3
    <2> HIDE DEF next
    <2>5. /\ cards' \in [File -> Plans]
          /\ UNCHANGED <<evidence, plan, film, scored, subtitles, cuts, edits, faults>>
      BY <1>2, <1>11 DEF ClearCards, Cleared, counts
    <2>6. next.step \notin AfterFilm
      BY <2>2 DEF AfterFilm
    <2> QED
      BY <1>1, <2>1, <2>2, <2>3, <2>4, <2>5, <2>6, CutTypeStep
  <1>12. ASSUME NEW c \in Cutter, DrawNext(c) PROVE CutType'
    <2> DEFINE last == Frames[cut[c].plan]
               page == IF cut[c].drawn = last THEN 0 ELSE cut[c].drawn + 1
               step == IF page = 0 THEN "check" ELSE "draw"
               next == [cut[c] EXCEPT !.drawn = page, !.step = step]
    <2>1. cut[c].plan \in Version /\ cut[c].drawn <= last /\ cut[c].drawn \in 0..MostFrames
      BY <1>3, <1>12 DEF Going, DrawNext, CutAt, AfterPlan, Cutting, File
    <2>2. last \in Nat /\ last <= MostFrames
      BY <1>2, <2>1
    <2>3. page \in File /\ page <= last
      BY <1>2, <2>1, <2>2 DEF File
    <2>4. step \in {"check", "draw"}
      OBVIOUS
    <2>5. cut' = [cut EXCEPT ![c] = next]
      BY <1>1, <1>12 DEF DrawNext
    <2>6. /\ cards' = [cards EXCEPT ![page] = cut[c].plan]
          /\ UNCHANGED <<evidence, plan, film, scored, subtitles, cuts, edits, faults>>
      BY <1>12 DEF DrawNext, counts
    <2> HIDE DEF last, page, step
    <2>7. /\ next \in Cutting /\ next.step = step /\ next.plan = cut[c].plan
          /\ next.drawn = page
      BY <1>3, <2>3, <2>4 DEF Cutting, Steps
    <2> HIDE DEF next
    <2>8. cards' \in [File -> Plans]
      BY <1>1, <1>2, <2>1, <2>6
    <2>9. next.step \notin AfterFilm /\ next.step \notin {"plan", "clear", "put"}
      BY <2>4, <2>7 DEF AfterFilm
    <2>10. next.drawn <= Frames[next.plan] /\ next.plan \in Version
      BY <2>1, <2>3, <2>7 DEF last
    <2> QED
      BY <1>1, <2>5, <2>6, <2>7, <2>8, <2>9, <2>10, CutTypeStep
  <1>13. ASSUME NEW c \in Cutter, CheckCards(c) PROVE CutType'
    <2>1. CASE Over(c)
      BY <1>1, <1>8, <1>13, <2>1 DEF CheckCards, counts
    <2>2. CASE GoTo(c, "open")
      BY <1>1, <1>9, <1>13, <2>2 DEF CheckCards, CutAt, AfterPlan, AfterFilm, Steps, shelf
    <2> QED
      BY <1>13, <2>1, <2>2 DEF CheckCards
  <1>14. ASSUME NEW c \in Cutter, OpenFilm(c) PROVE CutType'
    <2>1. CASE Over(c) /\ UNCHANGED film
      BY <1>1, <1>8, <1>14, <2>1 DEF OpenFilm, counts, shelf
    <2>2. CASE ~(film # NoFilm /\ ~cut[c].overwrite)
      <3> DEFINE partial == [NoFilm EXCEPT !.plan = cut[c].plan]
                 next == [cut[c] EXCEPT !.step = "encode", !.partial = partial]
      <3>1. cut' = [cut EXCEPT ![c] = next]
        BY <1>1, <1>14, <2>2 DEF OpenFilm
      <3>2. cut[c].plan \in Version
        BY <1>3, <1>14 DEF Going, OpenFilm, CutAt, AfterPlan
      <3>3. partial \in Films
        BY <1>2, <3>2, EmptyTypes DEF Films, NoFilm
      <3> HIDE DEF partial
      <3>4. next \in Cutting /\ next.step = "encode" /\ next.plan = cut[c].plan
        BY <1>3, <3>3 DEF Cutting, Steps
      <3> HIDE DEF next
      <3>5. UNCHANGED <<evidence, plan, cards, film, scored, subtitles, cuts, edits, faults>>
        BY <1>14, <2>2 DEF OpenFilm, Meanwhile, counts
      <3>6. next.step \notin AfterFilm
        BY <3>4 DEF AfterFilm
      <3> QED
        BY <1>1, <3>1, <3>2, <3>4, <3>5, <3>6, CutTypeStep
    <2> QED
      BY <1>14, <2>1, <2>2 DEF OpenFilm
  <1>15. ASSUME NEW c \in Cutter, EncodeNext(c) PROVE CutType'
    <2> DEFINE old == cut[c].partial
               read == Len(old.shows)
               frame == IF read < MostFrames THEN cards[read + 1] ELSE 0
    <2>1. cut[c].plan \in Version /\ old \in Films /\ cut[c].step = "encode"
      BY <1>3, <1>15 DEF Going, EncodeNext, CutAt, AfterPlan, Cutting
    <2>2. read \in Nat /\ old.shows \in Seq(Version)
      BY <2>1 DEF Films
    <2>3. frame \in Plans
      BY <1>1, <1>2, <2>2 DEF File
    <2>4. ASSUME NEW partial \in Films,
                 cut' = [cut EXCEPT ![c] = [cut[c] EXCEPT !.partial = partial]],
                 UNCHANGED <<evidence, shelf, counts>>
          PROVE  CutType'
      <3> DEFINE next == [cut[c] EXCEPT !.partial = partial]
      <3>1. next \in Cutting /\ next.step = "encode" /\ next.plan = cut[c].plan
        BY <1>3, <2>1 DEF Cutting
      <3>2. cut' = [cut EXCEPT ![c] = next]
        BY <2>4
      <3> HIDE DEF next
      <3>3. next.step \notin AfterFilm
        BY <3>1 DEF AfterFilm
      <3> QED
        BY <1>1, <2>1, <2>4, <3>1, <3>2, <3>3, CutTypeStep DEF shelf, counts
    <2>5. CASE frame # 0
      <3> DEFINE partial == [old EXCEPT !.shows = Append(old.shows, frame)]
      <3>1. frame \in Version
        BY <1>2, <2>3, <2>5, FramesAre DEF Plans, Version
      <3>2. partial \in Films
        <4>1. Append(old.shows, frame) \in Seq(Version)
          BY <2>2, <3>1
        <4> HIDE DEF frame
        <4> QED
          BY <2>1, <4>1 DEF Films
      <3>3. cut' = [cut EXCEPT ![c].partial.shows = Append(@, frame)]
        BY <1>15, <2>5 DEF EncodeNext
      <3>4. cut' = [cut EXCEPT ![c] = [cut[c] EXCEPT !.partial = partial]]
        BY <1>1, <1>3, <2>1, <3>3 DEF Cutting, Films
      <3> HIDE DEF partial
      <3> QED
        BY <1>15, <2>4, <3>2, <3>4 DEF EncodeNext
    <2>6. CASE frame = 0 /\ read = 0
      <3>1. Over(c) /\ UNCHANGED <<evidence, shelf, counts>>
        BY <1>15, <2>6 DEF EncodeNext
      <3> QED
        BY <1>1, <1>8, <3>1 DEF counts
    <2>7. CASE frame = 0 /\ read # 0
      <3> DEFINE partial == [old EXCEPT !.whole = TRUE]
      <3>1. partial \in Films
        BY <2>1 DEF Films
      <3>2. cut' = [cut EXCEPT ![c].partial.whole = TRUE]
        BY <1>15, <2>7 DEF EncodeNext
      <3>3. cut' = [cut EXCEPT ![c] = [cut[c] EXCEPT !.partial = partial]]
        BY <1>1, <1>3, <2>1, <3>2 DEF Cutting, Films
      <3> HIDE DEF partial
      <3> QED
        BY <1>15, <2>4, <3>1, <3>3 DEF EncodeNext
    <2> QED
      BY <2>5, <2>6, <2>7
  <1>16. ASSUME NEW c \in Cutter, ReplaceFilm(c) PROVE CutType'
    <2>1. film' = [cut[c].partial EXCEPT !.alone = cut[c].alone]
      BY <1>16 DEF ReplaceFilm
    <2>2. cut[c].partial \in Films /\ cut[c].alone \in BOOLEAN /\ cut[c].partial.whole
      BY <1>3, <1>16 DEF Cutting, ReplaceFilm, Encoded
    <2>3. film' \in Films /\ film'.whole
      BY <2>1, <2>2 DEF Films
    <2> QED
      BY <1>1, <1>9, <1>16, <2>3 DEF ReplaceFilm, CutAt, AfterPlan, AfterFilm, Steps
  <1>17. ASSUME NEW c \in Cutter, EmptySubtitles(c) PROVE CutType'
    <2>1. PICK suffix \in {"srt", "vtt"} :
            /\ cut[c].step = suffix
            /\ subtitles' = [subtitles EXCEPT ![suffix] = Torn]
            /\ GoTo(c, IF suffix = "srt" THEN "srt_write" ELSE "vtt_write")
            /\ UNCHANGED <<evidence, plan, cards, film, scored, counts>>
      BY <1>17 DEF EmptySubtitles, CutAt
    <2>2. subtitles' \in [{"srt", "vtt"} -> Plans \cup {Torn}]
      BY <1>1, <2>1
    <2>3. film.whole
      BY <1>3, <2>1 DEF Going, AfterFilm
    <2> DEFINE step == IF suffix = "srt" THEN "srt_write" ELSE "vtt_write"
    <2>4. step \in Steps \ {"plan", "clear", "draw", "put"} /\ cut[c].step \in AfterPlan
      BY <2>1 DEF Steps, AfterPlan, AfterFilm
    <2>5. GoTo(c, step)
      BY <2>1
    <2> HIDE DEF step
    <2> QED
      BY <1>1, <1>9, <2>1, <2>2, <2>3, <2>4, <2>5
  <1>18. ASSUME NEW c \in Cutter, WriteSubtitles(c) PROVE CutType'
    <2>1. PICK step \in {"vtt", "mix", "done"} :
            /\ GoTo(c, step) /\ cut[c].step \in {"srt_write", "vtt_write"}
            /\ UNCHANGED <<evidence, plan, cards, film, scored, counts>>
      BY <1>18 DEF WriteSubtitles, CutAt
    <2>2. \E suffix \in {"srt", "vtt"} : subtitles' = [subtitles EXCEPT ![suffix] = cut[c].plan]
      BY <1>18 DEF WriteSubtitles, Cues
    <2>3. cut[c].plan \in Plans
      BY <1>3 DEF Cutting
    <2>4. subtitles' \in [{"srt", "vtt"} -> Plans \cup {Torn}]
      BY <1>1, <2>2, <2>3
    <2>5. film.whole
      BY <1>3, <2>1 DEF Going, AfterFilm
    <2>6. step \in Steps \ {"plan", "clear", "draw", "put"} /\ cut[c].step \in AfterPlan
      BY <2>1 DEF Steps, AfterPlan, AfterFilm
    <2> QED
      BY <1>1, <1>9, <2>1, <2>4, <2>5, <2>6
  <1>19. ASSUME NEW c \in Cutter, MixMusic(c) PROVE CutType'
    <2>1. CASE Over(c)
      BY <1>1, <1>8, <1>19, <2>1 DEF MixMusic, counts
    <2>2. CASE ~(scored # NoScore /\ ~cut[c].overwrite)
      <3> DEFINE mix == [film |-> film, length |-> cut[c].plan]
                 next == [cut[c] EXCEPT !.step = "put", !.mix = mix]
      <3>1. cut' = [cut EXCEPT ![c] = next]
        BY <1>1, <1>19, <2>2 DEF MixMusic
      <3>2. cut[c].plan \in Version /\ cut[c].plan \in Plans /\ film.whole
        BY <1>2, <1>3, <1>19 DEF Going, MixMusic, CutAt, AfterPlan, AfterFilm
      <3>3. mix \in Scores /\ mix.film = film
        BY <1>1, <3>2 DEF Scores
      <3> HIDE DEF mix
      <3>4. next \in Cutting /\ next.step = "put" /\ next.plan = cut[c].plan /\ next.mix = mix
        BY <1>3, <3>3 DEF Cutting, Steps
      <3> HIDE DEF next
      <3>5. UNCHANGED <<evidence, plan, cards, film, scored, subtitles, cuts, edits, faults>>
        BY <1>19 DEF MixMusic, shelf, counts
      <3>6. next.mix.film.whole
        BY <3>2, <3>3, <3>4
      <3> QED
        BY <1>1, <3>1, <3>2, <3>4, <3>5, <3>6, CutTypeStep
    <2> QED
      BY <1>19, <2>1, <2>2 DEF MixMusic
  <1>20. ASSUME NEW c \in Cutter, ReplaceScored(c) PROVE CutType'
    <2>1. scored' = cut[c].mix /\ cut[c].step = "put"
      BY <1>20 DEF ReplaceScored, CutAt
    <2>2. scored' \in Scores /\ scored'.film.whole /\ film.whole
      BY <1>3, <2>1 DEF Cutting, Going, AfterFilm
    <2> QED
      BY <1>1, <1>9, <1>20, <2>1, <2>2 DEF ReplaceScored, AfterPlan, AfterFilm, Steps
  <1>21. ASSUME NEW c \in Cutter, Return(c) \/ Stop(c) PROVE CutType'
    <2>1. Over(c) /\ UNCHANGED <<evidence, shelf, cuts, edits>>
      BY <1>21 DEF Return, Stop, counts
    <2>2. faults' \in Nat
      <3>1. faults' = faults \/ faults' = faults + 1
        BY <1>21 DEF Return, Stop, counts
      <3> QED
        BY <1>1, <3>1
    <2> QED
      BY <1>8, <2>1, <2>2
  <1> QED
    BY <1>4, <1>5, <1>6, <1>7, <1>10, <1>11, <1>12, <1>13, <1>14, <1>15, <1>16, <1>17,
       <1>18, <1>19, <1>20, <1>21 DEF CutNext, Proceed

\* Type correctness, and that a cut under way has a plan, draws within its card
\* and mixes under a whole film.
THEOREM CutTypeCorrect == CutSpec => []CutType
  BY TypeInit, TypeStep, PTL DEF CutSpec

-----------------------------------------------------------------------------
(* The film that stands there stays until a whole one takes its place.     *)

\* Only the move across changes the film, and it moves a whole one.
LEMMA FilmStep ==
    ASSUME CutType, [CutNext]_cutVars
    PROVE  \/ film' = film
           \/ \E c \in Cutter : ReplaceFilm(c) /\ film'.whole
  <1>1. ASSUME NEW c \in Cutter, ReplaceFilm(c) PROVE film'.whole
    <2>1. cut[c].partial \in Films /\ cut[c].partial.whole
      BY <1>1 DEF CutType, Types, Cutting, ReplaceFilm, Encoded
    <2>2. film' = [cut[c].partial EXCEPT !.alone = cut[c].alone]
      BY <1>1 DEF ReplaceFilm
    <2> QED
      BY <2>1, <2>2 DEF Films
  <1>2. CASE UNCHANGED cutVars
    BY <1>2 DEF cutVars, shelf
  <1>3. CASE Reconsider
    BY <1>3 DEF Reconsider, shelf
  <1>4. ASSUME NEW c \in Cutter, StartCut(c) \/ StartScoring(c) \/ Stop(c) PROVE film' = film
    BY <1>4 DEF StartCut, StartScoring, Stop, shelf
  <1>5. ASSUME NEW c \in Cutter, PlanFilm(c) \/ ClearCards(c) \/ DrawNext(c) \/ CheckCards(c)
        PROVE  film' = film
    BY <1>5 DEF PlanFilm, ClearCards, DrawNext, CheckCards, shelf
  <1>6. ASSUME NEW c \in Cutter, OpenFilm(c) \/ EncodeNext(c) PROVE film' = film
    BY <1>6 DEF OpenFilm, Meanwhile, EncodeNext, shelf
  <1>7. ASSUME NEW c \in Cutter, EmptySubtitles(c) \/ WriteSubtitles(c) PROVE film' = film
    BY <1>7 DEF EmptySubtitles, WriteSubtitles
  <1>8. ASSUME NEW c \in Cutter, MixMusic(c) \/ ReplaceScored(c) \/ Return(c) PROVE film' = film
    BY <1>8 DEF MixMusic, ReplaceScored, Return, shelf
  <1> QED
    BY <1>1, <1>2, <1>3, <1>4, <1>5, <1>6, <1>7, <1>8 DEF CutNext, Proceed

\* Once there is a film there is a film: whichever cuts are refused, fail or are
\* killed wherever, what changes what stands there is a whole film put in its
\* place (render_story_film).
THEOREM OnlyAWholeFilmReplaces == CutSpec => FilmStays
  <1>1. CutType /\ [CutNext]_cutVars => [film # NoFilm /\ film' # film => film'.whole]_film
    BY FilmStep
  <1> QED
    BY <1>1, TypeInit, TypeStep, PTL DEF CutSpec, FilmStays

-----------------------------------------------------------------------------
(* The story of a cut that nobody is beside.                               *)

Alone(c) == cut[c].alone => \A o \in Cutter \ {c} : cut[o] = NoCut

\* The card directory when n frames of plan v are drawn, and when all and the
\* still are; and the frames a film read from it shows.
Sheet(v, n) == [f \in File |-> IF f \in 1..n THEN v ELSE 0]
FullSheet(v) == [f \in File |-> IF f <= Frames[v] THEN v ELSE 0]
Shown(v, n) == [f \in 1..n |-> v]

(***************************************************************************)
(* Of a cut that is alone: the plan on file is its own; the directory has  *)
(* its drawing so far and nothing else; what is encoded shows that; and    *)
(* from there on film, subtitles and music are of the one plan.            *)
(***************************************************************************)
Drawing(c) ==
  /\ cut[c].step \in AfterPlan => plan = cut[c].plan
  /\ cut[c].step = "draw" => cards = Sheet(cut[c].plan, cut[c].drawn)
  /\ cut[c].step \in {"check", "open", "encode"} => cards = FullSheet(cut[c].plan)
  /\ cut[c].step = "encode" =>
       /\ cut[c].partial.plan = cut[c].plan
       /\ cut[c].partial.shows = Shown(cut[c].plan, Len(cut[c].partial.shows))
       /\ Len(cut[c].partial.shows) <= Frames[cut[c].plan]
       /\ cut[c].partial.whole => Len(cut[c].partial.shows) = Frames[cut[c].plan]

Telling(c) ==
  /\ cut[c].step \in AfterFilm => film.plan = plan
  /\ cut[c].step \in {"vtt", "vtt_write", "mix", "put", "done"} => subtitles["srt"] = plan
  /\ cut[c].step \in {"mix", "put", "done"} => subtitles["vtt"] = plan
  /\ cut[c].step = "put" => cut[c].mix = [film |-> film, length |-> plan]
  /\ cut[c].step = "done" /\ cut[c].music => scored = [film |-> film, length |-> plan]

Story(c) == cut[c].alone => Drawing(c) /\ (cut[c].kind = "cut" => Telling(c))

CutInv == CutType /\ FilmIsItsPlan /\ \A c \in Cutter : Alone(c) /\ Story(c)

\* A step is nothing to any cut, the beginning of one, or a step of one that is
\* under way, by which the others are where they were.
LEMMA WhoMoves ==
    ASSUME CutType, [CutNext]_cutVars
    PROVE  \/ UNCHANGED <<shelf, cut>>
           \/ \E d \in Cutter : StartCut(d) \/ StartScoring(d)
           \/ \E d \in Cutter :
                /\ Proceed(d) \/ Stop(d)
                /\ cut[d].step # ""
                /\ \A o \in Cutter \ {d} : cut'[o] = cut[o]
                /\ cut'[d].alone => cut[d].alone
  <1>1. cut \in [Cutter -> Cutting] /\ \A c \in Cutter : cut[c] \in Cutting
    BY DEF CutType, Types
  <1>2. CASE UNCHANGED cutVars
    BY <1>2 DEF cutVars
  <1>3. CASE Reconsider
    BY <1>3 DEF Reconsider
  <1>4. ASSUME NEW d \in Cutter, Over(d) \/ \E step \in Steps : GoTo(d, step)
        PROVE  /\ \A o \in Cutter \ {d} : cut'[o] = cut[o]
               /\ cut'[d].alone => cut[d].alone
    <2>1. CASE Over(d)
      <3>1. cut'[d] = NoCut /\ \A o \in Cutter \ {d} : cut'[o] = cut[o]
        BY <1>1, <2>1 DEF Over
      <3>2. cut'[d].alone = FALSE
        BY <3>1, EmptyTypes
      <3> QED
        BY <3>1, <3>2
    <2>2. CASE \E step \in Steps : GoTo(d, step)
      BY <1>1, <2>2 DEF GoTo, Cutting
    <2> QED
      BY <1>4, <2>1, <2>2
  <1>5. ASSUME NEW d \in Cutter, Proceed(d) \/ Stop(d) PROVE cut[d].step # ""
    BY <1>5 DEF Proceed, Stop, PlanFilm, ClearCards, DrawNext, CheckCards, OpenFilm, EncodeNext,
                ReplaceFilm, EmptySubtitles, WriteSubtitles, MixMusic, ReplaceScored, Return, CutAt
  <1>6. ASSUME NEW d \in Cutter, Proceed(d) \/ Stop(d)
        PROVE  /\ \A o \in Cutter \ {d} : cut'[o] = cut[o]
               /\ cut'[d].alone => cut[d].alone
    <2>1. CASE PlanFilm(d)
      BY <1>1, <2>1 DEF PlanFilm, Cutting
    <2>2. CASE DrawNext(d)
      BY <1>1, <2>2 DEF DrawNext, Cutting
    <2>3. CASE OpenFilm(d)
      <3>1. CASE Over(d)
        BY <1>4, <3>1
      <3>2. CASE cut' = [cut EXCEPT ![d].step = "encode",
                                    ![d].partial = [NoFilm EXCEPT !.plan = cut[d].plan]]
        BY <1>1, <3>2 DEF Cutting
      <3> QED
        BY <2>3, <3>1, <3>2 DEF OpenFilm
    <2>4. CASE EncodeNext(d)
      <3>1. CASE Over(d)
        BY <1>4, <3>1
      <3>2. CASE \E shows : cut' = [cut EXCEPT ![d].partial.shows = shows]
        BY <1>1, <3>2 DEF Cutting
      <3>3. CASE cut' = [cut EXCEPT ![d].partial.whole = TRUE]
        BY <1>1, <3>3 DEF Cutting
      <3> QED
        BY <2>4, <3>1, <3>2, <3>3 DEF EncodeNext
    <2>5. CASE MixMusic(d)
      <3>1. CASE Over(d)
        BY <1>4, <3>1
      <3>2. CASE cut' = [cut EXCEPT ![d].step = "put",
                                    ![d].mix = [film |-> film, length |-> cut[d].plan]]
        BY <1>1, <3>2 DEF Cutting
      <3> QED
        BY <2>5, <3>1, <3>2 DEF MixMusic
    <2>6. CASE EmptySubtitles(d) \/ WriteSubtitles(d)
      <3>1. \E step \in Steps : GoTo(d, step)
        BY <2>6 DEF EmptySubtitles, WriteSubtitles, Steps
      <3> QED
        BY <1>4, <3>1
    <2>7. CASE ClearCards(d) \/ ReplaceFilm(d) \/ ReplaceScored(d)
      <3>1. \E step \in Steps : GoTo(d, step)
        BY <2>7 DEF ClearCards, ReplaceFilm, ReplaceScored, Steps
      <3> QED
        BY <1>4, <3>1
    <2>8. CASE CheckCards(d) \/ Return(d) \/ Stop(d)
      <3>1. Over(d) \/ GoTo(d, "open")
        BY <2>8 DEF CheckCards, Return, Stop
      <3> QED
        BY <1>4, <3>1 DEF Steps
    <2> QED
      BY <1>6, <2>1, <2>2, <2>3, <2>4, <2>5, <2>6, <2>7, <2>8 DEF Proceed
  <1> QED
    BY <1>2, <1>3, <1>5, <1>6 DEF CutNext

\* Who is alone stays alone until another begins.
LEMMA AloneStep ==
    ASSUME CutType, \A c \in Cutter : Alone(c), [CutNext]_cutVars
    PROVE  \A c \in Cutter : Alone(c)'
  <1> SUFFICES ASSUME NEW c \in Cutter, cut'[c].alone, NEW o \in Cutter \ {c}
               PROVE  cut'[o] = NoCut
    BY DEF Alone
  <1>1. NoCut.step = ""
    BY EmptyTypes
  <1>2. CASE UNCHANGED <<shelf, cut>>
    BY <1>2 DEF Alone
  <1>3. ASSUME NEW d \in Cutter, NEW start \in Cutting, cut[d] = NoCut, Begun(d, start)
        PROVE  cut'[o] = NoCut
    BY <1>3, BegunIs
  <1>4. ASSUME NEW d \in Cutter, StartCut(d) PROVE cut'[o] = NoCut
    <2>1. PICK overwrite \in BOOLEAN, music \in BOOLEAN :
            Begun(d, [NoCut EXCEPT !.kind = "cut", !.step = "plan",
                                   !.overwrite = overwrite, !.music = music])
      BY <1>4 DEF StartCut
    <2> DEFINE start == [NoCut EXCEPT !.kind = "cut", !.step = "plan",
                                      !.overwrite = overwrite, !.music = music]
    <2>2. start \in Cutting
      BY EmptyTypes DEF NoCut, Cutting, Steps
    <2> QED
      BY <1>3, <1>4, <2>1, <2>2 DEF StartCut
  <1>5. ASSUME NEW d \in Cutter, StartScoring(d) PROVE cut'[o] = NoCut
    <2>1. PICK overwrite \in BOOLEAN :
            Begun(d, [NoCut EXCEPT !.kind = "score", !.step = "mix",
                                   !.overwrite = overwrite, !.plan = plan])
      BY <1>5 DEF StartScoring
    <2> DEFINE start == [NoCut EXCEPT !.kind = "score", !.step = "mix",
                                      !.overwrite = overwrite, !.plan = plan]
    <2>2. start \in Cutting
      BY EmptyTypes DEF NoCut, Cutting, Steps, CutType, Types
    <2> QED
      BY <1>3, <1>5, <2>1, <2>2 DEF StartScoring
  <1>6. ASSUME NEW d \in Cutter, cut[d].step # "",
               \A e \in Cutter \ {d} : cut'[e] = cut[e], cut'[d].alone => cut[d].alone
        PROVE  cut'[o] = NoCut
    <2>1. cut[c].alone
      BY <1>6
    <2>2. cut[o] = NoCut
      BY <2>1 DEF Alone
    <2>3. d # o
      BY <1>1, <1>6, <2>2
    <2> QED
      BY <1>6, <2>2, <2>3
  <1> QED
    BY <1>2, <1>4, <1>5, <1>6, WhoMoves

\* A film put in place by a cut that is alone is its plan's.
LEMMA FilmIsItsPlanStep ==
    ASSUME CutInv, [CutNext]_cutVars
    PROVE  FilmIsItsPlan'
  <1>1. CASE film' = film
    BY <1>1 DEF CutInv, FilmIsItsPlan
  <1>2. ASSUME NEW c \in Cutter, ReplaceFilm(c) PROVE FilmIsItsPlan'
    <2>1. /\ film' = [cut[c].partial EXCEPT !.alone = cut[c].alone]
          /\ cut[c].step = "encode" /\ cut[c].partial.whole
      BY <1>2 DEF ReplaceFilm, CutAt, Encoded
    <2>2. cut[c].partial \in Films
      BY DEF CutInv, CutType, Types, Cutting
    <2>3. /\ film'.alone = cut[c].alone /\ film'.plan = cut[c].partial.plan
          /\ film'.shows = cut[c].partial.shows
      BY <2>1, <2>2 DEF Films
    <2> SUFFICES ASSUME cut[c].alone
                 PROVE  film'.shows = [f \in 1..Frames[film'.plan] |-> film'.plan]
      BY <2>3 DEF FilmIsItsPlan
    <2>4. Drawing(c)
      BY DEF CutInv, Story
    <2>5. /\ cut[c].partial.plan = cut[c].plan
          /\ cut[c].partial.shows = Shown(cut[c].plan, Frames[cut[c].plan])
      BY <2>1, <2>4 DEF Drawing
    <2> QED
      BY <2>3, <2>5 DEF Shown
  <1> QED
    BY <1>1, <1>2, FilmStep DEF CutInv

\* A cut that only goes to another step, having written what it wrote.
LEMMA GoToStory ==
    ASSUME CutInv, NEW c \in Cutter, NEW step \in Steps, GoTo(c, step)
    PROVE  /\ cut'[c].step = step
           /\ cut'[c].kind = cut[c].kind /\ cut'[c].plan = cut[c].plan
           /\ cut'[c].drawn = cut[c].drawn /\ cut'[c].partial = cut[c].partial
           /\ cut'[c].mix = cut[c].mix /\ cut'[c].music = cut[c].music
           /\ cut'[c].alone = cut[c].alone
  BY DEF CutInv, CutType, Types, GoTo, Cutting

\* The drawing: planning, clearing, the pages one by one, and the check.
LEMMA DrawingStep ==
    ASSUME CutInv, NEW c \in Cutter, cut[c].alone,
           PlanFilm(c) \/ ClearCards(c) \/ DrawNext(c) \/ CheckCards(c)
    PROVE  cut'[c] = NoCut \/ (Drawing(c)' /\ Telling(c)')
  <1>1. cut \in [Cutter -> Cutting] /\ cut[c] \in Cutting /\ cards \in [File -> Plans]
    BY DEF CutInv, CutType, Types
  <1>2. Drawing(c) /\ Going(c)
    BY DEF CutInv, CutType, Story
  <1>3. CASE PlanFilm(c)
    <2>1. cut'[c] = [cut[c] EXCEPT !.step = "clear", !.plan = evidence] /\ plan' = evidence
      BY <1>1, <1>3 DEF PlanFilm
    <2>2. cut'[c].step = "clear" /\ cut'[c].plan = evidence
      BY <1>1, <2>1 DEF Cutting
    <2> QED
      BY <2>1, <2>2 DEF Drawing, Telling, AfterFilm
  <1>4. CASE ClearCards(c)
    <2>1. /\ cut[c].step = "clear" /\ GoTo(c, "draw")
          /\ cards' = [f \in File |-> 0] /\ plan' = plan
      BY <1>4 DEF ClearCards, CutAt, Cleared
    <2>2. cut'[c].step = "draw" /\ cut'[c].plan = cut[c].plan /\ cut'[c].drawn = cut[c].drawn
      BY <2>1, GoToStory DEF Steps
    <2>3. cut[c].drawn = 0 /\ plan = cut[c].plan
      BY <1>2, <2>1 DEF Going, Drawing, AfterPlan
    <2>4. Sheet(cut[c].plan, 0) = [f \in File |-> 0]
      BY DEF Sheet
    <2> QED
      BY <2>1, <2>2, <2>3, <2>4 DEF Drawing, Telling, AfterFilm
  <1>5. CASE DrawNext(c)
    <2> DEFINE v == cut[c].plan
               n == cut[c].drawn
               page == IF n = Frames[v] THEN 0 ELSE n + 1
    <2>1. cut[c].step = "draw"
      BY <1>5 DEF DrawNext, CutAt
    <2>2. cards = Sheet(v, n) /\ plan = v /\ v \in Version /\ n <= Frames[v] /\ n \in 0..MostFrames
      BY <1>1, <1>2, <2>1 DEF Drawing, Going, AfterPlan, Cutting, File
    <2>3. Frames[v] \in Nat /\ Frames[v] <= MostFrames /\ MostFrames \in Nat
      BY <2>2, FramesAre, MostFramesAre
    <2>4. /\ cards' = [cards EXCEPT ![page] = v] /\ plan' = plan
          /\ cut' = [cut EXCEPT ![c].drawn = page,
                                ![c].step = IF page = 0 THEN "check" ELSE "draw"]
      BY <1>5 DEF DrawNext
    <2>5. /\ cut'[c].drawn = page /\ cut'[c].plan = v
          /\ cut'[c].step = IF page = 0 THEN "check" ELSE "draw"
      BY <1>1, <2>4 DEF Cutting
    <2>6. CASE n = Frames[v]
      <3>1. page = 0
        BY <2>6
      <3>2. [Sheet(v, n) EXCEPT ![0] = v] = FullSheet(v)
        BY <2>2, <2>3, <2>6 DEF Sheet, FullSheet, File
      <3>3. cards' = FullSheet(v) /\ cut'[c].step = "check"
        BY <2>2, <2>4, <2>5, <3>1, <3>2
      <3> QED
        BY <2>2, <2>4, <2>5, <3>3 DEF Drawing, Telling, AfterFilm
    <2>7. CASE n # Frames[v]
      <3>1. page = n + 1 /\ page # 0
        BY <2>2, <2>7
      <3>2. [Sheet(v, n) EXCEPT ![n + 1] = v] = Sheet(v, n + 1)
        BY <2>2, <2>3, <2>7 DEF Sheet, File
      <3>3. cards' = Sheet(v, n + 1) /\ cut'[c].step = "draw" /\ cut'[c].drawn = n + 1
        BY <2>2, <2>4, <2>5, <3>1, <3>2
      <3> QED
        BY <2>2, <2>4, <2>5, <3>3 DEF Drawing, Telling, AfterFilm
    <2> QED
      BY <2>6, <2>7
  <1>6. CASE CheckCards(c)
    <2>1. cut[c].step = "check" /\ cards' = cards /\ plan' = plan
      BY <1>6 DEF CheckCards, CutAt, shelf
    <2>2. CASE Over(c)
      BY <1>1, <2>2 DEF Over
    <2>3. CASE GoTo(c, "open")
      <3>1. cut'[c].step = "open" /\ cut'[c].plan = cut[c].plan
        BY <2>3, GoToStory DEF Steps
      <3>2. cards = FullSheet(cut[c].plan) /\ plan = cut[c].plan
        BY <1>2, <2>1 DEF Drawing, AfterPlan
      <3> QED
        BY <2>1, <3>1, <3>2 DEF Drawing, Telling, AfterFilm
    <2> QED
      BY <1>6, <2>2, <2>3 DEF CheckCards
  <1> QED
    BY <1>3, <1>4, <1>5, <1>6

\* The encoding: what FFmpeg reads of a full directory is the card and no more.
LEMMA EncodingStep ==
    ASSUME CutInv, NEW c \in Cutter, cut[c].alone,
           OpenFilm(c) \/ EncodeNext(c) \/ ReplaceFilm(c)
    PROVE  cut'[c] = NoCut \/ (Drawing(c)' /\ Telling(c)')
  <1>1. cut \in [Cutter -> Cutting] /\ cut[c] \in Cutting /\ cards \in [File -> Plans]
    BY DEF CutInv, CutType, Types
  <1>2. Drawing(c) /\ Going(c)
    BY DEF CutInv, CutType, Story
  <1> DEFINE v == cut[c].plan
             old == cut[c].partial
             read == Len(old.shows)
  <1>3. /\ v \in Version /\ plan = v
        /\ cards = FullSheet(v)
    BY <1>2 DEF OpenFilm, EncodeNext, ReplaceFilm, CutAt, Going, Drawing, AfterPlan
  <1>4. /\ Frames[v] \in Nat \ {0} /\ Frames[v] <= MostFrames /\ MostFrames \in Nat
        /\ v \in Nat \ {0} /\ old \in Films /\ old.shows \in Seq(Version)
    <2>1. v \in Nat \ {0}
      BY <1>3, FramesAre DEF Version
    <2>2. old \in Films /\ old.shows \in Seq(Version)
      BY <1>1 DEF Cutting, Films
    <2> QED
      BY <1>3, <2>1, <2>2, FramesAre, MostFramesAre
  <1>5. CASE OpenFilm(c)
    <2>1. CASE Over(c)
      BY <1>1, <2>1 DEF Over
    <2>2. CASE cut' = [cut EXCEPT ![c].step = "encode",
                                  ![c].partial = [NoFilm EXCEPT !.plan = cut[c].plan]]
      <3>1. /\ cut'[c].step = "encode" /\ cut'[c].plan = v
            /\ cut'[c].partial = [NoFilm EXCEPT !.plan = v]
        BY <1>1, <2>2 DEF Cutting
      <3>2. /\ cut'[c].partial.plan = v /\ cut'[c].partial.shows = <<>>
            /\ cut'[c].partial.whole = FALSE
        BY <3>1 DEF NoFilm
      <3>3. Len(<<>>) = 0 /\ <<>> = Shown(v, 0)
        BY DEF Shown
      <3>4. plan' = plan /\ cards' = cards
        BY <1>5 DEF OpenFilm
      <3> QED
        BY <1>3, <1>4, <3>1, <3>2, <3>3, <3>4 DEF Drawing, Telling, AfterFilm
    <2> QED
      BY <1>5, <2>1, <2>2 DEF OpenFilm
  <1>6. CASE EncodeNext(c)
    <2>1. /\ cut[c].step = "encode" /\ ~old.whole /\ plan' = plan /\ cards' = cards
      BY <1>6 DEF EncodeNext, CutAt, shelf
    <2>2. old.plan = v /\ old.shows = Shown(v, read) /\ read <= Frames[v] /\ read \in Nat
      BY <1>2, <1>4, <2>1 DEF Drawing
    <2> DEFINE frame == IF read < MostFrames THEN cards[read + 1] ELSE 0
    <2>3. frame = IF read < Frames[v] THEN v ELSE 0
      <3>1. CASE read < Frames[v]
        <4>1. read + 1 \in File /\ read + 1 <= Frames[v] /\ read < MostFrames
          BY <1>4, <2>2, <3>1 DEF File
        <4>2. cards[read + 1] = v
          BY <1>3, <4>1 DEF FullSheet
        <4> QED
          BY <3>1, <4>1, <4>2
      <3>2. CASE ~(read < Frames[v]) /\ read < MostFrames
        <4>1. read + 1 \in File /\ ~(read + 1 <= Frames[v])
          BY <1>4, <2>2, <3>2 DEF File
        <4>2. cards[read + 1] = 0
          BY <1>3, <4>1 DEF FullSheet
        <4> QED
          BY <3>2, <4>2
      <3>3. CASE ~(read < Frames[v]) /\ ~(read < MostFrames)
        BY <3>3
      <3> QED
        BY <3>1, <3>2, <3>3
    <2>4. /\ frame # 0 => cut' = [cut EXCEPT ![c].partial.shows = Append(@, frame)]
          /\ frame = 0 /\ read = 0 => Over(c)
          /\ frame = 0 /\ read # 0 => cut' = [cut EXCEPT ![c].partial.whole = TRUE]
      BY <1>6 DEF EncodeNext
    <2> HIDE DEF frame
    <2>5. CASE read < Frames[v]
      <3>1. frame = v /\ frame # 0
        BY <1>4, <2>3, <2>5
      <3>2. cut' = [cut EXCEPT ![c].partial.shows = Append(@, v)]
        BY <2>4, <3>1
      <3>3. /\ cut'[c].step = "encode" /\ cut'[c].plan = v
            /\ cut'[c].partial = [old EXCEPT !.shows = Append(old.shows, v)]
        BY <1>1, <2>1, <3>2 DEF Cutting
      <3>4. /\ cut'[c].partial.plan = v /\ cut'[c].partial.whole = old.whole
            /\ cut'[c].partial.shows = Append(old.shows, v)
        BY <1>4, <2>2, <3>3 DEF Films
      <3>5. /\ Append(old.shows, v) = Shown(v, read + 1)
            /\ Len(Append(old.shows, v)) = read + 1 /\ read + 1 <= Frames[v]
        <4>1. Append(Shown(v, read), v) = Shown(v, read + 1)
          BY <2>2 DEF Shown
        <4>2. Len(Append(old.shows, v)) = read + 1
          BY <1>3, <1>4
        <4> QED
          BY <1>4, <2>2, <2>5, <4>1, <4>2
      <3> QED
        BY <1>3, <2>1, <3>3, <3>4, <3>5 DEF Drawing, Telling, AfterFilm
    <2>6. CASE ~(read < Frames[v])
      <3>1. frame = 0 /\ read = Frames[v] /\ read # 0
        BY <1>4, <2>2, <2>3, <2>6
      <3>2. cut' = [cut EXCEPT ![c].partial.whole = TRUE]
        BY <2>4, <3>1
      <3>3. /\ cut'[c].step = "encode" /\ cut'[c].plan = v
            /\ cut'[c].partial = [old EXCEPT !.whole = TRUE]
        BY <1>1, <2>1, <3>2 DEF Cutting
      <3>4. cut'[c].partial.plan = v /\ cut'[c].partial.shows = old.shows
        BY <1>4, <2>2, <3>3 DEF Films
      <3> QED
        BY <1>3, <2>1, <2>2, <3>1, <3>3, <3>4 DEF Drawing, Telling, AfterFilm
    <2> QED
      BY <2>5, <2>6
  <1>7. CASE ReplaceFilm(c)
    <2>1. /\ cut[c].step = "encode" /\ GoTo(c, "srt") /\ plan' = plan
          /\ film' = [old EXCEPT !.alone = cut[c].alone]
      BY <1>7 DEF ReplaceFilm, CutAt
    <2>2. cut'[c].step = "srt" /\ cut'[c].plan = v
      BY <2>1, GoToStory DEF Steps
    <2>3. film'.plan = v
      BY <1>2, <1>4, <2>1 DEF Films, Drawing
    <2> QED
      BY <1>3, <2>1, <2>2, <2>3 DEF Drawing, Telling, AfterFilm
  <1> QED
    BY <1>5, <1>6, <1>7

\* The subtitles and the music, of a cut: all of the plan the film is of.
LEMMA TellingStep ==
    ASSUME CutInv, NEW c \in Cutter, cut[c].alone,
           EmptySubtitles(c) \/ WriteSubtitles(c) \/ MixMusic(c) \/ ReplaceScored(c)
    PROVE  \/ cut'[c] = NoCut
           \/ /\ Drawing(c)' /\ cut'[c].kind = cut[c].kind
              /\ cut[c].kind = "cut" => Telling(c)'
  <1>1. /\ cut \in [Cutter -> Cutting] /\ cut[c] \in Cutting
        /\ subtitles \in [{"srt", "vtt"} -> Plans \cup {Torn}]
    BY DEF CutInv, CutType, Types
  <1>2. Drawing(c) /\ (cut[c].kind = "cut" => Telling(c))
    BY DEF CutInv, Story
  <1>3. CASE EmptySubtitles(c)
    <2>1. PICK suffix \in {"srt", "vtt"} :
            /\ cut[c].step = suffix
            /\ subtitles' = [subtitles EXCEPT ![suffix] = Torn]
            /\ GoTo(c, IF suffix = "srt" THEN "srt_write" ELSE "vtt_write")
            /\ UNCHANGED <<plan, film, scored>>
      BY <1>3 DEF EmptySubtitles, CutAt
    <2> DEFINE step == IF suffix = "srt" THEN "srt_write" ELSE "vtt_write"
    <2>2. step \in Steps /\ GoTo(c, step)
      BY <2>1 DEF Steps
    <2>3. /\ cut'[c].step = step /\ cut'[c].plan = cut[c].plan /\ cut'[c].kind = cut[c].kind
      BY <2>2, GoToStory
    <2>4. plan = cut[c].plan
      BY <1>2, <2>1 DEF Drawing, AfterPlan, AfterFilm
    <2>5. Drawing(c)'
      BY <2>1, <2>3, <2>4 DEF Drawing
    <2>6. ASSUME Telling(c) PROVE Telling(c)'
      BY <1>1, <2>1, <2>3, <2>6 DEF Telling, AfterFilm
    <2> QED
      BY <1>2, <2>3, <2>5, <2>6
  <1>4. CASE WriteSubtitles(c) /\ cut[c].step = "srt_write"
    <2>1. /\ subtitles' = [subtitles EXCEPT !["srt"] = cut[c].plan]
          /\ GoTo(c, "vtt")
          /\ UNCHANGED <<plan, film, scored>>
      BY <1>4 DEF WriteSubtitles, CutAt, Cues
    <2>2. cut'[c].step = "vtt" /\ cut'[c].plan = cut[c].plan /\ cut'[c].kind = cut[c].kind
      BY <2>1, GoToStory DEF Steps
    <2>3. plan = cut[c].plan
      BY <1>2, <1>4 DEF Drawing, AfterPlan, AfterFilm
    <2>4. Drawing(c)'
      BY <2>1, <2>2, <2>3 DEF Drawing
    <2>5. ASSUME Telling(c) PROVE Telling(c)'
      BY <1>1, <1>4, <2>1, <2>2, <2>3, <2>5 DEF Telling, AfterFilm
    <2> QED
      BY <1>2, <2>2, <2>4, <2>5
  <1>5. CASE WriteSubtitles(c) /\ cut[c].step # "srt_write"
    <2>1. /\ cut[c].step = "vtt_write"
          /\ subtitles' = [subtitles EXCEPT !["vtt"] = cut[c].plan]
          /\ GoTo(c, IF cut[c].music THEN "mix" ELSE "done")
          /\ UNCHANGED <<plan, film, scored>>
      BY <1>5 DEF WriteSubtitles, CutAt, Cues
    <2> DEFINE step == IF cut[c].music THEN "mix" ELSE "done"
    <2>2. step \in Steps /\ GoTo(c, step)
      BY <2>1 DEF Steps
    <2>3. /\ cut'[c].step = step /\ cut'[c].plan = cut[c].plan
          /\ cut'[c].kind = cut[c].kind /\ cut'[c].music = cut[c].music
      BY <2>2, GoToStory
    <2>4. plan = cut[c].plan
      BY <1>2, <2>1 DEF Drawing, AfterPlan, AfterFilm
    <2>5. Drawing(c)'
      BY <2>1, <2>3, <2>4 DEF Drawing
    <2>6. ASSUME Telling(c) PROVE Telling(c)'
      <3>1. film'.plan = plan' /\ subtitles'["srt"] = plan'
        BY <1>1, <2>1, <2>6 DEF Telling, AfterFilm
      <3>2. subtitles'["vtt"] = plan'
        BY <1>1, <2>1, <2>4
      <3>3. step # "put" /\ (step = "done" => ~cut'[c].music)
        BY <2>3
      <3> HIDE DEF step
      <3> QED
        BY <2>3, <3>1, <3>2, <3>3 DEF Telling
    <2> QED
      BY <1>2, <2>3, <2>5, <2>6
  <1>6. CASE MixMusic(c)
    <2>1. CASE Over(c)
      BY <1>1, <2>1 DEF Over
    <2>2. CASE cut' = [cut EXCEPT ![c].step = "put",
                                  ![c].mix = [film |-> film, length |-> cut[c].plan]]
      <3>1. /\ cut'[c].step = "put" /\ cut'[c].plan = cut[c].plan /\ cut'[c].kind = cut[c].kind
            /\ cut'[c].mix = [film |-> film, length |-> cut[c].plan]
        BY <1>1, <2>2 DEF Cutting
      <3>2. cut[c].step = "mix" /\ UNCHANGED <<plan, film, subtitles>>
        BY <1>6 DEF MixMusic, CutAt, shelf
      <3>3. plan = cut[c].plan
        BY <1>2, <3>2 DEF Drawing, AfterPlan, AfterFilm
      <3>4. Drawing(c)'
        BY <3>1, <3>2, <3>3 DEF Drawing
      <3>5. ASSUME Telling(c) PROVE Telling(c)'
        BY <3>1, <3>2, <3>3, <3>5 DEF Telling, AfterFilm
      <3> QED
        BY <1>2, <3>1, <3>4, <3>5
    <2> QED
      BY <1>6, <2>1, <2>2 DEF MixMusic
  <1>7. CASE ReplaceScored(c)
    <2>1. /\ cut[c].step = "put" /\ GoTo(c, "done") /\ scored' = cut[c].mix
          /\ UNCHANGED <<plan, film, subtitles>>
      BY <1>7 DEF ReplaceScored, CutAt
    <2>2. cut'[c].step = "done" /\ cut'[c].plan = cut[c].plan /\ cut'[c].kind = cut[c].kind
      BY <2>1, GoToStory DEF Steps
    <2>3. plan = cut[c].plan
      BY <1>2, <2>1 DEF Drawing, AfterPlan, AfterFilm
    <2>4. Drawing(c)'
      BY <2>1, <2>2, <2>3 DEF Drawing
    <2>5. ASSUME Telling(c) PROVE Telling(c)'
      BY <2>1, <2>2, <2>5 DEF Telling, AfterFilm
    <2> QED
      BY <1>2, <2>2, <2>4, <2>5
  <1> QED
    BY <1>3, <1>4, <1>5, <1>6, <1>7

\* The story of a cut that is alone is one, step by step.
LEMMA StoryStep ==
    ASSUME CutInv, [CutNext]_cutVars, NEW c \in Cutter
    PROVE  Story(c)'
  <1>1. CutType /\ \A d \in Cutter : cut[d] \in Cutting
    BY DEF CutInv, CutType, Types
  <1>2. CASE UNCHANGED <<shelf, cut>>
    BY <1>2 DEF shelf, CutInv, Story, Drawing, Telling
  <1>3. ASSUME cut'[c] = NoCut PROVE Story(c)'
    BY <1>3, EmptyTypes DEF Story
  <1>4. ASSUME NEW d \in Cutter, NEW start \in Cutting, cut[d] = NoCut, Begun(d, start),
               \/ start.step = "plan"
               \/ start.step = "mix" /\ start.kind = "score" /\ start.plan = plan /\ plan' = plan
        PROVE  Story(c)'
    <2>1. CASE d = c
      <3>1. cut'[c].step = start.step /\ cut'[c].kind = start.kind /\ cut'[c].plan = start.plan
        BY <1>1, <1>4, <2>1, BegunIs
      <3> QED
        BY <1>4, <3>1 DEF Story, Drawing, Telling, AfterPlan, AfterFilm
    <2>2. CASE d # c
      <3>1. ~cut'[c].alone
        BY <1>1, <1>4, <2>2, BegunIs
      <3> QED
        BY <3>1 DEF Story
    <2> QED
      BY <2>1, <2>2
  <1>5. ASSUME NEW d \in Cutter, StartCut(d) PROVE Story(c)'
    <2>1. PICK overwrite \in BOOLEAN, music \in BOOLEAN :
            Begun(d, [NoCut EXCEPT !.kind = "cut", !.step = "plan",
                                   !.overwrite = overwrite, !.music = music])
      BY <1>5 DEF StartCut
    <2> DEFINE start == [NoCut EXCEPT !.kind = "cut", !.step = "plan",
                                      !.overwrite = overwrite, !.music = music]
    <2>2. start \in Cutting /\ start.step = "plan"
      BY EmptyTypes DEF NoCut, Cutting, Steps
    <2> HIDE DEF start
    <2>3. Begun(d, start)
      BY <2>1 DEF start
    <2> QED
      BY <1>4, <1>5, <2>2, <2>3 DEF StartCut
  <1>6. ASSUME NEW d \in Cutter, StartScoring(d) PROVE Story(c)'
    <2>1. PICK overwrite \in BOOLEAN :
            Begun(d, [NoCut EXCEPT !.kind = "score", !.step = "mix",
                                   !.overwrite = overwrite, !.plan = plan])
      BY <1>6 DEF StartScoring
    <2> DEFINE start == [NoCut EXCEPT !.kind = "score", !.step = "mix",
                                      !.overwrite = overwrite, !.plan = plan]
    <2>2. start \in Cutting /\ start.step = "mix" /\ start.kind = "score" /\ start.plan = plan
      BY <1>1, EmptyTypes DEF NoCut, Cutting, Steps, CutType, Types
    <2> HIDE DEF start
    <2>3. Begun(d, start)
      BY <2>1 DEF start
    <2>4. plan' = plan
      BY <1>6 DEF StartScoring, shelf
    <2> QED
      BY <1>4, <1>6, <2>2, <2>3, <2>4 DEF StartScoring
  <1>7. ASSUME NEW d \in Cutter, Proceed(d) \/ Stop(d), cut[d].step # "",
               \A o \in Cutter \ {d} : cut'[o] = cut[o], cut'[d].alone => cut[d].alone
        PROVE  Story(c)'
    <2> SUFFICES ASSUME cut'[c].alone PROVE Story(c)'
      BY DEF Story
    <2>1. cut[c].alone
      BY <1>7
    <2>2. d = c
      <3>1. \A o \in Cutter \ {c} : cut[o] = NoCut
        BY <2>1 DEF CutInv, Alone
      <3> QED
        BY <1>7, <3>1, EmptyTypes
    <2>3. CASE PlanFilm(c) \/ ClearCards(c) \/ DrawNext(c) \/ CheckCards(c)
      BY <1>3, <2>1, <2>3, DrawingStep DEF Story
    <2>4. CASE OpenFilm(c) \/ EncodeNext(c) \/ ReplaceFilm(c)
      BY <1>3, <2>1, <2>4, EncodingStep DEF Story
    <2>5. CASE EmptySubtitles(c) \/ WriteSubtitles(c) \/ MixMusic(c) \/ ReplaceScored(c)
      BY <1>3, <2>1, <2>5, TellingStep DEF Story
    <2>6. CASE Return(c) \/ Stop(c)
      <3>1. cut'[c] = NoCut
        BY <2>6 DEF Return, Stop, Over, CutInv, CutType, Types
      <3> QED
        BY <1>3, <3>1
    <2> QED
      BY <1>7, <2>2, <2>3, <2>4, <2>5, <2>6 DEF Proceed
  <1> QED
    BY <1>1, <1>2, <1>5, <1>6, <1>7, WhoMoves

\* What stands at the film's path is whole and, where nobody cut beside it, is
\* one plan's card and no frame of an earlier one's; and a cut that returns, with
\* nobody beside it, leaves the plan, the film, both subtitle files and the music
\* of one plan, whatever failed before it (run_private_journey_film).
THEOREM FilmIsOneStory == CutSpec => []FilmTellsOneStory
  <1>1. CutInit => CutInv
    <2> SUFFICES ASSUME CutInit PROVE CutInv
      OBVIOUS
    <2>1. CutType
      BY TypeInit
    <2>2. film.alone = FALSE
      BY DEF CutInit, NoFilm
    <2>3. \A c \in Cutter : cut[c].alone = FALSE
      BY EmptyTypes DEF CutInit
    <2> QED
      BY <2>1, <2>2, <2>3 DEF CutInv, FilmIsItsPlan, Alone, Story
  <1>2. CutInv /\ [CutNext]_cutVars => CutInv'
    <2> SUFFICES ASSUME CutInv, [CutNext]_cutVars PROVE CutInv'
      OBVIOUS
    <2>1. CutType' /\ FilmIsItsPlan' /\ (\A c \in Cutter : Alone(c)')
      BY TypeStep, FilmIsItsPlanStep, AloneStep DEF CutInv
    <2>2. \A c \in Cutter : Story(c)'
      BY StoryStep
    <2> QED
      BY <2>1, <2>2 DEF CutInv
  <1>3. CutInv => FilmTellsOneStory
    <2> SUFFICES ASSUME CutInv PROVE FilmTellsOneStory
      OBVIOUS
    <2>1. FilmWhole /\ FilmIsItsPlan
      BY DEF CutInv, CutType, WholeFilms, FilmWhole
    <2>2. CutIsOneStory
      <3> SUFFICES ASSUME NEW c \in Cutter, cut[c].step = "done", cut[c].kind = "cut", cut[c].alone
                   PROVE  /\ film.plan = plan
                          /\ subtitles = [s \in {"srt", "vtt"} |-> plan]
                          /\ cut[c].music => scored = [film |-> film, length |-> plan]
        BY DEF CutIsOneStory, CutAt
      <3>1. Telling(c)
        BY DEF CutInv, Story
      <3>2. subtitles["srt"] = plan /\ subtitles["vtt"] = plan
        BY <3>1 DEF Telling
      <3>3. subtitles \in [{"srt", "vtt"} -> Plans \cup {Torn}]
        BY DEF CutInv, CutType, Types
      <3>4. subtitles = [s \in {"srt", "vtt"} |-> plan]
        BY <3>2, <3>3
      <3> QED
        BY <3>1, <3>4 DEF Telling, AfterFilm
    <2> QED
      BY <2>1, <2>2 DEF FilmTellsOneStory
  <1> QED
    BY <1>1, <1>2, <1>3, PTL DEF CutSpec

-----------------------------------------------------------------------------
(***************************************************************************)
(* Which windows a film shows: FilmChoice.                                 *)
(***************************************************************************)

\* A range is one shorter and its last.
LEMMA OneMore ==
    ASSUME NEW k \in Nat, k # 0
    PROVE  1 .. k = (1 .. (k - 1)) \cup {k}
  <1>1. \A x : x \in 1 .. k <=> x \in 1 .. (k - 1) \/ x = k
    OBVIOUS
  <1> QED BY <1>1

\* Of windows that can be put in an order one is before the others: what a
\* choice of the best comes to, whatever the order.
LEMMA FirstOfOrder ==
    ASSUME NEW n \in Nat, NEW S \in SUBSET (1 .. n), S # {}, NEW R,
           \A x, y \in S : x # y => <<x, y>> \in R \/ <<y, x>> \in R,
           \A x, y, z \in S : <<x, y>> \in R /\ <<y, z>> \in R => <<x, z>> \in R
    PROVE  \E b \in S : \A x \in S \ {b} : <<b, x>> \in R
  <1> DEFINE part(k) == S \cap (1 .. k)
             first(k) == \E b \in part(k) : \A x \in part(k) \ {b} : <<b, x>> \in R
             bad == {k \in Nat : part(k) # {} /\ ~first(k)}
  <1>1. SUFFICES first(n)
    BY DEF part
  <1>2. bad = {}
    <2> SUFFICES ASSUME bad # {} PROVE FALSE
      OBVIOUS
    <2>1. PICK k \in bad : \A j \in bad : ~(j < k)
      <3>1. bad \in SUBSET Nat
        OBVIOUS
      <3> HIDE DEF bad
      <3> QED BY <3>1, LeastNatural
    <2>2. k \in Nat /\ part(k) # {} /\ ~first(k)
      BY <2>1
    <2>3. k # 0
      BY <2>2
    <2>4. /\ k - 1 \in Nat /\ k - 1 < k
          /\ part(k) = part(k - 1) \cup (S \cap {k})
      <3>1. k \in Nat /\ k - 1 \in Nat /\ k - 1 < k
        BY <2>2, <2>3
      <3>2. 1 .. k = (1 .. (k - 1)) \cup {k}
        BY <2>2, <2>3, OneMore
      <3> QED BY <3>1, <3>2
    <2>5. part(k - 1) = {} \/ first(k - 1)
      BY <2>1, <2>4
    <2>6. CASE part(k - 1) = {}
      <3>1. part(k) = {k}
        BY <2>2, <2>4, <2>6
      <3> QED BY <2>2, <3>1
    <2>7. CASE first(k - 1)
      <3>1. PICK b \in part(k - 1) : \A x \in part(k - 1) \ {b} : <<b, x>> \in R
        BY <2>7
      <3>2. CASE k \notin S
        BY <2>2, <2>4, <3>1, <3>2
      <3>3. CASE k \in S /\ <<b, k>> \in R
        <4>1. b \in part(k) /\ \A x \in part(k) \ {b} : <<b, x>> \in R
          BY <2>4, <3>1, <3>3
        <4> QED BY <2>2, <4>1
      <3>4. CASE k \in S /\ <<b, k>> \notin R
        <4>1. b \in S /\ b # k
          BY <2>2, <3>1
        <4>2. <<k, b>> \in R
          BY <3>4, <4>1
        <4>3. \A x \in part(k) \ {k} : <<k, x>> \in R
          <5> SUFFICES ASSUME NEW x \in part(k) \ {k} PROVE <<k, x>> \in R
            OBVIOUS
          <5>1. x \in part(k - 1) /\ x \in S
            BY <2>4
          <5>2. CASE x = b
            BY <4>2, <5>2
          <5>3. CASE x # b
            <6>1. <<b, x>> \in R
              BY <3>1, <5>1, <5>3
            <6> QED BY <3>4, <4>1, <4>2, <5>1, <6>1
          <5> QED BY <5>2, <5>3
        <4>4. k \in part(k)
          BY <2>4, <3>4
        <4> QED BY <2>2, <4>3, <4>4
      <3> QED BY <3>2, <3>3, <3>4
    <2> QED BY <2>5, <2>6, <2>7
  <1>3. part(n) # {}
    OBVIOUS
  <1> QED BY <1>2, <1>3

\* A division leaves less than it divides by.
LEMMA DivisionIs ==
    ASSUME NEW a \in Int, NEW d \in Nat \ {0}
    PROVE  /\ a \div d \in Int /\ a % d \in Int
           /\ a = d * (a \div d) + (a % d)
           /\ 0 <= a % d /\ a % d < d
  <1>1. a \div d \in Int /\ a % d \in Int
    OBVIOUS
  <1>2. a = d * (a \div d) + (a % d)
    OBVIOUS
  <1>3. 0 <= a % d /\ a % d < d
    OBVIOUS
  <1> QED BY <1>1, <1>2, <1>3

\* What is built a step at a time, each from the one before.
Built(n, D, b, g, f) ==
    f \in [0 .. n -> D] /\ f[0] = b /\ \A k \in 1 .. n : f[k] = g[k][f[k - 1]]

\* It can be built to any length.
LEMMA StepByStep ==
    ASSUME NEW n \in Nat, NEW D, NEW b \in D, NEW g \in [1 .. n -> [D -> D]]
    PROVE  \E f : Built(n, D, b, g, f)
  <1> DEFINE bad == {m \in 0 .. n : ~\E f : Built(m, D, b, g, f)}
  <1>1. n \in 0 .. n
    OBVIOUS
  <1>2. SUFFICES ASSUME ~\E f : Built(n, D, b, g, f) PROVE FALSE
    OBVIOUS
  <1>3. PICK m \in bad : \A j \in bad : ~(j < m)
    <2>1. bad \in SUBSET Nat /\ bad # {}
      BY <1>1, <1>2
    <2> HIDE DEF bad
    <2> QED BY <2>1, LeastNatural
  <1>4. m \in 0 .. n /\ ~\E f : Built(m, D, b, g, f)
    BY <1>3
  <1>5. CASE m = 0
    <2> DEFINE f == [k \in 0 .. 0 |-> b]
    <2>1. f \in [0 .. 0 -> D] /\ f[0] = b /\ 1 .. 0 = {}
      OBVIOUS
    <2>2. Built(0, D, b, g, f)
      BY <2>1 DEF Built
    <2> QED BY <1>4, <1>5, <2>2
  <1>6. CASE m # 0
    <2>1. m \in Nat /\ m - 1 \in 0 .. n /\ m - 1 < m /\ m \in 1 .. n
      BY <1>4, <1>6
    <2>2. \E f : Built(m - 1, D, b, g, f)
      BY <1>3, <2>1
    <2>3. PICK f : Built(m - 1, D, b, g, f)
      BY <2>2
    <2> DEFINE h == [k \in 0 .. m |-> IF k = m THEN g[m][f[m - 1]] ELSE f[k]]
    <2>4. f[m - 1] \in D /\ g[m][f[m - 1]] \in D
      BY <2>1, <2>3 DEF Built
    <2>5. \A k \in 0 .. m : k # m => k \in 0 .. (m - 1)
      BY <2>1
    <2>6. h \in [0 .. m -> D]
      BY <2>3, <2>4, <2>5 DEF Built
    <2>7. h[0] = b
      BY <1>6, <2>1, <2>3 DEF Built
    <2>8. ASSUME NEW k \in 1 .. m PROVE h[k] = g[k][h[k - 1]]
      <3>1. k \in 0 .. m /\ k - 1 \in 0 .. m /\ k - 1 # m /\ h[k - 1] = f[k - 1]
        BY <2>1
      <3>2. CASE k = m
        BY <3>1, <3>2
      <3>3. CASE k # m
        <4>1. k \in 1 .. (m - 1) /\ h[k] = f[k]
          BY <2>1, <3>1, <3>3
        <4> QED BY <2>3, <3>1, <4>1 DEF Built
      <3> QED BY <3>2, <3>3
    <2> HIDE DEF h
    <2>9. Built(m, D, b, g, h)
      BY <2>6, <2>7, <2>8 DEF Built
    <2> QED BY <1>4, <2>9
  <1> QED BY <1>5, <1>6

\* It stays where each step stays.
LEMMA StaysIn ==
    ASSUME NEW n \in Nat, NEW f, NEW D, f[0] \in D,
           \A k \in 1 .. n : f[k - 1] \in D => f[k] \in D
    PROVE  \A k \in 0 .. n : f[k] \in D
  <1> DEFINE bad == {k \in 0 .. n : f[k] \notin D}
  <1>1. SUFFICES ASSUME bad # {} PROVE FALSE
    OBVIOUS
  <1>2. PICK k \in bad : \A j \in bad : ~(j < k)
    <2>1. bad \in SUBSET Nat
      OBVIOUS
    <2> HIDE DEF bad
    <2> QED BY <1>1, <2>1, LeastNatural
  <1>3. k \in 0 .. n /\ f[k] \notin D /\ k # 0
    BY <1>2
  <1>4. k \in 1 .. n /\ k - 1 \in 0 .. n /\ k - 1 < k
    BY <1>3
  <1>5. f[k - 1] \in D
    BY <1>2, <1>4
  <1> QED BY <1>3, <1>4, <1>5

\* R puts any two of S in an order.
Orders(R, S) ==
    /\ \A x, y \in S : x # y => <<x, y>> \in R \/ <<y, x>> \in R
    /\ \A x, y, z \in S : <<x, y>> \in R /\ <<y, z>> \in R => <<x, z>> \in R
    /\ \A x \in S : <<x, x>> \notin R

\* Of finitely many one is the first.
LEMMA FirstOfFinite ==
    ASSUME NEW S, IsFiniteSet(S), S # {}, NEW R, Orders(R, S)
    PROVE  \E b \in S : \A x \in S \ {b} : <<b, x>> \in R
  <1> DEFINE n == Cardinality(S)
  <1>1. n \in Nat /\ ExistsBijection(1 .. n, S)
    BY FS_CardinalityType
  <1>2. PICK f \in [1 .. n -> S] : /\ \A x \in S : \E i \in 1 .. n : f[i] = x
                                   /\ \A i, j \in 1 .. n : f[i] = f[j] => i = j
    BY <1>1, Zenon DEF ExistsBijection, Bijection, Injection, Surjection, IsInjective
  <1> HIDE DEF n
  <1> DEFINE Q == {p \in (1 .. n) \X (1 .. n) : <<f[p[1]], f[p[2]]>> \in R}
             T == 1 .. n
  <1>3. T \in SUBSET (1 .. n) /\ T # {}
    BY <1>2
  <1>4. \A i, j \in T : <<i, j>> \in Q <=> <<f[i], f[j]>> \in R
    OBVIOUS
  <1>5. ASSUME NEW i \in T, NEW j \in T, i # j PROVE <<i, j>> \in Q \/ <<j, i>> \in Q
    <2>1. f[i] \in S /\ f[j] \in S /\ f[i] # f[j]
      BY <1>2, <1>5
    <2>2. <<f[i], f[j]>> \in R \/ <<f[j], f[i]>> \in R
      BY <2>1 DEF Orders
    <2> HIDE DEF Q
    <2> QED BY <1>4, <2>2
  <1>6. \A i, j, k \in T : <<i, j>> \in Q /\ <<j, k>> \in Q => <<i, k>> \in Q
    BY <1>2, <1>4 DEF Orders
  <1>7. PICK i \in T : \A j \in T \ {i} : <<i, j>> \in Q
    <2> HIDE DEF Q, T
    <2> QED BY <1>1, <1>3, <1>5, <1>6, FirstOfOrder
  <1>8. ASSUME NEW x \in S \ {f[i]} PROVE <<f[i], x>> \in R
    <2>1. PICK j \in 1 .. n : f[j] = x
      BY <1>2
    <2>2. j \in T \ {i}
      BY <2>1
    <2> QED BY <1>4, <1>7, <2>1, <2>2
  <1> QED BY <1>2, <1>7, <1>8

\* How many come before one of S.
PlaceIn(S, R, x) == Cardinality({y \in S : <<y, x>> \in R})

\* How many come before each is a place of its own.
LEMMA PlacesInOrder ==
    ASSUME NEW S, IsFiniteSet(S), NEW R, Orders(R, S), NEW n, n = Cardinality(S)
    PROVE  /\ n \in Nat
           /\ \A x \in S : PlaceIn(S, R, x) \in 0 .. n - 1
           /\ \A k \in 0 .. n - 1 : \E x \in S :
                 /\ PlaceIn(S, R, x) = k
                 /\ \A z \in S : PlaceIn(S, R, z) = k => z = x
           /\ \A x, y \in S : <<x, y>> \in R => PlaceIn(S, R, x) < PlaceIn(S, R, y)
  <1> DEFINE before(x) == {y \in S : <<y, x>> \in R}
             place == [x \in S |-> Cardinality(before(x))]
  <1>1. n \in Nat
    BY FS_CardinalityType
  <1>2. ASSUME NEW x \in S
        PROVE  IsFiniteSet(before(x)) /\ Cardinality(before(x)) \in 0 .. n - 1
               /\ Cardinality(before(x)) \in Int
    <2>1. before(x) \in SUBSET S /\ x \notin before(x)
      BY DEF Orders
    <2> HIDE DEF before
    <2>2. before(x) # S
      BY <2>1
    <2>3. IsFiniteSet(before(x)) /\ Cardinality(before(x)) <= n /\ Cardinality(before(x)) # n
      BY <2>1, <2>2, FS_Subset
    <2>4. Cardinality(before(x)) \in Nat
      BY <2>3, FS_CardinalityType
    <2> QED BY <1>1, <2>3, <2>4
  <1>3. ASSUME NEW x \in S, NEW y \in S, <<x, y>> \in R
        PROVE  Cardinality(before(x)) < Cardinality(before(y))
    <2>1. before(x) \in SUBSET before(y)
      BY <1>3 DEF Orders
    <2>2. x \in before(y) /\ x \notin before(x)
      BY <1>3 DEF Orders
    <2>3. IsFiniteSet(before(y)) /\ Cardinality(before(y)) \in Int /\ Cardinality(before(x)) \in Int
      BY <1>2
    <2> HIDE DEF before
    <2>4. Cardinality(before(x)) <= Cardinality(before(y)) /\ Cardinality(before(x)) # Cardinality(before(y))
      BY <2>1, <2>2, <2>3, FS_Subset
    <2> QED BY <2>3, <2>4
  <1>4. \A x \in S : place[x] = Cardinality(before(x))
    OBVIOUS
  <1> HIDE DEF before
  <1>5. ASSUME NEW x \in S, NEW y \in S, place[x] = place[y] PROVE x = y
    <2>1. Cardinality(before(x)) = Cardinality(before(y)) /\ Cardinality(before(x)) \in Int
      BY <1>2, <1>4, <1>5
    <2>2. <<x, y>> \notin R /\ <<y, x>> \notin R
      BY <1>3, <2>1
    <2> QED BY <2>2 DEF Orders
  <1>6. place \in Injection(S, 0 .. n - 1)
    BY <1>2, <1>5 DEF Injection, IsInjective
  <1>7. IsFiniteSet(0 .. n - 1) /\ Cardinality(0 .. n - 1) = n
    <2>1. 0 \in Int /\ n - 1 \in Int
      BY <1>1
    <2>2. IsFiniteSet(0 .. n - 1) /\ Cardinality(0 .. n - 1) = IF 0 > n - 1 THEN 0 ELSE (n - 1) - 0 + 1
      BY <2>1, FS_Interval
    <2> QED BY <1>1, <2>2
  <1>8. place \in Surjection(S, 0 .. n - 1)
    <2> HIDE DEF place
    <2> QED BY <1>6, <1>7, FS_Injection
  <1>9. \A k \in 0 .. n - 1 : \E x \in S : place[x] = k
    BY <1>8, Zenon DEF Surjection
  <1>10. ASSUME NEW k \in 0 .. n - 1
         PROVE  \E x \in S : /\ Cardinality(before(x)) = k
                             /\ \A z \in S : Cardinality(before(z)) = k => z = x
    <2>1. PICK x \in S : place[x] = k
      BY <1>9
    <2> QED BY <1>4, <1>5, <2>1
  <1> QED BY <1>1, <1>2, <1>3, <1>10 DEF before, PlaceIn

\* What is in a list.
LEMMA ListsAre ==
    ASSUME NEW s, List(s)
    PROVE  Len(s) \in Nat /\ DOMAIN s = 1 .. Len(s) /\ s = [i \in 1 .. Len(s) |-> s[i]]
  <1> PICK S : s \in Seq(S)
    BY DEF List
  <1> QED OBVIOUS

\* A function on the first n numbers is a list.
LEMMA ListOf ==
    ASSUME NEW n \in Nat, NEW D, NEW f \in [1 .. n -> D]
    PROVE  Len(f) = n /\ DOMAIN f = 1 .. n
  <1>1. f \in Seq(D)
    OBVIOUS
  <1> QED BY <1>1

\* What is put in order is each of the set once, the earlier before the later.
LEMMA OrderedIs ==
    ASSUME NEW S, IsFiniteSet(S), NEW R, Orders(R, S), NEW n, n = Cardinality(S)
    PROVE  /\ n \in Nat /\ InRank(S, R) \in [1 .. n -> S]
           /\ \A x \in S : \E k \in 1 .. n : InRank(S, R)[k] = x
           /\ \A i, j \in 1 .. n : i < j => <<InRank(S, R)[i], InRank(S, R)[j]>> \in R
  <1> DEFINE f == InRank(S, R)
  <1>1. /\ n \in Nat
        /\ \A x \in S : PlaceIn(S, R, x) \in 0 .. n - 1
        /\ \A k \in 0 .. n - 1 : \E x \in S :
              /\ PlaceIn(S, R, x) = k
              /\ \A z \in S : PlaceIn(S, R, z) = k => z = x
        /\ \A x, y \in S : <<x, y>> \in R => PlaceIn(S, R, x) < PlaceIn(S, R, y)
    BY PlacesInOrder
  <1>2. f = [k \in 1 .. n |-> CHOOSE x \in S : PlaceIn(S, R, x) = k - 1]
    BY DEF InRank, PlaceIn
  <1> HIDE DEF f
  <1>3. ASSUME NEW k \in 1 .. n
        PROVE  f[k] \in S /\ PlaceIn(S, R, f[k]) = k - 1
    <2>1. k - 1 \in 0 .. n - 1
      BY <1>1
    <2>2. \E x \in S : PlaceIn(S, R, x) = k - 1
      BY <1>1, <2>1
    <2> QED BY <1>2, <2>2
  <1>4. f \in [1 .. n -> S]
    BY <1>2, <1>3
  <1>5. ASSUME NEW x \in S PROVE \E k \in 1 .. n : f[k] = x
    <2>1. PlaceIn(S, R, x) \in 0 .. n - 1
      BY <1>1
    <2> DEFINE k == PlaceIn(S, R, x) + 1
    <2>2. k \in 1 .. n /\ k - 1 = PlaceIn(S, R, x)
      BY <1>1, <2>1
    <2>3. f[k] \in S /\ PlaceIn(S, R, f[k]) = k - 1
      BY <1>3, <2>2
    <2>4. f[k] = x
      BY <1>1, <2>1, <2>2, <2>3
    <2> QED BY <2>2, <2>4
  <1>6. ASSUME NEW i \in 1 .. n, NEW j \in 1 .. n, i < j
        PROVE  <<f[i], f[j]>> \in R
    <2>1. /\ f[i] \in S /\ f[j] \in S
          /\ PlaceIn(S, R, f[i]) = i - 1 /\ PlaceIn(S, R, f[j]) = j - 1
      BY <1>3
    <2>2. ~(PlaceIn(S, R, f[j]) < PlaceIn(S, R, f[i])) /\ f[i] # f[j]
      BY <1>1, <1>6, <2>1
    <2>3. <<f[j], f[i]>> \notin R
      BY <1>1, <2>1, <2>2
    <2> QED BY <2>1, <2>2, <2>3 DEF Orders
  <1> QED BY <1>1, <1>4, <1>5, <1>6 DEF f

\* Keys of numbers, one for each, are an order: the first difference decides.
LEMMA KeysOrder ==
    ASSUME NEW S, NEW m \in Nat, NEW key \in [S -> [1 .. m -> Int]],
           \A x, y \in S : key[x] = key[y] => x = y,
           NEW R, \A x, y \in S : <<x, y>> \in R <=> Before(key[x], key[y])
    PROVE  Orders(R, S)
  <1>1. ASSUME NEW x \in S, NEW y \in S
        PROVE  Before(key[x], key[y]) <=>
                 \E i \in 1 .. m : key[x][i] < key[y][i] /\ \A j \in 1 .. (i - 1) : key[x][j] = key[y][j]
    <2>1. DOMAIN key[x] = 1 .. m
      OBVIOUS
    <2> QED BY <2>1 DEF Before
  <1>2. ASSUME NEW x \in S, NEW y \in S, x # y
        PROVE  Before(key[x], key[y]) \/ Before(key[y], key[x])
    <2> DEFINE other == {i \in 1 .. m : key[x][i] # key[y][i]}
    <2>1. other # {}
      <3>1. key[x] # key[y] /\ key[x] \in [1 .. m -> Int] /\ key[y] \in [1 .. m -> Int]
        BY <1>2
      <3>2. \E i \in 1 .. m : key[x][i] # key[y][i]
        BY <3>1
      <3> QED BY <3>2
    <2>2. PICK i \in other : \A j \in other : ~(j < i)
      <3>1. other \in SUBSET Nat
        OBVIOUS
      <3> HIDE DEF other
      <3> QED BY <2>1, <3>1, LeastNatural
    <2>3. i \in 1 .. m /\ key[x][i] # key[y][i]
      OBVIOUS
    <2>4. \A j \in 1 .. (i - 1) : key[x][j] = key[y][j]
      <3> SUFFICES ASSUME NEW j \in 1 .. (i - 1) PROVE key[x][j] = key[y][j]
        OBVIOUS
      <3>1. j \in 1 .. m /\ j < i
        BY <2>3
      <3> QED BY <2>2, <3>1
    <2>5. key[x][i] \in Int /\ key[y][i] \in Int
      BY <2>3
    <2>6. key[x][i] < key[y][i] \/ key[y][i] < key[x][i]
      BY <2>3, <2>5
    <2> QED BY <1>1, <2>3, <2>4, <2>6
  <1>3. ASSUME NEW x \in S, NEW y \in S, NEW z \in S,
               Before(key[x], key[y]), Before(key[y], key[z])
        PROVE  Before(key[x], key[z])
    <2>1. PICK i \in 1 .. m : key[x][i] < key[y][i] /\ \A j \in 1 .. (i - 1) : key[x][j] = key[y][j]
      BY <1>1, <1>3
    <2>2. PICK k \in 1 .. m : key[y][k] < key[z][k] /\ \A j \in 1 .. (k - 1) : key[y][j] = key[z][j]
      BY <1>1, <1>3
    <2>3. /\ key[x][i] \in Int /\ key[y][i] \in Int /\ key[z][i] \in Int
          /\ key[x][k] \in Int /\ key[y][k] \in Int /\ key[z][k] \in Int
      OBVIOUS
    <2>4. CASE i < k
      <3>1. i \in 1 .. (k - 1) /\ key[x][i] < key[z][i]
        BY <2>1, <2>2, <2>3, <2>4
      <3>2. \A j \in 1 .. (i - 1) : key[x][j] = key[z][j]
        <4> SUFFICES ASSUME NEW j \in 1 .. (i - 1) PROVE key[x][j] = key[z][j]
          OBVIOUS
        <4>1. j \in 1 .. (k - 1)
          BY <2>4
        <4> QED BY <2>1, <2>2, <4>1
      <3> QED BY <1>1, <3>1, <3>2
    <2>5. CASE ~(i < k)
      <3>1. key[x][k] < key[z][k]
        <4>1. CASE i = k
          BY <2>1, <2>2, <2>3, <4>1
        <4>2. CASE i # k
          <5>1. k \in 1 .. (i - 1)
            BY <2>5, <4>2
          <5>2. key[x][k] = key[y][k]
            BY <2>1, <5>1
          <5> QED BY <2>2, <5>2
        <4> QED BY <4>1, <4>2
      <3>2. \A j \in 1 .. (k - 1) : key[x][j] = key[z][j]
        <4> SUFFICES ASSUME NEW j \in 1 .. (k - 1) PROVE key[x][j] = key[z][j]
          OBVIOUS
        <4>1. j \in 1 .. (i - 1)
          BY <2>5
        <4> QED BY <2>1, <2>2, <4>1
      <3> QED BY <1>1, <3>1, <3>2
    <2> QED BY <2>4, <2>5
  <1>4. ASSUME NEW x \in S PROVE ~Before(key[x], key[x])
    <2>1. \A i \in 1 .. m : key[x][i] \in Int
      OBVIOUS
    <2>2. \A i \in 1 .. m : ~(key[x][i] < key[x][i])
      BY <2>1
    <2> QED BY <1>1, <2>2
  <1> QED BY <1>2, <1>3, <1>4 DEF Orders

-----------------------------------------------------------------------------
(* The ride and what its choice is made of.                                *)

\* A judged ride: so many windows of one length, so many legs in their order.
LEMMA RideIs ==
    ASSUME ride \in Rides, ride.record
    PROVE  /\ Len(ride.windows) \in Nat /\ Windows = 1 .. Len(ride.windows) /\ IsFiniteSet(Windows)
           /\ Len(ride.legs) \in Nat /\ Legs = 1 .. Len(ride.legs)
           /\ \A w \in Windows : /\ W(w).length = 24 /\ W(w).start \in Int /\ W(w).rank \in Nat
                                 /\ W(w).score \in Int /\ W(w).photo \in Int /\ W(w).motion \in Int
           /\ \A m, n \in Legs : m < n => ride.legs[m].to <= ride.legs[n].from
           /\ \A n \in Legs : ride.legs[n].from \in Int /\ ride.legs[n].to \in Int
  <1>1. Measured(ride)
    BY RidesAssumption
  <1>2. List(ride.windows) /\ List(ride.legs)
    BY <1>1 DEF Measured
  <1>3. Len(ride.windows) \in Nat /\ DOMAIN ride.windows = 1 .. Len(ride.windows)
    BY <1>2, ListsAre
  <1>4. Len(ride.legs) \in Nat /\ DOMAIN ride.legs = 1 .. Len(ride.legs)
    BY <1>2, ListsAre
  <1>5. IsFiniteSet(1 .. Len(ride.windows))
    BY <1>3, FS_Interval
  <1>6. \A w \in DOMAIN ride.windows : ride.windows[w].length = 24
    BY <1>1 DEF Measured, WindowLength, Second
  <1> QED BY <1>1, <1>3, <1>4, <1>5, <1>6 DEF Measured, Windows, Legs, W

\* A window is in one leg.
LEMMA OneLeg ==
    ASSUME ride \in Rides, ride.record, NEW w \in Windows, NEW m \in Legs, NEW n \in Legs,
           InLeg(w, m), InLeg(w, n)
    PROVE  m = n
  <1>1. m \in Nat /\ n \in Nat /\ W(w).start \in Int
    BY RideIs
  <1>2. /\ ride.legs[m].from \in Int /\ ride.legs[m].to \in Int
        /\ ride.legs[n].from \in Int /\ ride.legs[n].to \in Int
    BY RideIs
  <1>3. /\ m < n => ride.legs[m].to <= ride.legs[n].from
        /\ n < m => ride.legs[n].to <= ride.legs[m].from
    BY RideIs
  <1> QED BY <1>1, <1>2, <1>3 DEF InLeg

\* The holds and their ranges, whatever the tier.
LEMMA HoldsAre ==
    \A t : /\ HoldFor(t) \in {20, 16, 12}
           /\ HoldRange(t)[1] \in {16, 10, 6} /\ HoldRange(t)[2] \in {20, 14, 8}
           /\ HoldRange(t)[1] <= HoldRange(t)[2]
  <1> SUFFICES ASSUME NEW t
               PROVE  /\ HoldFor(t) \in {20, 16, 12}
                      /\ HoldRange(t)[1] \in {16, 10, 6} /\ HoldRange(t)[2] \in {20, 14, 8}
                      /\ HoldRange(t)[1] <= HoldRange(t)[2]
    OBVIOUS
  <1>1. CASE t = 1
    BY <1>1 DEF HoldFor, HoldRange, Second
  <1>2. CASE t = 2
    BY <1>2 DEF HoldFor, HoldRange, Second
  <1>3. CASE t # 1 /\ t # 2
    BY <1>3 DEF HoldFor, HoldRange, Second
  <1> QED BY <1>1, <1>2, <1>3

\* Every window counts with a length of its own.
LEMMA LengthsAre ==
    ASSUME ride \in Rides, ride.record
    PROVE  /\ Lengths \in [1 .. Len(ride.windows) -> Nat]
           /\ \A w \in Windows : Lengths[w] = Paced(w) /\ Paced(w) > 0 /\ Paced(w) \in Nat
  <1>1. ASSUME NEW w \in Windows PROVE Paced(w) \in Nat /\ Paced(w) > 0
    <2> DEFINE t == RankTier(w)
    <2>1. /\ HoldFor(t) \in {20, 16, 12}
          /\ HoldRange(t)[1] \in {16, 10, 6} /\ HoldRange(t)[2] \in {20, 14, 8}
      BY HoldsAre
    <2>2. (HoldRange(t)[1] + HoldRange(t)[2]) \div 2 \in Nat /\ (HoldRange(t)[1] + HoldRange(t)[2]) \div 2 > 0
      BY <2>1
    <2>3. W(w).length = 24
      BY RideIs
    <2> HIDE DEF t
    <2>4. CASE w \in Pinned
      BY <2>3, <2>4 DEF Paced, Less, FixedHold, Second
    <2>5. CASE w \notin Pinned /\ ride.looks
      BY <2>2, <2>3, <2>5 DEF Paced, Less, t
    <2>6. CASE w \notin Pinned /\ ~ride.looks
      BY <2>1, <2>3, <2>6 DEF Paced, Less, t
    <2> QED BY <2>4, <2>5, <2>6
  <1>2. Lengths = [w \in Windows |-> Paced(w)] /\ Windows = 1 .. Len(ride.windows)
    BY RideIs DEF Lengths
  <1> HIDE DEF Windows
  <1> QED BY <1>1, <1>2

\* What lies between two windows is the same from either.
LEMMA GapIs ==
    ASSUME ride \in Rides, ride.record, NEW v \in Windows, NEW w \in Windows
    PROVE  Gap(v, w, Lengths) \in Int /\ Gap(v, w, Lengths) = Gap(w, v, Lengths)
  <1>1. W(v).start \in Int /\ W(w).start \in Int
    BY RideIs
  <1>2. Lengths[v] \in Int /\ Lengths[w] \in Int /\ Lengths[v] > 0 /\ Lengths[w] > 0
    BY LengthsAre
  <1> QED BY <1>1, <1>2 DEF Gap

LEMMA ScoreIs ==
    ASSUME ride \in Rides, ride.record, NEW w \in Windows
    PROVE  Score(w) \in Int
  BY RideIs DEF Score

\* The earliest of some windows is one of them.
LEMMA EarliestIs ==
    ASSUME ride \in Rides, ride.record, NEW S \in SUBSET Windows, S # {}
    PROVE  First(S, Earliest) \in S
  <1> DEFINE key == [w \in S |-> <<W(w).start, w>>]
             R == {p \in S \X S : Before(key[p[1]], key[p[2]])}
  <1>1. \A w \in S : W(w).start \in Int /\ w \in Int
    BY RideIs
  <1>2. key \in [S -> [1 .. 2 -> Int]]
    BY <1>1
  <1>3. \A x, y \in S : key[x] = key[y] => x = y
    OBVIOUS
  <1>4. \A x, y \in S : <<x, y>> \in R <=> Before(key[x], key[y])
    OBVIOUS
  <1>5. \A x \in S : key[x] = Earliest(x)
    BY DEF Earliest
  <1>6. IsFiniteSet(S)
    BY RideIs, FS_Subset
  <1> HIDE DEF key, R
  <1>7. Orders(R, S)
    BY <1>2, <1>3, <1>4, KeysOrder
  <1>8. \E b \in S : \A x \in S \ {b} : <<b, x>> \in R
    BY <1>6, <1>7, FirstOfFinite
  <1>9. \E b \in S : \A x \in S \ {b} : Before(Earliest(b), Earliest(x))
    BY <1>4, <1>5, <1>8
  <1> QED BY <1>9 DEF First

\* How far the nearest window taken is.
LEMMA NearestIs ==
    ASSUME ride \in Rides, ride.record, NEW w \in Windows, NEW taken \in SUBSET Windows
    PROVE  NearestTaken(w, taken) \in Int
  <1> DEFINE gaps == {Gap(w, t, Lengths) : t \in taken}
             key == [g \in gaps |-> <<g>>]
             R == {p \in gaps \X gaps : Before(key[p[1]], key[p[2]])}
             image == [t \in taken |-> Gap(w, t, Lengths)]
  <1>1. CASE taken = {}
    <2>1. NearestTaken(w, taken) = 0
      BY <1>1, Zenon DEF NearestTaken
    <2> QED BY <2>1
  <1>2. CASE taken # {}
    <2>1. \A g \in gaps : g \in Int
      BY GapIs
    <2>2. IsFiniteSet(gaps)
      <3>1. IsFiniteSet(taken)
        BY RideIs, FS_Subset
      <3>2. image \in Surjection(taken, gaps)
        BY DEF Surjection
      <3> HIDE DEF image, gaps
      <3> QED BY <3>1, <3>2, FS_Surjection
    <2>3. gaps # {}
      BY <1>2
    <2> HIDE DEF gaps
    <2>4. key \in [gaps -> [1 .. 1 -> Int]]
      BY <2>1
    <2>5. \A x, y \in gaps : key[x] = key[y] => x = y
      OBVIOUS
    <2>6. \A x, y \in gaps : <<x, y>> \in R <=> Before(key[x], key[y])
      OBVIOUS
    <2>7. \A x \in gaps : key[x] = <<x>>
      OBVIOUS
    <2> HIDE DEF key, R
    <2>8. Orders(R, gaps)
      BY <2>4, <2>5, <2>6, KeysOrder
    <2>9. \E b \in gaps : \A x \in gaps \ {b} : <<b, x>> \in R
      BY <2>2, <2>3, <2>8, FirstOfFinite
    <2>10. \E b \in gaps : \A x \in gaps \ {b} : Before(<<b>>, <<x>>)
      BY <2>6, <2>7, <2>9
    <2>11. First(gaps, LAMBDA g : <<g>>) \in gaps
      BY <2>10 DEF First
    <2>12. NearestTaken(w, taken) = First(gaps, LAMBDA g : <<g>>)
      BY <1>2 DEF NearestTaken, gaps
    <2> QED BY <2>1, <2>11, <2>12
  <1> QED BY <1>1, <1>2

\* So is the window considered next.
LEMMA PickIs ==
    ASSUME ride \in Rides, ride.record, NEW pool \in SUBSET Windows, pool # {},
           NEW taken \in SUBSET Windows
    PROVE  Pick(pool, taken) \in pool
  <1>1. \A w \in Windows : W(w).start \in Int /\ w \in Int /\ W(w).rank \in Int /\ Score(w) \in Int
    BY RideIs, ScoreIs
  <1>2. IsFiniteSet(pool)
    BY RideIs, FS_Subset
  <1> DEFINE bestKey == [w \in pool |-> <<0 - Score(w), w>>]
             B == {p \in pool \X pool : Before(bestKey[p[1]], bestKey[p[2]])}
             best == First(pool, LAMBDA w : <<0 - Score(w), w>>)
             tied == {w \in pool : Score(w) >= Score(best) - TieMargin}
  <1>3. best \in pool
    <2>1. bestKey \in [pool -> [1 .. 2 -> Int]]
      BY <1>1
    <2>2. \A x, y \in pool : bestKey[x] = bestKey[y] => x = y
      OBVIOUS
    <2>3. \A x, y \in pool : <<x, y>> \in B <=> Before(bestKey[x], bestKey[y])
      OBVIOUS
    <2>4. \A x \in pool : bestKey[x] = <<0 - Score(x), x>>
      OBVIOUS
    <2> HIDE DEF bestKey, B
    <2>5. Orders(B, pool)
      BY <2>1, <2>2, <2>3, KeysOrder
    <2>6. \E b \in pool : \A x \in pool \ {b} : <<b, x>> \in B
      BY <1>2, <2>5, FirstOfFinite
    <2>7. \E b \in pool : \A x \in pool \ {b} : Before(<<0 - Score(b), b>>, <<0 - Score(x), x>>)
      BY <2>3, <2>4, <2>6
    <2> QED BY <2>7 DEF First
  <1> HIDE DEF best
  <1>4. best \in tied
    BY <1>1, <1>3 DEF TieMargin
  <1>5. tied \subseteq pool /\ IsFiniteSet(tied)
    BY <1>2, FS_Subset
  <1> DEFINE Seen(w) == Cardinality({t \in taken : W(t).judged /\ W(t).family = W(w).family})
             Far(w) == 0 - NearestTaken(w, taken)
             Ranked(w) == IF W(w).rank = 0 THEN 1000 ELSE W(w).rank
             key == [w \in tied |-> <<Bit(~W(w).turn), Ranked(w), Seen(w), Far(w), W(w).start, w>>]
             R == {p \in tied \X tied : Before(key[p[1]], key[p[2]])}
  <1> HIDE DEF tied
  <1>6. key \in [tied -> [1 .. 6 -> Int]]
    <2> SUFFICES ASSUME NEW w \in tied
                 PROVE  <<Bit(~W(w).turn), Ranked(w), Seen(w), Far(w), W(w).start, w>> \in [1 .. 6 -> Int]
      OBVIOUS
    <2>1. Bit(~W(w).turn) \in Int
      BY DEF Bit
    <2>2. Ranked(w) \in Int /\ W(w).start \in Int /\ w \in Int
      BY <1>1, <1>5
    <2>3. Seen(w) \in Int
      <3>1. IsFiniteSet(taken)
        BY RideIs, FS_Subset
      <3>2. IsFiniteSet({t \in taken : W(t).judged /\ W(t).family = W(w).family})
        BY <3>1, FS_Subset
      <3> QED BY <3>2, FS_CardinalityType
    <2>4. Far(w) \in Int
      BY <1>5, NearestIs
    <2> HIDE DEF Seen, Far, Ranked
    <2> QED BY <2>1, <2>2, <2>3, <2>4
  <1>7. \A x \in tied : key[x] = <<Bit(~W(x).turn), Ranked(x), Seen(x), Far(x), W(x).start, x>>
    OBVIOUS
  <1> HIDE DEF Seen, Far, Ranked
  <1>8. \A x, y \in tied : key[x] = key[y] => x = y
    BY <1>7
  <1>9. \A x, y \in tied : <<x, y>> \in R <=> Before(key[x], key[y])
    OBVIOUS
  <1> HIDE DEF key, R
  <1>10. Orders(R, tied)
    BY <1>6, <1>8, <1>9, KeysOrder
  <1>11. \E b \in tied : \A x \in tied \ {b} : <<b, x>> \in R
    BY <1>4, <1>5, <1>10, FirstOfFinite
  <1> DEFINE Key(w) == <<Bit(~W(w).turn), IF W(w).rank = 0 THEN 1000 ELSE W(w).rank,
                         Cardinality({t \in taken : W(t).judged /\ W(t).family = W(w).family}),
                         0 - NearestTaken(w, taken), W(w).start, w>>
  <1>12. \A x \in tied : key[x] = Key(x)
    BY <1>7 DEF Seen, Far, Ranked
  <1> HIDE DEF Key
  <1>13. \E b \in tied : \A x \in tied \ {b} : Before(Key(b), Key(x))
    BY <1>9, <1>11, <1>12
  <1>14. First(tied, Key) \in tied
    BY <1>13 DEF First
  <1>15. Pick(pool, taken) = First(tied, Key)
    BY DEF Pick, tied, best, Key
  <1> QED BY <1>5, <1>14, <1>15

\* What holds of nothing and goes on by one holds up to n.
LEMMA UpTo ==
    ASSUME NEW n \in Nat, NEW T, 0 \in T, \A k \in 1 .. n : k - 1 \in T => k \in T
    PROVE  \A k \in 0 .. n : k \in T
  <1> DEFINE bad == {k \in 0 .. n : k \notin T}
  <1>1. SUFFICES ASSUME bad # {} PROVE FALSE
    OBVIOUS
  <1>2. PICK k \in bad : \A j \in bad : ~(j < k)
    <2>1. bad \in SUBSET Nat
      OBVIOUS
    <2> HIDE DEF bad
    <2> QED BY <1>1, <2>1, LeastNatural
  <1>3. k \in 1 .. n /\ k - 1 \in 0 .. n /\ k - 1 < k
    BY <1>2
  <1>4. k - 1 \in T
    BY <1>2, <1>3
  <1> QED BY <1>2, <1>3, <1>4

\* A total of what is not negative is no less than any of it.
LEMMA TotalIs ==
    ASSUME NEW list, Len(list) \in Nat, list \in [1 .. Len(list) -> Int], NEW S
    PROVE  /\ Total(list, S) \in Int
           /\ S = {} => Total(list, S) = 0
           /\ (\A k \in 1 .. Len(list) : k \in S => list[k] >= 0) =>
                Total(list, S) >= 0 /\ \A k \in 1 .. Len(list) : k \in S => Total(list, S) >= list[k]
  <1> DEFINE n == Len(list)
             g == [k \in 1 .. n |-> [x \in Int |-> x + (IF k \in S THEN list[k] ELSE 0)]]
             full(h) == [k \in 0 .. n |-> IF k = 0 THEN 0 ELSE h[k - 1] + (IF k \in S THEN list[k] ELSE 0)]
             e == CHOOSE h : h = full(h)
             none == \A k \in 1 .. n : k \in S => list[k] >= 0
  <1>0. n \in Nat
    OBVIOUS
  <1>1. g \in [1 .. n -> [Int -> Int]]
    <2> SUFFICES ASSUME NEW k \in 1 .. n, NEW x \in Int
                 PROVE  x + (IF k \in S THEN list[k] ELSE 0) \in Int
      OBVIOUS
    <2>1. list[k] \in Int
      OBVIOUS
    <2> QED BY <2>1
  <1>2. \E h : h = full(h)
    <2>1. \E f : Built(n, Int, 0, g, f)
      <3> HIDE DEF n, g
      <3>1. 0 \in Int
        OBVIOUS
      <3> QED BY <1>0, <1>1, <3>1, StepByStep
    <2>2. PICK f : Built(n, Int, 0, g, f)
      BY <2>1
    <2>3. f \in [0 .. n -> Int] /\ f[0] = 0
      BY <2>2 DEF Built
    <2>4. \A k \in 1 .. n : f[k] = f[k - 1] + (IF k \in S THEN list[k] ELSE 0)
      <3> TAKE k \in 1 .. n
      <3>1. f[k] = g[k][f[k - 1]]
        <4> HIDE DEF n, g
        <4> QED BY <2>2 DEF Built
      <3>2. f[k - 1] \in Int
        BY <1>0, <2>3
      <3> QED BY <3>1, <3>2
    <2>5. \A k \in 0 .. n : f[k] = full(f)[k]
      BY <2>3, <2>4
    <2> HIDE DEF n
    <2>6. f = full(f)
      BY <2>3, <2>5
    <2> QED BY <2>6
  <1>3. e = full(e)
    BY <1>2
  <1>4. Total(list, S) = e[n]
    BY DEF Total
  <1> HIDE DEF e
  <1>5. e[0] = 0
    BY <1>3
  <1>6. \A k \in 1 .. n : e[k] = e[k - 1] + (IF k \in S THEN list[k] ELSE 0)
    BY <1>3
  <1> DEFINE P(k) == /\ e[k] \in Int
                     /\ S = {} => e[k] = 0
                     /\ none => e[k] >= 0 /\ \A j \in 1 .. k : j \in S => e[k] >= list[j]
             T == {k \in 0 .. n : P(k)}
  <1>7. 0 \in T
    BY <1>5
  <1>8. ASSUME NEW k \in 1 .. n, k - 1 \in T PROVE k \in T
    <2>1. P(k - 1) /\ k \in 0 .. n
      BY <1>8
    <2>2. list[k] \in Int /\ e[k] = e[k - 1] + (IF k \in S THEN list[k] ELSE 0)
      BY <1>6
    <2>3. e[k] \in Int /\ (S = {} => e[k] = 0)
      BY <2>1, <2>2
    <2>4. ASSUME none
          PROVE  e[k] >= 0 /\ \A j \in 1 .. k : j \in S => e[k] >= list[j]
      <3>1. e[k] >= e[k - 1] /\ (k \in S => e[k] >= list[k])
        BY <2>1, <2>2, <2>4
      <3>2. ASSUME NEW j \in 1 .. k, j \in S PROVE e[k] >= list[j]
        <4>1. CASE j = k
          BY <3>1, <3>2, <4>1
        <4>2. CASE j # k
          <5>1. j \in 1 .. (k - 1) /\ list[j] \in Int
            BY <4>2
          <5>2. e[k - 1] >= list[j]
            BY <2>1, <2>4, <3>2, <5>1
          <5> QED BY <2>1, <2>3, <3>1, <5>1, <5>2
        <4> QED BY <4>1, <4>2
      <3> QED BY <2>1, <2>3, <2>4, <3>1, <3>2
    <2> HIDE DEF none
    <2> QED BY <2>1, <2>3, <2>4
  <1> HIDE DEF T, n
  <1>9. \A k \in 0 .. n : k \in T
    BY <1>7, <1>8, UpTo DEF n
  <1>10. n \in T
    BY <1>9 DEF n
  <1> QED BY <1>4, <1>10 DEF T, n

\* The opening shows no window that the floors rule out.
LEMMA OpeningIs ==
    ASSUME ride \in Rides, ride.record
    PROVE  \A w \in Opening : w \in Windows /\ FloorReason(w) = "none"
  <1> DEFINE fit == {w \in WithinRide : /\ FloorReason(w) = "none" /\ ~W(w).indoors /\ ~Residence(w)
                                        /\ ride.from <= W(w).start /\ W(w).start <= ride.to}
             Key(w) == <<0 - Picture(w), W(w).start, w>>
             best == InOrder(fit, Key)
             key == [w \in fit |-> Key(w)]
             R == {p \in fit \X fit : Before(Key(p[1]), Key(p[2]))}
  <1>1. fit \subseteq Windows /\ \A w \in fit : FloorReason(w) = "none"
    BY DEF WithinRide
  <1>2. IsFiniteSet(fit)
    BY <1>1, RideIs, FS_Subset
  <1> HIDE DEF fit
  <1>3. \E m \in Nat : best \in [1 .. m -> fit]
    <2>1. \A w \in fit : w \in Int /\ W(w).start \in Int /\ Picture(w) \in Int
      BY <1>1, RideIs, ScoreIs DEF Picture
    <2>2. key \in [fit -> [1 .. 3 -> Int]]
      <3> SUFFICES ASSUME NEW w \in fit PROVE <<0 - Picture(w), W(w).start, w>> \in [1 .. 3 -> Int]
        OBVIOUS
      <3> QED BY <2>1
    <2>3. \A x, y \in fit : key[x] = key[y] => x = y
      OBVIOUS
    <2>4. \A x, y \in fit : <<x, y>> \in R <=> Before(key[x], key[y])
      <3> HIDE DEF Key
      <3> QED OBVIOUS
    <2> HIDE DEF Key, key
    <2>5. best = InRank(fit, R)
      BY DEF InOrder
    <2> HIDE DEF R
    <2>6. Orders(R, fit)
      BY <2>2, <2>3, <2>4, KeysOrder
    <2>7. PICK m : m = Cardinality(fit)
      OBVIOUS
    <2>8. m \in Nat /\ InRank(fit, R) \in [1 .. m -> fit]
      BY <1>2, <2>6, <2>7, OrderedIs
    <2> QED BY <2>5, <2>8
  <1>4. PICK m \in Nat : best \in [1 .. m -> fit]
    BY <1>3
  <1> DEFINE Wanted(taken, w, pass) ==
               /\ Cardinality(taken) < OpeningCount /\ w \notin taken
               /\ IF pass < 3 THEN Moving(w) ELSE ~Moving(w) /\ W(w).subject \in ViewSubjects
               /\ pass = 2 \/ Picture(w) >= MinPicture
               /\ \A t \in taken : Abs(W(w).start - W(t).start) >= Spread
               /\ pass # 0 \/ \A t \in taken : W(t).subject # W(w).subject
             n == 4 * Len(best)
             Taken(k, before) ==
               LET w == best[((k - 1) % Len(best)) + 1]
               IN  IF Wanted(before, w, (k - 1) \div Len(best)) THEN before \cup {w} ELSE before
             full(h) == [k \in 0 .. n |-> IF k = 0 THEN {} ELSE Taken(k, h[k - 1])]
             g == [k \in 1 .. n |-> [x \in SUBSET fit |-> Taken(k, x)]]
             e == CHOOSE h : h = full(h)
  <1>5. Opening = e[n]
    BY DEF Opening, fit
  <1> HIDE DEF Key, best
  <1>6. Len(best) = m /\ n \in Nat /\ n = 4 * m
    <2>1. Len(best) = m
      BY <1>4, ListOf
    <2> QED BY <2>1
  <1>7. ASSUME NEW k \in 1 .. n, NEW x \in SUBSET fit PROVE Taken(k, x) \in SUBSET fit
    <2>1. m # 0
      BY <1>6
    <2>2. (k - 1) % m \in 0 .. (m - 1)
      BY <1>6, <2>1, DivisionIs
    <2>3. ((k - 1) % Len(best)) + 1 \in 1 .. m
      BY <1>6, <2>2
    <2>4. best[((k - 1) % Len(best)) + 1] \in fit
      BY <1>4, <2>3
    <2> HIDE DEF Wanted
    <2> QED BY <2>4
  <1> HIDE DEF n, Taken
  <1>8. g \in [1 .. n -> [SUBSET fit -> SUBSET fit]]
    BY <1>7
  <1>9. \E h : h = full(h)
    <2>1. \E f : Built(n, SUBSET fit, {}, g, f)
      <3> HIDE DEF g
      <3>1. {} \in SUBSET fit
        OBVIOUS
      <3> QED BY <1>6, <1>8, <3>1, StepByStep
    <2>2. PICK f : Built(n, SUBSET fit, {}, g, f)
      BY <2>1
    <2>3. f \in [0 .. n -> SUBSET fit] /\ f[0] = {}
      BY <2>2 DEF Built
    <2>4. \A k \in 1 .. n : f[k] = Taken(k, f[k - 1])
      <3> TAKE k \in 1 .. n
      <3>1. f[k] = g[k][f[k - 1]]
        <4> HIDE DEF g
        <4> QED BY <2>2 DEF Built
      <3>2. f[k - 1] \in SUBSET fit
        BY <1>6, <2>3
      <3> QED BY <3>1, <3>2
    <2>5. \A k \in 0 .. n : f[k] = full(f)[k]
      BY <2>3, <2>4
    <2>6. f = full(f)
      BY <2>3, <2>5
    <2> QED BY <2>6
  <1>10. e = full(e)
    BY <1>9
  <1> HIDE DEF e
  <1>11. e[0] = {} /\ \A k \in 1 .. n : e[k] = Taken(k, e[k - 1])
    <2>1. \A k \in 0 .. n : e[k] = IF k = 0 THEN {} ELSE Taken(k, e[k - 1])
      BY <1>10
    <2> QED BY <1>6, <2>1
  <1>12. \A k \in 0 .. n : e[k] \in SUBSET fit
    <2>1. e[0] \in SUBSET fit
      BY <1>11
    <2>2. \A k \in 1 .. n : e[k - 1] \in SUBSET fit => e[k] \in SUBSET fit
      BY <1>7, <1>11
    <2> QED BY <1>6, <2>1, <2>2, StaysIn
  <1>13. e[n] \in SUBSET fit
    BY <1>6, <1>12
  <1> QED BY <1>1, <1>5, <1>13

\* A part of what is not negative is not negative.
LEMMA QuotientIs ==
    ASSUME NEW a \in Int, NEW d \in Int, a >= 0, d > 0
    PROVE  a \div d \in Int /\ a \div d >= 0
  OBVIOUS

\* Shared out, every leg that may be told has some time to be told in.
LEMMA SharesAre ==
    ASSUME NEW n \in Nat, NEW weight \in [1 .. n -> Nat], NEW capacity \in [1 .. n -> Int],
           NEW legs \in SUBSET (1 .. n), NEW total \in Int,
           \A k \in legs : weight[k] > 0 /\ capacity[k] > 0
    PROVE  \A k \in legs : Shares(legs, weight, capacity, total)[k] \in Int
                           /\ Shares(legs, weight, capacity, total)[k] > 0
  <1> DEFINE all == Total(weight, legs)
             start == [k \in DOMAIN weight |-> IF k \in legs THEN More((total * weight[k]) \div all, HoldFor(3)) ELSE 0]
             TooMuch(s) == {k \in s.open : s.target[k] > capacity[k]}
             Spill(s) == Total([k \in DOMAIN weight |-> s.target[k] - capacity[k]], TooMuch(s))
             Share(s) == Total(weight, s.open \ TooMuch(s))
             Round(s) ==
               [open |-> s.open \ TooMuch(s),
                target |-> [k \in DOMAIN weight |->
                              CASE k \in TooMuch(s) -> capacity[k]
                                [] k \in s.open \ TooMuch(s) -> s.target[k] + ((Spill(s) * weight[k]) \div Share(s))
                                [] OTHER -> s.target[k]]]
             first == [open |-> legs, target |-> start]
             last == Cardinality(legs)
             full(h) == [k \in 0 .. last |-> IF k = 0 THEN first ELSE Round(h[k - 1])]
             e == CHOOSE h : h = full(h)
             Sound == {s \in [open : SUBSET legs, target : [1 .. n -> Int]] : \A k \in legs : s.target[k] > 0}
             g == [k \in 1 .. last |-> [s \in Sound |-> Round(s)]]
  <1>1. Shares(legs, weight, capacity, total) = e[last].target
    BY DEF Shares
  <1>2. DOMAIN weight = 1 .. n /\ Len(weight) = n /\ weight \in [1 .. n -> Int]
    BY ListOf
  <1>3. IsFiniteSet(legs) /\ last \in Nat
    <2>1. IsFiniteSet(1 .. n)
      BY FS_Interval
    <2> QED BY <2>1, FS_Subset, FS_CardinalityType
  <1>4. \A S : Total(weight, S) \in Int /\ \A k \in 1 .. n : k \in S => Total(weight, S) >= weight[k]
    <2> SUFFICES ASSUME NEW S
                 PROVE  Total(weight, S) \in Int /\ \A k \in 1 .. n : k \in S => Total(weight, S) >= weight[k]
      OBVIOUS
    <2>1. Len(weight) \in Nat /\ weight \in [1 .. Len(weight) -> Int]
          /\ \A k \in 1 .. Len(weight) : k \in S => weight[k] >= 0
      BY <1>2
    <2> QED BY <1>2, <2>1, TotalIs
  <1>5. first \in Sound
    <2>1. ASSUME NEW k \in 1 .. n
          PROVE  start[k] \in Int /\ (k \in legs => start[k] > 0)
      <3>1. start[k] = IF k \in legs THEN More((total * weight[k]) \div all, HoldFor(3)) ELSE 0
        BY <1>2
      <3>2. CASE k \notin legs
        BY <3>1, <3>2
      <3>3. CASE k \in legs
        <4>1. all \in Int /\ all > 0
          BY <1>4, <3>3
        <4>2. total * weight[k] \in Int
          OBVIOUS
        <4>3. (total * weight[k]) \div all \in Int
          <5> HIDE DEF all
          <5> QED BY <4>1, <4>2
        <4>4. HoldFor(3) \in {20, 16, 12}
          BY HoldsAre
        <4> DEFINE x == (total * weight[k]) \div all
        <4>5. x \in Int
          BY <4>3
        <4> HIDE DEF x
        <4>6. More(x, HoldFor(3)) \in Int /\ More(x, HoldFor(3)) > 0
          BY <4>4, <4>5 DEF More
        <4> HIDE DEF start
        <4> QED BY <3>1, <3>3, <4>6 DEF x
      <3> QED BY <3>2, <3>3
    <2>2. start \in [1 .. n -> Int]
      <3>1. start = [k \in 1 .. n |-> start[k]]
        BY <1>2
      <3> HIDE DEF start
      <3> QED BY <2>1, <3>1
    <2> HIDE DEF start
    <2>3. first \in [open : SUBSET legs, target : [1 .. n -> Int]]
      BY <2>2
    <2> QED BY <2>1, <2>3
  <1>6. ASSUME NEW s \in Sound PROVE Round(s) \in Sound
    <2>1. s.open \in SUBSET legs /\ s.target \in [1 .. n -> Int] /\ \A k \in legs : s.target[k] > 0
      OBVIOUS
    <2> DEFINE over == TooMuch(s)
               rest == s.open \ TooMuch(s)
               spare == [k \in DOMAIN weight |-> s.target[k] - capacity[k]]
               spill == Spill(s)
               share == Share(s)
               target == Round(s).target
    <2>2. over \in SUBSET legs /\ rest \in SUBSET legs /\ \A k \in over : s.target[k] > capacity[k]
      BY <2>1
    <2>3. spill \in Int /\ spill >= 0
      <3>1. spare \in [1 .. n -> Int]
        BY <1>2, <2>1
      <3>2. Len(spare) = n
        BY <3>1, ListOf
      <3>3. \A k \in 1 .. n : k \in over => spare[k] >= 0
        BY <1>2, <2>1, <2>2
      <3>4. spill = Total(spare, over)
        OBVIOUS
      <3> HIDE DEF spare, over, spill
      <3> QED BY <3>1, <3>2, <3>3, <3>4, TotalIs
    <2>4. share \in Int /\ \A k \in rest : share >= weight[k]
      BY <1>4, <2>2
    <2>5. \A k \in 1 .. n : target[k] = CASE k \in over -> capacity[k]
                                          [] k \in rest -> s.target[k] + ((spill * weight[k]) \div share)
                                          [] OTHER -> s.target[k]
      BY <1>2
    <2>6. target = [k \in 1 .. n |-> target[k]] /\ Round(s) = [open |-> rest, target |-> target]
      BY <1>2
    <2>7. over \cap rest = {}
      OBVIOUS
    <2> HIDE DEF over, rest, spill, share, target
    <2>8. ASSUME NEW k \in 1 .. n
          PROVE  target[k] \in Int /\ (k \in legs => target[k] > 0)
      <3>1. CASE k \in over
        <4>1. target[k] = capacity[k]
          BY <2>5, <2>7, <3>1
        <4> QED BY <2>2, <3>1, <4>1
      <3>2. CASE k \in rest
        <4> DEFINE x == (spill * weight[k]) \div share
        <4>1. weight[k] > 0 /\ weight[k] \in Int /\ share > 0 /\ k \in legs
          BY <2>2, <2>4, <3>2
        <4>2. spill * weight[k] \in Int /\ spill * weight[k] >= 0
          BY <2>3, <4>1
        <4>3. x \in Int /\ x >= 0
          BY <2>4, <4>1, <4>2, QuotientIs
        <4>4. target[k] = s.target[k] + x
          BY <2>5, <2>7, <3>2
        <4> HIDE DEF x
        <4> QED BY <2>1, <4>1, <4>3, <4>4
      <3>3. CASE k \notin over /\ k \notin rest
        <4>1. target[k] = s.target[k]
          BY <2>5, <3>3
        <4> QED BY <2>1, <4>1
      <3> QED BY <3>1, <3>2, <3>3
    <2>9. target \in [1 .. n -> Int]
      BY <2>6, <2>8
    <2>10. Round(s) \in [open : SUBSET legs, target : [1 .. n -> Int]] /\ \A k \in legs : Round(s).target[k] > 0
      <3> HIDE DEF Round
      <3>1. Round(s).target = target
        BY <2>6
      <3> QED BY <2>2, <2>6, <2>8, <2>9, <3>1
    <2> HIDE DEF Round
    <2> QED BY <2>10
  <1> HIDE DEF first, Round, Sound, last
  <1>7. g \in [1 .. last -> [Sound -> Sound]]
    BY <1>6
  <1>8. \E h : h = full(h)
    <2>1. \E f : Built(last, Sound, first, g, f)
      <3> HIDE DEF g
      <3> QED BY <1>3, <1>5, <1>7, StepByStep
    <2>2. PICK f : Built(last, Sound, first, g, f)
      BY <2>1
    <2>3. f \in [0 .. last -> Sound] /\ f[0] = first
      BY <2>2 DEF Built
    <2>4. \A k \in 1 .. last : f[k] = Round(f[k - 1])
      <3> TAKE k \in 1 .. last
      <3>1. f[k] = g[k][f[k - 1]]
        <4> HIDE DEF g
        <4> QED BY <2>2 DEF Built
      <3>2. f[k - 1] \in Sound
        BY <1>3, <2>3
      <3> QED BY <3>1, <3>2
    <2>5. \A k \in 0 .. last : f[k] = full(f)[k]
      BY <2>3, <2>4
    <2>6. f = full(f)
      BY <2>3, <2>5
    <2> QED BY <2>6
  <1>9. e = full(e)
    BY <1>8
  <1> HIDE DEF e
  <1>10. e[0] = first /\ \A k \in 1 .. last : e[k] = Round(e[k - 1])
    <2>1. \A k \in 0 .. last : e[k] = IF k = 0 THEN first ELSE Round(e[k - 1])
      BY <1>9
    <2> QED BY <1>3, <2>1
  <1>11. \A k \in 0 .. last : e[k] \in Sound
    <2>1. e[0] \in Sound
      BY <1>5, <1>10
    <2>2. \A k \in 1 .. last : e[k - 1] \in Sound => e[k] \in Sound
      BY <1>6, <1>10
    <2> QED BY <1>3, <2>1, <2>2, StaysIn
  <1>12. e[last] \in Sound
    BY <1>3, <1>11
  <1> QED BY <1>1, <1>12 DEF Sound

-----------------------------------------------------------------------------
(* The invariant.                                                          *)

Allowed(w)    == ~Refused(w) /\ w \in WithinRide
Done          == IF phase = "leg" THEN leg.at - 1 ELSE leg.at
TooNear(v, w) == Gap(v, w, Lengths) < Separation
SameLeg(v, w) == \E n \in Legs : InLeg(v, n) /\ InLeg(w, n)
Filling(n)    == {w \in WithinRide : InLeg(w, n)}
NearAnother(w) == \E t \in (chosen \cup Required) \ {w} : TooNear(w, t)
LegIsTold(n)  ==
    \A w \in Filling(n) : Refused(w) \/ NearAnother(w) \/ \E t \in chosen : InLeg(t, n)

Choosing == {"moments", "places", "opening", "share"}

ChoiceTypes ==
    /\ ride \in Rides /\ ride.record
    /\ phase \in Choosing \cup {"legs", "leg", "footage", "nothing"}
    /\ leg \in [at : Int, pool : SUBSET Windows, taken : SUBSET Windows, target : Int]
    /\ leg.at \in 0 .. Len(ride.legs)
    /\ phase \in Choosing => chosen = {} /\ leg = NoLeg
    /\ phase \in Choosing \ {"share"} => opening = {}
    /\ phase = "leg" => leg.at \in Legs
    /\ phase \in {"footage", "nothing"} => leg.at = Len(ride.legs)

\* The opening was picked from what the floors let through.
OpeningIsFit == \A w \in opening : w \in Windows /\ FloorReason(w) = "none"

\* Every leg with a window has time of its own.
TimeIsShared ==
    phase \in {"legs", "leg"} => \A n \in Legs : Filling(n) # {} => targets[n] \in Int /\ targets[n] > 0

\* What a leg is chosen from, and what it has taken.
LegIsFit ==
    /\ \A w \in leg.pool \cup leg.taken : w \in Windows /\ Allowed(w) /\ InLeg(w, leg.at)
    /\ leg.pool \cap leg.taken = {}
    /\ phase = "leg" => leg.target > 0 /\ leg.pool # {}
    /\ phase # "leg" => leg.taken \subseteq chosen

\* What was chosen is of a leg that is done.
ChosenAreFit ==
    \A w \in chosen : w \in Windows /\ Allowed(w) /\ \E n \in Legs : n <= Done /\ InLeg(w, n)

\* What is chosen for itself stands clear of what the film must carry elsewhere,
\* and a leg takes what it must carry first.
RequiredApart ==
    /\ \A t \in (chosen \cup leg.taken) \ Required : \A r \in Required \cap WithinRide :
          SameLeg(t, r) \/ ~TooNear(t, r)
    /\ phase = "leg" /\ leg.pool \cap Required # {} => leg.taken \subseteq Required

\* The legs that are done are told, and the one at hand has taken a window unless
\* all of its windows are still to be considered, refused or too near another.
LegsAreTold ==
    /\ \A n \in Legs : n <= Done => LegIsTold(n)
    /\ phase = "leg" =>
          \A w \in Filling(leg.at) : Refused(w) \/ w \in leg.pool \/ leg.taken # {} \/ NearAnother(w)

Chosen == ChoiceTypes /\ OpeningIsFit /\ TimeIsShared /\ LegIsFit /\ ChosenAreFit
          /\ RequiredApart /\ LegsAreTold /\ KeptApart

Resting == ride \in Rides /\ ~ride.record /\ phase = "confirmed" /\ chosen = {} /\ leg = NoLeg

-----------------------------------------------------------------------------
(* What the steps of a leg leave alone.                                    *)

LEMMA FrozenIs ==
    ASSUME UNCHANGED <<ride, proven, fixed, places, opening>>
    PROVE  /\ Windows' = Windows /\ Legs' = Legs /\ Lengths' = Lengths
           /\ WithinRide' = WithinRide /\ Required' = Required /\ Pinned' = Pinned
           /\ \A w, n : InLeg(w, n)' <=> InLeg(w, n)
           /\ \A w : (Refused(w)' <=> Refused(w)) /\ (Allowed(w)' <=> Allowed(w))
           /\ \A w : FloorReason(w)' = FloorReason(w)
           /\ \A v, w : (TooNear(v, w)' <=> TooNear(v, w)) /\ Gap(v, w, Lengths)' = Gap(v, w, Lengths)
           /\ \A v, w : SameLeg(v, w)' <=> SameLeg(v, w)
           /\ \A n : Filling(n)' = Filling(n)
  <1>1. Windows' = Windows /\ Legs' = Legs /\ \A w : W(w)' = W(w)
    BY DEF Windows, Legs, W
  <1>2. Pinned' = Pinned /\ Required' = Required
    BY DEF Pinned, Required
  <1>3. \A w, n : InLeg(w, n)' <=> InLeg(w, n)
    BY DEF InLeg, W
  <1>4. \A w : FloorReason(w)' = FloorReason(w) /\ (Standing(w)' <=> Standing(w)) /\ (Residence(w)' <=> Residence(w))
    BY DEF FloorReason, Standing, Residence, W, Score, FillsFrame
  <1>5. \A w : Refused(w)' <=> Refused(w)
    BY <1>2, <1>4 DEF Refused
  <1>6. WithinRide' = WithinRide
    BY DEF WithinRide, Windows, Pinned, Ats, W
  <1>7. Lengths' = Lengths
    BY DEF Lengths, Windows, Paced, Pinned, W, RankTier
  <1>8. \A v, w : Gap(v, w, Lengths)' = Gap(v, w, Lengths)
    BY <1>7 DEF Gap, W
  <1>9. \A w : Allowed(w)' <=> Allowed(w)
    BY <1>5, <1>6 DEF Allowed
  <1>10. \A v, w : TooNear(v, w)' <=> TooNear(v, w)
    BY <1>8 DEF TooNear
  <1>11. \A v, w : SameLeg(v, w)' <=> SameLeg(v, w)
    BY <1>1, <1>3 DEF SameLeg
  <1>12. \A n : Filling(n)' = Filling(n)
    BY <1>3, <1>6 DEF Filling
  <1> QED BY <1>1, <1>2, <1>3, <1>4, <1>5, <1>6, <1>7, <1>8, <1>9, <1>10, <1>11, <1>12

LEMMA ChoiceBegins == ChoiceInit => Resting \/ Chosen
  <1> SUFFICES ASSUME ChoiceInit PROVE Resting \/ Chosen
    OBVIOUS
  <1>1. ride \in Rides /\ ride.record \in BOOLEAN
    BY RidesAssumption DEF ChoiceInit
  <1>2. CASE ~ride.record
    BY <1>1, <1>2 DEF Resting, ChoiceInit
  <1>3. CASE ride.record
    <2>1. phase = "moments" /\ chosen = {} /\ opening = {} /\ leg = NoLeg
      BY <1>3 DEF ChoiceInit
    <2>2. Len(ride.legs) \in Nat /\ Legs = 1 .. Len(ride.legs)
      BY <1>1, <1>3, RideIs
    <2>3. leg.at = 0 /\ leg.pool = {} /\ leg.taken = {} /\ leg.target = 0
      BY <2>1 DEF NoLeg
    <2>4. Done = 0
      BY <2>1, <2>3 DEF Done
    <2>5. leg \in [at : Int, pool : SUBSET Windows, taken : SUBSET Windows, target : Int]
      BY <2>1 DEF NoLeg
    <2> QED BY <1>1, <1>3, <2>1, <2>2, <2>3, <2>4, <2>5
            DEF Chosen, ChoiceTypes, OpeningIsFit, TimeIsShared, LegIsFit, ChosenAreFit, RequiredApart,
                LegsAreTold, KeptApart, Choosing
  <1> QED BY <1>1, <1>2, <1>3

\* Up to the sharing nothing is chosen.
LEMMA NothingChosenYet ==
    ASSUME Chosen, phase \in Choosing, UNCHANGED <<ride, leg, chosen>>,
           \/ phase' \in Choosing \ {"share"} /\ opening' = {}
           \/ phase' = "share" /\ OpeningIsFit'
           \/ phase' = "legs" /\ OpeningIsFit' /\ TimeIsShared'
    PROVE  Chosen'
  <1>1. ride \in Rides /\ ride.record /\ chosen = {} /\ leg = NoLeg
    BY DEF Chosen, ChoiceTypes
  <1>2. Len(ride.legs) \in Nat /\ Legs = 1 .. Len(ride.legs) /\ Legs' = Legs
    BY <1>1, RideIs DEF Legs
  <1>3. /\ leg'.at = 0 /\ leg'.pool = {} /\ leg'.taken = {} /\ leg'.target = 0
        /\ leg' = NoLeg' /\ chosen' = {} /\ ride' \in Rides /\ ride'.record
    BY <1>1 DEF NoLeg
  <1>4. Done' = 0 /\ phase' # "leg"
    BY <1>3 DEF Done, Choosing
  <1>5. ChoiceTypes'
    <2>1. leg' \in [at : Int, pool : SUBSET Windows', taken : SUBSET Windows', target : Int]
      BY <1>1 DEF NoLeg
    <2> QED BY <1>2, <1>3, <1>4, <2>1 DEF ChoiceTypes, Choosing
  <1>6. OpeningIsFit'
    BY DEF OpeningIsFit
  <1>7. TimeIsShared'
    BY DEF TimeIsShared, Choosing
  <1>8. LegIsFit' /\ ChosenAreFit' /\ RequiredApart' /\ KeptApart'
    BY <1>3, <1>4 DEF LegIsFit, ChosenAreFit, RequiredApart, KeptApart
  <1>9. LegsAreTold'
    BY <1>2, <1>4 DEF LegsAreTold
  <1> QED BY <1>5, <1>6, <1>7, <1>8, <1>9 DEF Chosen

LEMMA ProveMomentsStep == Chosen /\ ProveMoments => Chosen'
  <1> SUFFICES ASSUME Chosen, ProveMoments PROVE Chosen'
    OBVIOUS
  <1>1. /\ phase = "moments" /\ phase' = "places" /\ UNCHANGED <<ride, leg, chosen, opening>>
    BY Zenon DEF ProveMoments
  <1>2. opening = {}
    BY <1>1 DEF Chosen, ChoiceTypes, Choosing
  <1> QED BY <1>1, <1>2, NothingChosenYet DEF Choosing

LEMMA PicturePlacesStep == Chosen /\ PicturePlaces => Chosen'
  <1> SUFFICES ASSUME Chosen, PicturePlaces PROVE Chosen'
    OBVIOUS
  <1>1. /\ phase = "places" /\ phase' = "opening" /\ UNCHANGED <<ride, leg, chosen, opening>>
    BY Zenon DEF PicturePlaces
  <1>2. opening = {}
    BY <1>1 DEF Chosen, ChoiceTypes, Choosing
  <1> QED BY <1>1, <1>2, NothingChosenYet DEF Choosing

LEMMA PickOpeningStep == Chosen /\ PickOpening => Chosen'
  <1> SUFFICES ASSUME Chosen, PickOpening PROVE Chosen'
    OBVIOUS
  <1>1. /\ phase = "opening" /\ phase' = "share" /\ UNCHANGED <<ride, leg, chosen>> /\ opening' = Opening
    BY Zenon DEF PickOpening
  <1>2. \A w \in Opening : w \in Windows /\ FloorReason(w) = "none"
    BY OpeningIs DEF Chosen, ChoiceTypes
  <1>3. Windows' = Windows /\ \A w : FloorReason(w)' = FloorReason(w)
    BY <1>1 DEF Windows, FloorReason, W, Score, FillsFrame
  <1>4. OpeningIsFit'
    BY <1>1, <1>2, <1>3 DEF OpeningIsFit
  <1> QED BY <1>1, <1>4, NothingChosenYet DEF Choosing

LEMMA ShareOutStep == Chosen /\ ShareOut => Chosen'
  <1> SUFFICES ASSUME Chosen, ShareOut PROVE Chosen'
    OBVIOUS
  <1> DEFINE held == [n \in Legs |-> {w \in WithinRide : InLeg(w, n)}]
             told == {n \in Legs : held[n] # {}}
             weight == [n \in Legs |-> Cardinality(held[n])]
             capacity == [n \in Legs |-> IF ride.legs[n].halt THEN HoldFor(3) ELSE Total(Lengths, held[n])]
             carried == Total(Lengths, Required \cap WithinRide)
             allowance == More(Target - carried, HoldFor(3) * Len(ride.legs))
  <1>1. /\ phase = "share" /\ phase' = "legs"
        /\ UNCHANGED <<ride, proven, fixed, places, opening, leg, chosen>>
        /\ targets' = IF told = {} THEN <<>> ELSE Shares(told, weight, capacity, allowance)
    BY Zenon DEF ShareOut
  <1>2. ride \in Rides /\ ride.record
    BY DEF Chosen, ChoiceTypes
  <1> DEFINE m == Len(ride.legs)
  <1>3. m \in Nat /\ Legs = 1 .. m
    BY <1>2, RideIs
  <1>4. \A S : Total(Lengths, S) \in Int /\ \A k \in Windows : k \in S => Total(Lengths, S) >= Lengths[k]
    <2> SUFFICES ASSUME NEW S
                 PROVE  Total(Lengths, S) \in Int /\ \A k \in Windows : k \in S => Total(Lengths, S) >= Lengths[k]
      OBVIOUS
    <2> DEFINE c == Len(ride.windows)
    <2>1. c \in Nat /\ Windows = 1 .. c /\ Lengths \in [1 .. c -> Nat]
      BY <1>2, RideIs, LengthsAre
    <2> HIDE DEF c
    <2>2. Len(Lengths) = c
      BY <2>1, ListOf
    <2>3. Lengths \in [1 .. Len(Lengths) -> Int] /\ \A k \in 1 .. Len(Lengths) : k \in S => Lengths[k] >= 0
      BY <2>1, <2>2
    <2> QED BY <2>1, <2>2, <2>3, TotalIs
  <1>5. \A n \in Legs : held[n] = Filling(n)
    BY DEF Filling
  <1> HIDE DEF m, held
  <1>6. told \in SUBSET (1 .. m) /\ \A n \in Legs : n \in told <=> Filling(n) # {}
    BY <1>3, <1>5
  <1>7. ASSUME NEW n \in Legs
        PROVE  weight[n] \in Nat /\ capacity[n] \in Int /\ (n \in told => weight[n] > 0 /\ capacity[n] > 0)
    <2>1. Filling(n) \subseteq Windows /\ IsFiniteSet(Filling(n))
      <3>1. Filling(n) \subseteq Windows
        BY DEF Filling, WithinRide
      <3> QED BY <1>2, <3>1, RideIs, FS_Subset
    <2>2. weight[n] = Cardinality(Filling(n)) /\ weight[n] \in Nat
      BY <1>5, <2>1, FS_CardinalityType
    <2>3. n \in told => weight[n] > 0
      BY <1>6, <2>1, <2>2, FS_EmptySet
    <2>4. HoldFor(3) \in {20, 16, 12}
      BY HoldsAre
    <2>5. capacity[n] = IF ride.legs[n].halt THEN HoldFor(3) ELSE Total(Lengths, Filling(n))
      BY <1>5
    <2>6. n \in told => Total(Lengths, Filling(n)) > 0
      <3> SUFFICES ASSUME n \in told PROVE Total(Lengths, Filling(n)) > 0
        OBVIOUS
      <3>1. PICK w \in Filling(n) : w \in Windows
        BY <1>6, <2>1
      <3>2. Lengths[w] \in Int /\ Lengths[w] > 0
        BY <1>2, <3>1, LengthsAre
      <3>3. Total(Lengths, Filling(n)) >= Lengths[w] /\ Total(Lengths, Filling(n)) \in Int
        BY <1>4, <3>1
      <3> QED BY <3>2, <3>3
    <2> QED BY <1>4, <2>2, <2>3, <2>4, <2>5, <2>6
  <1>8. weight \in [1 .. m -> Nat] /\ capacity \in [1 .. m -> Int]
    <2>1. weight = [n \in 1 .. m |-> weight[n]] /\ capacity = [n \in 1 .. m |-> capacity[n]]
      BY <1>3
    <2> HIDE DEF weight, capacity
    <2> QED BY <1>3, <1>7, <2>1
  <1>9. allowance \in Int
    <2>1. HoldFor(3) \in {20, 16, 12} /\ carried \in Int
      BY <1>4, HoldsAre
    <2> HIDE DEF carried
    <2> DEFINE a == Target - carried
               b == HoldFor(3) * Len(ride.legs)
    <2>2. a \in Int
      BY <2>1 DEF Target, Second
    <2>3. b \in Int
      BY <1>3, <2>1 DEF m
    <2> HIDE DEF a, b
    <2>4. More(a, b) \in Int
      BY <2>2, <2>3 DEF More
    <2> QED BY <2>4 DEF a, b
  <1> HIDE DEF weight, capacity, allowance, told
  <1>10. \A n \in Legs : Filling(n) # {} => targets'[n] \in Int /\ targets'[n] > 0
    <2> SUFFICES ASSUME NEW n \in Legs, Filling(n) # {} PROVE targets'[n] \in Int /\ targets'[n] > 0
      OBVIOUS
    <2>1. n \in told /\ targets' = Shares(told, weight, capacity, allowance)
      BY <1>1, <1>6
    <2>2. \A k \in told : weight[k] > 0 /\ capacity[k] > 0
      BY <1>3, <1>6, <1>7
    <2> QED BY <1>3, <1>6, <1>8, <1>9, <2>1, <2>2, SharesAre
  <1>11. TimeIsShared'
    <2>1. Legs' = Legs /\ \A n : Filling(n)' = Filling(n)
      BY <1>1, FrozenIs
    <2> QED BY <1>10, <2>1 DEF TimeIsShared
  <1>12. OpeningIsFit'
    <2>1. Windows' = Windows /\ \A w : FloorReason(w)' = FloorReason(w)
      BY <1>1, FrozenIs
    <2> QED BY <1>1, <2>1 DEF OpeningIsFit, Chosen
  <1> QED BY <1>1, <1>11, <1>12, NothingChosenYet DEF Choosing

LEMMA EnterLegStep == Chosen /\ EnterLeg => Chosen'
  <1> SUFFICES ASSUME Chosen, EnterLeg PROVE Chosen'
    OBVIOUS
  <1> DEFINE n == leg.at + 1
             inside == {w \in WithinRide : InLeg(w, n)}
             pool == {w \in inside : ~Refused(w)}
             target == targets[n] + Total(Lengths, inside \cap Required)
  <1>1. /\ phase = "legs" /\ leg.at < Len(ride.legs)
        /\ leg' = IF inside = {} THEN [NoLeg EXCEPT !.at = n]
                  ELSE [at |-> n, pool |-> pool, taken |-> {}, target |-> target]
        /\ phase' = IF leg'.pool = {} THEN "legs" ELSE "leg"
        /\ UNCHANGED <<ride, proven, fixed, places, opening, targets, chosen>>
    BY Zenon DEF EnterLeg
  <1>2. ride \in Rides /\ ride.record /\ leg.at \in 0 .. Len(ride.legs)
    BY DEF Chosen, ChoiceTypes
  <1>3. Len(ride.legs) \in Nat /\ Legs = 1 .. Len(ride.legs)
    BY <1>2, RideIs
  <1>4. n \in Legs /\ n \in 0 .. Len(ride.legs) /\ n \in Nat /\ leg.at = n - 1
    BY <1>1, <1>2, <1>3
  <1> HIDE DEF n
  <1>5. inside = Filling(n)
    BY DEF Filling
  <1> HIDE DEF inside
  <1>6. inside # {} => target \in Int /\ target > 0
    <2> SUFFICES ASSUME inside # {} PROVE target \in Int /\ target > 0
      OBVIOUS
    <2>1. targets[n] \in Int /\ targets[n] > 0
      BY <1>1, <1>4, <1>5 DEF Chosen, TimeIsShared
    <2> DEFINE S == inside \cap Required
    <2> HIDE DEF S
    <2>2. Total(Lengths, S) \in Int /\ Total(Lengths, S) >= 0
      <3>1. Lengths \in [1 .. Len(ride.windows) -> Nat] /\ Len(ride.windows) \in Nat
        BY <1>2, RideIs, LengthsAre
      <3>2. Len(Lengths) = Len(ride.windows)
        BY <3>1, ListOf
      <3>3. Len(Lengths) \in Nat /\ Lengths \in [1 .. Len(Lengths) -> Int]
            /\ \A k \in 1 .. Len(Lengths) : k \in S => Lengths[k] >= 0
        BY <3>1, <3>2
      <3> QED BY <3>3, TotalIs
    <2> QED BY <2>1, <2>2 DEF S
  <1> HIDE DEF target
  <1>7. /\ leg'.at = n /\ leg'.taken = {} /\ leg'.target \in Int
        /\ leg'.pool = pool
        /\ pool # {} => leg'.target > 0
        /\ leg' \in [at : Int, pool : SUBSET Windows, taken : SUBSET Windows, target : Int]
    <2>1. pool \subseteq Windows
      BY DEF WithinRide, inside
    <2>2. CASE inside = {}
      <3>1. leg' = [at |-> n, pool |-> {}, taken |-> {}, target |-> 0]
        BY <1>1, <2>2 DEF NoLeg
      <3> QED BY <1>4, <2>2, <3>1
    <2>3. CASE inside # {}
      <3>1. leg' = [at |-> n, pool |-> pool, taken |-> {}, target |-> target]
        BY <1>1, <2>3
      <3> HIDE DEF pool
      <3> QED BY <1>4, <1>6, <2>1, <2>3, <3>1
    <2> QED BY <2>2, <2>3
  <1>8. \A w : w \in pool <=> w \in Filling(n) /\ ~Refused(w)
    BY <1>5
  <1> HIDE DEF pool
  <1>9. /\ Windows' = Windows /\ Legs' = Legs /\ Lengths' = Lengths
        /\ WithinRide' = WithinRide /\ Required' = Required
        /\ \A w, l : InLeg(w, l)' <=> InLeg(w, l)
        /\ \A w : (Refused(w)' <=> Refused(w)) /\ (Allowed(w)' <=> Allowed(w))
        /\ \A w : FloorReason(w)' = FloorReason(w)
        /\ \A v, w : (TooNear(v, w)' <=> TooNear(v, w)) /\ Gap(v, w, Lengths)' = Gap(v, w, Lengths)
        /\ \A v, w : SameLeg(v, w)' <=> SameLeg(v, w)
        /\ \A l : Filling(l)' = Filling(l)
    BY <1>1, FrozenIs
  <1>10. chosen' = chosen /\ ride' = ride /\ targets' = targets /\ opening' = opening
    BY <1>1
  <1>11. /\ pool = {} => phase' = "legs" /\ Done' = n
         /\ pool # {} => phase' = "leg" /\ Done' = n - 1
    BY <1>1, <1>7 DEF Done
  <1>12. Done = n - 1
    BY <1>1, <1>4 DEF Done
  <1>13. ChoiceTypes'
    BY <1>2, <1>4, <1>7, <1>9, <1>10, <1>11 DEF ChoiceTypes, Choosing
  <1>14. OpeningIsFit'
    BY <1>9, <1>10 DEF OpeningIsFit, Chosen
  <1>15. TimeIsShared'
    BY <1>1, <1>9, <1>10 DEF TimeIsShared, Chosen
  <1>16. LegIsFit'
    <2>1. \A w \in pool : w \in Windows /\ Allowed(w) /\ InLeg(w, n)
      BY <1>8 DEF Filling, Allowed, WithinRide
    <2> QED BY <1>7, <1>9, <1>11, <2>1 DEF LegIsFit
  <1>17. ChosenAreFit'
    <2>1. \A l \in Legs : l <= Done => l <= Done'
      BY <1>3, <1>4, <1>11, <1>12
    <2> QED BY <1>9, <1>10, <2>1 DEF ChosenAreFit, Chosen
  <1>18. RequiredApart'
    <2>1. \A t \in chosen \ Required : \A r \in Required \cap WithinRide : SameLeg(t, r) \/ ~TooNear(t, r)
      BY DEF Chosen, RequiredApart
    <2> QED BY <1>7, <1>9, <1>10, <2>1 DEF RequiredApart
  <1>19. LegsAreTold'
    <2>1. \A w : NearAnother(w)' <=> NearAnother(w)
      BY <1>9, <1>10 DEF NearAnother
    <2>2. \A l : LegIsTold(l)' <=> LegIsTold(l)
      BY <1>9, <1>10, <2>1 DEF LegIsTold
    <2>3. \A l \in Legs : l <= n - 1 => LegIsTold(l)
      BY <1>12 DEF Chosen, LegsAreTold
    <2>4. pool = {} => LegIsTold(n)
      BY <1>8 DEF LegIsTold
    <2>5. \A l \in Legs : l <= Done' => LegIsTold(l)
      <3>1. \A l \in Legs : l <= n => l <= n - 1 \/ l = n
        BY <1>3, <1>4
      <3> QED BY <1>11, <2>3, <2>4, <3>1
    <2>6. \A w \in Filling(n) : Refused(w) \/ w \in pool
      BY <1>8
    <2> QED BY <1>7, <1>9, <2>2, <2>5, <2>6 DEF LegsAreTold
  <1>20. KeptApart'
    <2>1. \A v, w \in chosen : v # w =>
             Gap(v, w, Lengths) > 0 /\ (Gap(v, w, Lengths) >= Separation \/ {v, w} \subseteq Required)
      BY DEF Chosen, KeptApart
    <2> QED BY <1>7, <1>9, <1>10, <2>1 DEF KeptApart
  <1> QED BY <1>13, <1>14, <1>15, <1>16, <1>17, <1>18, <1>19, <1>20 DEF Chosen

\* What is considered in a leg, taken or left, keeps the choice sound: what is
\* taken must stand clear of what the leg took and of what is shown elsewhere.
LEMMA TakingKeeps ==
    ASSUME Chosen, phase = "leg", NEW pick \in leg.pool, NEW good \in BOOLEAN,
           leg' = Took(pick, good),
           IF Leave(leg') = "done" THEN phase' = "legs" /\ chosen' = chosen \cup leg'.taken
           ELSE UNCHANGED <<phase, chosen>>,
           UNCHANGED <<ride, proven, fixed, places, opening, targets>>,
           good => \A t \in leg.taken \cup Elsewhere(leg.at) :
                      Gap(pick, t, Lengths) > 0 /\ (pick \in Required \/ Gap(pick, t, Lengths) >= Separation),
           pick \in Required \/ leg.pool \cap Required = {},
           ~good /\ leg.taken = {} => \E t \in Elsewhere(leg.at) : TooNear(pick, t)
    PROVE  Chosen'
  <1> DEFINE n == leg.at
             added == IF good THEN {pick} ELSE {}
             done == Leave(leg') = "done"
  <1>1. /\ ride \in Rides /\ ride.record /\ n \in Legs
        /\ leg \in [at : Int, pool : SUBSET Windows, taken : SUBSET Windows, target : Int]
    BY DEF Chosen, ChoiceTypes
  <1>2. Len(ride.legs) \in Nat /\ Legs = 1 .. Len(ride.legs)
    BY <1>1, RideIs
  <1>3. /\ leg'.at = n /\ leg'.target = leg.target
        /\ leg'.pool = leg.pool \ {pick} /\ leg'.taken = leg.taken \cup added
        /\ leg' \in [at : Int, pool : SUBSET Windows, taken : SUBSET Windows, target : Int]
    <2>1. leg' = [leg EXCEPT !.pool = @ \ {pick}, !.taken = IF good THEN @ \cup {pick} ELSE @]
      BY DEF Took
    <2>2. (IF good THEN leg.taken \cup {pick} ELSE leg.taken) = leg.taken \cup added
      OBVIOUS
    <2>3. leg.taken \cup added \subseteq Windows /\ leg.pool \ {pick} \subseteq Windows
      BY <1>1
    <2> HIDE DEF added
    <2>4. leg' = [at |-> leg.at, pool |-> leg.pool \ {pick}, taken |-> leg.taken \cup added, target |-> leg.target]
      BY <1>1, <2>1, <2>2
    <2> QED BY <1>1, <2>3, <2>4
  <1>4. /\ Windows' = Windows /\ Legs' = Legs /\ Lengths' = Lengths
        /\ WithinRide' = WithinRide /\ Required' = Required
        /\ \A w, l : InLeg(w, l)' <=> InLeg(w, l)
        /\ \A w : (Refused(w)' <=> Refused(w)) /\ (Allowed(w)' <=> Allowed(w))
        /\ \A w : FloorReason(w)' = FloorReason(w)
        /\ \A v, w : (TooNear(v, w)' <=> TooNear(v, w)) /\ Gap(v, w, Lengths)' = Gap(v, w, Lengths)
        /\ \A v, w : SameLeg(v, w)' <=> SameLeg(v, w)
        /\ \A l : Filling(l)' = Filling(l)
    BY FrozenIs
  <1>5. /\ done => phase' = "legs" /\ chosen' = chosen \cup leg.taken \cup added
        /\ ~done => phase' = "leg" /\ chosen' = chosen
    BY <1>3
  <1>6. done => leg'.pool = {} \/ leg'.taken # {}
    <2> SUFFICES ASSUME done, leg'.taken = {} PROVE leg'.pool = {}
      OBVIOUS
    <2>1. leg'.pool = {} \/ (Spent(leg') >= leg'.target /\ leg'.pool \cap Required = {})
      <3>1. done
        OBVIOUS
      <3> QED BY <3>1, Zenon DEF Leave
    <2>2. Spent(leg') = 0
      <3>1. Lengths \in [1 .. Len(ride.windows) -> Nat] /\ Len(ride.windows) \in Nat
        BY <1>1, RideIs, LengthsAre
      <3>2. Len(Lengths) = Len(ride.windows)
        BY <3>1, ListOf
      <3>3. Len(Lengths) \in Nat /\ Lengths \in [1 .. Len(Lengths) -> Int]
        BY <3>1, <3>2
      <3>4. Total(Lengths, {}) = 0
        BY <3>3, TotalIs
      <3> QED BY <3>4 DEF Spent
    <2>3. leg.target > 0 /\ leg.target \in Int
      BY <1>1 DEF Chosen, LegIsFit
    <2> QED BY <1>3, <2>1, <2>2, <2>3
  <1> HIDE DEF done
  <1>7. /\ \A w \in leg.pool \cup leg.taken : w \in Windows /\ Allowed(w) /\ InLeg(w, n)
        /\ leg.pool \cap leg.taken = {} /\ leg.target > 0
    BY DEF Chosen, LegIsFit
  <1>8. pick \in Windows /\ Allowed(pick) /\ InLeg(pick, n) /\ pick \in WithinRide
    BY <1>7 DEF Allowed
  <1>9. Done = n - 1 /\ (done => Done' = n) /\ (~done => Done' = n - 1)
    BY <1>3, <1>5 DEF Done
  <1>10. \A w \in chosen : w \in Windows /\ Allowed(w) /\ \E l \in Legs : l <= n - 1 /\ InLeg(w, l)
    BY <1>9 DEF Chosen, ChosenAreFit
  <1>11. \A w \in chosen : w \in Windows /\ ~InLeg(w, n)
    <2> SUFFICES ASSUME NEW w \in chosen, InLeg(w, n) PROVE FALSE
      BY <1>10
    <2>1. PICK l \in Legs : l <= n - 1 /\ InLeg(w, l)
      BY <1>10
    <2>2. l = n
      BY <1>1, <1>10, <2>1, OneLeg
    <2> QED BY <1>1, <1>2, <2>1, <2>2
  <1>12. Elsewhere(n) = {w \in Required \cap WithinRide : ~InLeg(w, n)} \cup chosen
    BY DEF Elsewhere
  <1>13. ChoiceTypes'
    BY <1>1, <1>2, <1>3, <1>4, <1>5 DEF Chosen, ChoiceTypes, Choosing
  <1>14. OpeningIsFit'
    BY <1>4 DEF OpeningIsFit, Chosen
  <1>15. TimeIsShared'
    BY <1>4 DEF TimeIsShared, Chosen
  <1>16. LegIsFit'
    <2>1. \A w \in leg'.pool \cup leg'.taken : w \in Windows /\ Allowed(w) /\ InLeg(w, n)
      BY <1>3, <1>7, <1>8
    <2>2. leg'.pool \cap leg'.taken = {}
      BY <1>3, <1>7
    <2>3. ~done => leg'.pool # {}
      BY DEF Leave, done
    <2>4. done => leg'.taken \subseteq chosen'
      BY <1>3, <1>5
    <2> QED BY <1>3, <1>4, <1>5, <1>7, <2>1, <2>2, <2>3, <2>4 DEF LegIsFit
  <1>17. ChosenAreFit'
    <2>1. \A w \in chosen : \E l \in Legs : l <= Done' /\ InLeg(w, l)
      <3> SUFFICES ASSUME NEW w \in chosen PROVE \E l \in Legs : l <= Done' /\ InLeg(w, l)
        OBVIOUS
      <3>1. PICK l \in Legs : l <= n - 1 /\ InLeg(w, l)
        BY <1>10
      <3>2. l <= Done'
        BY <1>1, <1>2, <1>9, <3>1
      <3> QED BY <3>1, <3>2
    <2>2. \A w \in leg.taken \cup added : w \in Windows /\ Allowed(w) /\ InLeg(w, n)
      BY <1>7, <1>8
    <2>3. done => n \in Legs /\ n <= Done'
      BY <1>1, <1>2, <1>9
    <2>4. \A w \in chosen' : w \in Windows /\ Allowed(w) /\ \E l \in Legs : l <= Done' /\ InLeg(w, l)
      BY <1>5, <1>10, <2>1, <2>2, <2>3
    <2> QED BY <1>4, <2>4 DEF ChosenAreFit
  <1> DEFINE old == chosen \cup leg.taken
  <1>18. chosen' \cup leg'.taken = old \cup added
    BY <1>3, <1>5
  <1>19. \A t \in old \ Required : \A r \in Required \cap WithinRide : SameLeg(t, r) \/ ~TooNear(t, r)
    BY DEF Chosen, RequiredApart
  <1>20. leg.pool \cap Required # {} => leg.taken \subseteq Required
    BY DEF Chosen, RequiredApart
  <1>21. RequiredApart'
    <2>1. ASSUME NEW t \in added, t \notin Required, NEW r \in Required \cap WithinRide
          PROVE  SameLeg(t, r) \/ ~TooNear(t, r)
      <3>1. t = pick /\ good
        BY <2>1
      <3>2. CASE InLeg(r, n)
        BY <1>1, <1>8, <3>1, <3>2 DEF SameLeg
      <3>3. CASE ~InLeg(r, n)
        <4>1. r \in Elsewhere(n)
          BY <1>12, <2>1, <3>3
        <4>2. Gap(pick, r, Lengths) >= Separation
          BY <2>1, <3>1, <4>1
        <4>3. Gap(pick, r, Lengths) \in Int
          BY <1>1, <1>8, <2>1, GapIs DEF WithinRide
        <4> QED BY <3>1, <4>2, <4>3 DEF TooNear, Separation, Second
      <3> QED BY <3>2, <3>3
    <2>2. \A t \in (old \cup added) \ Required : \A r \in Required \cap WithinRide :
             SameLeg(t, r) \/ ~TooNear(t, r)
      BY <1>19, <2>1
    <2>3. phase' = "leg" /\ leg'.pool \cap Required # {} => leg'.taken \subseteq Required
      <3> SUFFICES ASSUME leg'.pool \cap Required # {} PROVE leg'.taken \subseteq Required
        OBVIOUS
      <3>1. leg.pool \cap Required # {}
        BY <1>3
      <3> QED BY <1>3, <1>20, <3>1
    <2> HIDE DEF old, added
    <2> QED BY <1>4, <1>18, <2>2, <2>3 DEF RequiredApart
  <1>22. ~good /\ leg.taken = {} => NearAnother(pick)
    <2> SUFFICES ASSUME ~good, leg.taken = {} PROVE NearAnother(pick)
      OBVIOUS
    <2>1. PICK t \in Elsewhere(n) : TooNear(pick, t)
      OBVIOUS
    <2>2. t \in chosen \cup Required /\ t # pick
      BY <1>8, <1>11, <1>12, <2>1
    <2> QED BY <2>1, <2>2 DEF NearAnother
  <1>23. LegsAreTold'
    <2>1. chosen \subseteq chosen'
      BY <1>5
    <2>2. \A w : NearAnother(w) => NearAnother(w)'
      BY <1>4, <2>1 DEF NearAnother
    <2>3. \A l : LegIsTold(l) => LegIsTold(l)'
      BY <1>4, <2>1, <2>2 DEF LegIsTold
    <2>4. \A l \in Legs : l <= n - 1 => LegIsTold(l)
      BY <1>9 DEF Chosen, LegsAreTold
    <2>5. \A w \in Filling(n) : Refused(w) \/ w \in leg.pool \/ leg.taken # {} \/ NearAnother(w)
      BY DEF Chosen, LegsAreTold
    <2>6. \A w \in Filling(n) : Refused(w) \/ w \in leg'.pool \/ leg'.taken # {} \/ NearAnother(w)
      <3> SUFFICES ASSUME NEW w \in Filling(n), leg'.taken = {}
                   PROVE  Refused(w) \/ w \in leg'.pool \/ NearAnother(w)
        OBVIOUS
      <3>1. leg.taken = {} /\ ~good
        BY <1>3
      <3>2. Refused(w) \/ w \in leg.pool \/ NearAnother(w)
        BY <2>5, <3>1
      <3>3. w \in leg.pool => w \in leg'.pool \/ w = pick
        BY <1>3
      <3> QED BY <1>22, <3>1, <3>2, <3>3
    <2>7. ASSUME NEW l, l = n, done PROVE LegIsTold(l)'
      <3>1. CASE leg'.taken = {}
        <4>1. \A w \in Filling(l) : Refused(w) \/ NearAnother(w)
          BY <1>6, <2>6, <2>7, <3>1
        <4> QED BY <1>4, <2>2, <4>1 DEF LegIsTold
      <3>2. CASE leg'.taken # {}
        <4>1. PICK t : t \in leg'.taken
          BY <3>2
        <4>2. t \in chosen' /\ InLeg(t, l)
          BY <1>3, <1>5, <1>7, <1>8, <2>7, <4>1
        <4> QED BY <1>4, <4>2 DEF LegIsTold
      <3> QED BY <3>1, <3>2
    <2>8. \A l \in Legs : l <= Done' => LegIsTold(l)'
      <3> SUFFICES ASSUME NEW l \in Legs, l <= Done' PROVE LegIsTold(l)'
        OBVIOUS
      <3>1. l <= n - 1 \/ (done /\ l = n)
        BY <1>1, <1>2, <1>9
      <3> QED BY <2>3, <2>4, <2>7, <3>1
    <2> QED BY <1>3, <1>4, <2>2, <2>6, <2>8 DEF LegsAreTold
  <1>24. KeptApart'
    <2> DEFINE Clear(v, w) == Gap(v, w, Lengths) > 0 /\ (Gap(v, w, Lengths) >= Separation \/ {v, w} \subseteq Required)
    <2>1. \A v, w \in old : v # w => Clear(v, w)
      BY DEF Chosen, KeptApart
    <2>2. \A w \in old : w \in Windows
      BY <1>7, <1>11
    <2>3. ASSUME NEW w \in old, good PROVE Clear(pick, w)
      <3>1. Gap(pick, w, Lengths) > 0 /\ (pick \in Required \/ Gap(pick, w, Lengths) >= Separation)
        BY <1>12, <2>3
      <3>2. CASE pick \notin Required
        BY <3>1, <3>2
      <3>3. CASE pick \in Required /\ w \in Required
        BY <3>1, <3>3
      <3>4. CASE pick \in Required /\ w \notin Required
        <4>1. w \in chosen
          BY <1>20, <3>4
        <4>2. SameLeg(w, pick) \/ ~TooNear(w, pick)
          BY <1>8, <1>19, <3>4
        <4>3. ~SameLeg(w, pick)
          <5> SUFFICES ASSUME NEW l \in Legs, InLeg(w, l), InLeg(pick, l) PROVE FALSE
            BY DEF SameLeg
          <5>1. l = n
            BY <1>1, <1>8, OneLeg
          <5> QED BY <1>11, <4>1, <5>1
        <4>4. Gap(w, pick, Lengths) \in Int /\ Gap(w, pick, Lengths) = Gap(pick, w, Lengths)
          BY <1>1, <1>8, <2>2, GapIs
        <4> QED BY <3>1, <4>2, <4>3, <4>4 DEF TooNear, Separation, Second
      <3> QED BY <3>2, <3>3, <3>4
    <2>4. ASSUME NEW w \in old, good PROVE Clear(w, pick)
      <3>1. Gap(w, pick, Lengths) = Gap(pick, w, Lengths)
        BY <1>1, <1>8, <2>2, GapIs
      <3> QED BY <2>3, <2>4, <3>1
    <2>5. \A v, w \in old \cup added : v # w => Clear(v, w)
      <3> SUFFICES ASSUME NEW v \in old \cup added, NEW w \in old \cup added, v # w PROVE Clear(v, w)
        OBVIOUS
      <3> HIDE DEF Clear
      <3>1. v \in old \/ (good /\ v = pick)
        OBVIOUS
      <3>2. w \in old \/ (good /\ w = pick)
        OBVIOUS
      <3> HIDE DEF old, added
      <3> QED BY <2>1, <2>3, <2>4, <3>1, <3>2
    <2> HIDE DEF old, added
    <2> QED BY <1>4, <1>18, <2>5 DEF KeptApart
  <1> QED BY <1>13, <1>14, <1>15, <1>16, <1>17, <1>21, <1>23, <1>24 DEF Chosen

LEMMA TakeRequiredStep == Chosen /\ TakeRequired => Chosen'
  <1> SUFFICES ASSUME Chosen, TakeRequired PROVE Chosen'
    OBVIOUS
  <1> DEFINE pick == First(leg.pool \cap Required, Earliest)
             good == \A t \in leg.taken \cup Elsewhere(leg.at) : Gap(pick, t, Lengths) > 0
  <1>1. /\ phase = "leg" /\ leg.pool \cap Required # {} /\ leg' = Took(pick, good)
        /\ IF Leave(leg') = "done" THEN phase' = "legs" /\ chosen' = chosen \cup leg'.taken
           ELSE UNCHANGED <<phase, chosen>>
        /\ UNCHANGED <<ride, proven, fixed, places, opening, targets, footage>>
    BY Zenon DEF TakeRequired
  <1>2. /\ ride \in Rides /\ ride.record /\ leg.pool \subseteq Windows
        /\ \A w \in chosen \cup leg.taken : w \in Windows
    BY DEF Chosen, ChoiceTypes, LegIsFit, ChosenAreFit
  <1>3. pick \in leg.pool \cap Required
    <2>1. leg.pool \cap Required \in SUBSET Windows
      BY <1>2
    <2> QED BY <1>1, <1>2, <2>1, EarliestIs
  <1>4. \A t \in Elsewhere(leg.at) : t \in Windows
    BY <1>2 DEF Elsewhere, WithinRide
  <1> HIDE DEF pick
  <1>5. \A t \in Elsewhere(leg.at) : Gap(pick, t, Lengths) \in Int
    BY <1>2, <1>3, <1>4, GapIs
  <1>6. good \in BOOLEAN
    OBVIOUS
  <1>7. ~good /\ leg.taken = {} => \E t \in Elsewhere(leg.at) : TooNear(pick, t)
    BY <1>5 DEF TooNear, Separation, Second
  <1>8. good => \A t \in leg.taken \cup Elsewhere(leg.at) :
                   Gap(pick, t, Lengths) > 0 /\ (pick \in Required \/ Gap(pick, t, Lengths) >= Separation)
    BY <1>3
  <1> HIDE DEF good
  <1> QED BY <1>1, <1>3, <1>6, <1>7, <1>8, TakingKeeps

LEMMA TakeBestStep == Chosen /\ TakeBest => Chosen'
  <1> SUFFICES ASSUME Chosen, TakeBest PROVE Chosen'
    OBVIOUS
  <1> DEFINE pick == Pick(leg.pool, leg.taken)
             good == /\ \A t \in leg.taken \cup Elsewhere(leg.at) : Gap(pick, t, Lengths) >= Separation
                     /\ W(pick).halt = 0 \/ \A t \in leg.taken : W(t).halt # W(pick).halt
                     /\ ~LooksAlike(pick, leg.taken)
  <1>1. /\ phase = "leg" /\ leg.pool \cap Required = {} /\ leg' = Took(pick, good)
        /\ IF Leave(leg') = "done" THEN phase' = "legs" /\ chosen' = chosen \cup leg'.taken
           ELSE UNCHANGED <<phase, chosen>>
        /\ UNCHANGED <<ride, proven, fixed, places, opening, targets, footage>>
    BY Zenon DEF TakeBest
  <1>2. /\ ride \in Rides /\ ride.record /\ leg.pool \in SUBSET Windows /\ leg.taken \in SUBSET Windows
        /\ leg.pool # {} /\ \A w \in chosen : w \in Windows
    BY <1>1 DEF Chosen, ChoiceTypes, LegIsFit, ChosenAreFit
  <1>3. pick \in leg.pool
    BY <1>2, PickIs
  <1>4. \A t \in leg.taken \cup Elsewhere(leg.at) : t \in Windows
    BY <1>2 DEF Elsewhere, WithinRide
  <1> HIDE DEF pick
  <1>5. \A t \in leg.taken \cup Elsewhere(leg.at) : Gap(pick, t, Lengths) \in Int
    BY <1>2, <1>3, <1>4, GapIs
  <1>6. good \in BOOLEAN
    OBVIOUS
  <1>7. ~good /\ leg.taken = {} => \E t \in Elsewhere(leg.at) : TooNear(pick, t)
    <2>1. leg.taken = {} => ~LooksAlike(pick, leg.taken)
      <3> DEFINE before == {t \in leg.taken : W(t).start < W(pick).start}
                 after == {t \in leg.taken : W(t).start > W(pick).start}
                 left == First(before, LAMBDA t : <<0 - W(t).start, t>>)
                 right == First(after, LAMBDA t : <<W(t).start, t>>)
                 beside == (IF before = {} THEN {} ELSE {left}) \cup (IF after = {} THEN {} ELSE {right})
      <3>1. leg.taken = {} => before = {} /\ after = {}
        OBVIOUS
      <3>2. LooksAlike(pick, leg.taken) => \E t \in beside : Abs(W(t).look - W(pick).look) < LookAlike
        BY Zenon DEF LooksAlike
      <3>3. leg.taken = {} => beside = {}
        <4> HIDE DEF before, after, left, right
        <4> QED BY <3>1
      <3> HIDE DEF before, after, beside
      <3> QED BY <3>2, <3>3
    <2> QED BY <1>5, <2>1 DEF TooNear, Separation, Second
  <1>8. good => \A t \in leg.taken \cup Elsewhere(leg.at) :
                   Gap(pick, t, Lengths) > 0 /\ (pick \in Required \/ Gap(pick, t, Lengths) >= Separation)
    BY <1>5 DEF Separation, Second
  <1> HIDE DEF good
  <1> QED BY <1>1, <1>3, <1>6, <1>7, <1>8, TakingKeeps

LEMMA HoldFootageStep == Chosen /\ HoldFootage => Chosen'
  <1> SUFFICES ASSUME Chosen, HoldFootage PROVE Chosen'
    OBVIOUS
  <1>1. /\ phase = "legs" /\ leg.at = Len(ride.legs) /\ phase' \in {"footage", "nothing"}
        /\ UNCHANGED <<ride, proven, fixed, places, opening, leg, targets, chosen>>
    BY Zenon DEF HoldFootage
  <1>2. /\ Windows' = Windows /\ Legs' = Legs /\ Lengths' = Lengths
        /\ WithinRide' = WithinRide /\ Required' = Required
        /\ \A w, l : InLeg(w, l)' <=> InLeg(w, l)
        /\ \A w : (Refused(w)' <=> Refused(w)) /\ (Allowed(w)' <=> Allowed(w))
        /\ \A w : FloorReason(w)' = FloorReason(w)
        /\ \A v, w : (TooNear(v, w)' <=> TooNear(v, w)) /\ Gap(v, w, Lengths)' = Gap(v, w, Lengths)
        /\ \A v, w : SameLeg(v, w)' <=> SameLeg(v, w)
        /\ \A l : Filling(l)' = Filling(l)
    BY <1>1, FrozenIs
  <1>3. Done' = Done
    BY <1>1 DEF Done
  <1>4. ChoiceTypes'
    BY <1>1, <1>2 DEF Chosen, ChoiceTypes, Choosing
  <1>5. OpeningIsFit' /\ TimeIsShared'
    BY <1>1, <1>2 DEF Chosen, OpeningIsFit, TimeIsShared
  <1>6. LegIsFit' /\ ChosenAreFit'
    BY <1>1, <1>2, <1>3 DEF Chosen, LegIsFit, ChosenAreFit
  <1>7. RequiredApart' /\ KeptApart'
    BY <1>1, <1>2 DEF Chosen, RequiredApart, KeptApart
  <1>8. LegsAreTold'
    <2>1. \A w : NearAnother(w)' <=> NearAnother(w)
      BY <1>1, <1>2 DEF NearAnother
    <2>2. \A l : LegIsTold(l)' <=> LegIsTold(l)
      BY <1>1, <1>2, <2>1 DEF LegIsTold
    <2> QED BY <1>1, <1>2, <1>3, <2>2 DEF Chosen, LegsAreTold
  <1> QED BY <1>4, <1>5, <1>6, <1>7, <1>8 DEF Chosen

\* What may be shown is what no stage refuses.
LEMMA ShownMayBeShown == Chosen => ShownIsAllowed
  <1> SUFFICES ASSUME Chosen, NEW w \in chosen
               PROVE  /\ W(w).judged /\ ~Residence(w)
                      /\ FloorReason(w) = "none" \/ w \in Pinned
                      /\ Standing(w) => w \in Pinned
                      /\ w \in WithinRide
    BY DEF ShownIsAllowed
  <1>1. ~Refused(w) /\ w \in WithinRide
    BY DEF Chosen, ChosenAreFit, Allowed
  <1>2. ~Residence(w)
    BY <1>1 DEF Refused
  <1>3. CASE FloorReason(w) = "none"
    <2>1. ~(Standing(w) /\ w \notin Pinned)
      BY <1>1, <1>2, <1>3 DEF Refused
    <2>2. W(w).judged
      BY <1>3 DEF FloorReason
    <2> QED BY <1>1, <1>2, <1>3, <2>1, <2>2
  <1>4. CASE FloorReason(w) # "none"
    <2>1. w \in Required /\ FloorReason(w) # "not_analysed"
      BY <1>1, <1>2, <1>4 DEF Refused
    <2>2. w \notin opening
      BY <1>4 DEF Chosen, OpeningIsFit
    <2>3. w \in Pinned
      BY <2>1, <2>2 DEF Required
    <2>4. W(w).judged
      BY <2>1 DEF FloorReason
    <2> QED BY <1>1, <1>2, <2>3, <2>4
  <1> QED BY <1>3, <1>4

\* Every leg that is done is told, and at the end all are.
LEMMA AllAreTold == Chosen => EveryLegIsTold
  <1> SUFFICES ASSUME Chosen, Selected, NEW n \in Legs, NEW w \in Filling(n)
               PROVE  \/ Refused(w) \/ \E t \in chosen : InLeg(t, n)
                      \/ \E t \in (chosen \cup Required) \ {w} : Gap(w, t, Lengths) < Separation
    BY DEF EveryLegIsTold, Filling
  <1>1. leg.at = Len(ride.legs) /\ ride \in Rides /\ ride.record /\ phase # "leg"
    BY DEF Chosen, ChoiceTypes, Selected
  <1>2. n <= Done
    BY <1>1, RideIs DEF Done
  <1>3. LegIsTold(n)
    BY <1>2 DEF Chosen, LegsAreTold
  <1> QED BY <1>3 DEF LegIsTold, NearAnother, TooNear

LEMMA ChoiceGoesOn == Chosen /\ [ChoiceNext]_choiceVars => Chosen'
  <1> SUFFICES ASSUME Chosen, [ChoiceNext]_choiceVars PROVE Chosen'
    OBVIOUS
  <1>1. CASE UNCHANGED choiceVars
    <2>1. UNCHANGED <<ride, phase, proven, fixed, places, opening, leg, targets, chosen>>
      BY <1>1 DEF choiceVars
    <2>2. /\ Windows' = Windows /\ Legs' = Legs /\ Lengths' = Lengths
          /\ WithinRide' = WithinRide /\ Required' = Required
          /\ \A w, l : InLeg(w, l)' <=> InLeg(w, l)
          /\ \A w : (Refused(w)' <=> Refused(w)) /\ (Allowed(w)' <=> Allowed(w))
          /\ \A w : FloorReason(w)' = FloorReason(w)
          /\ \A v, w : (TooNear(v, w)' <=> TooNear(v, w)) /\ Gap(v, w, Lengths)' = Gap(v, w, Lengths)
          /\ \A v, w : SameLeg(v, w)' <=> SameLeg(v, w)
          /\ \A l : Filling(l)' = Filling(l)
      BY <2>1, FrozenIs
    <2>3. Done' = Done
      BY <2>1 DEF Done
    <2>4. ChoiceTypes' /\ OpeningIsFit' /\ TimeIsShared'
      BY <2>1, <2>2 DEF Chosen, ChoiceTypes, OpeningIsFit, TimeIsShared
    <2>5. LegIsFit' /\ ChosenAreFit'
      BY <2>1, <2>2, <2>3 DEF Chosen, LegIsFit, ChosenAreFit
    <2>6. RequiredApart' /\ KeptApart'
      BY <2>1, <2>2 DEF Chosen, RequiredApart, KeptApart
    <2>7. \A w : NearAnother(w)' <=> NearAnother(w)
      BY <2>1, <2>2 DEF NearAnother
    <2>8. \A l : LegIsTold(l)' <=> LegIsTold(l)
      BY <2>1, <2>2, <2>7 DEF LegIsTold
    <2>9. LegsAreTold'
      BY <2>1, <2>2, <2>3, <2>7, <2>8 DEF Chosen, LegsAreTold
    <2> QED BY <2>4, <2>5, <2>6, <2>9 DEF Chosen
  <1>2. CASE ChoiceNext
    BY <1>2, ProveMomentsStep, PicturePlacesStep, PickOpeningStep, ShareOutStep, EnterLegStep,
       TakeRequiredStep, TakeBestStep, HoldFootageStep DEF ChoiceNext
  <1> QED BY <1>1, <1>2

LEMMA RestingGoesOn == Resting /\ [ChoiceNext]_choiceVars => Resting'
  <1> SUFFICES ASSUME Resting, [ChoiceNext]_choiceVars PROVE Resting'
    OBVIOUS
  <1>1. phase = "confirmed"
    BY DEF Resting
  <1>2. ~ChoiceNext
    BY <1>1, Zenon DEF ChoiceNext, ProveMoments, PicturePlaces, PickOpening, ShareOut, EnterLeg,
                TakeRequired, TakeBest, HoldFootage
  <1>3. UNCHANGED choiceVars
    BY <1>2
  <1> QED BY <1>3 DEF Resting, choiceVars, NoLeg

-----------------------------------------------------------------------------
(* The footage.                                                            *)

\* What is put in order by keys of numbers, one for each.
LEMMA ListedIs ==
    ASSUME NEW S, IsFiniteSet(S), NEW m \in Nat, NEW key \in [S -> [1 .. m -> Int]],
           \A x, y \in S : key[x] = key[y] => x = y,
           NEW R, \A x, y \in S : <<x, y>> \in R <=> Before(key[x], key[y]),
           NEW n, n = Cardinality(S)
    PROVE  /\ n \in Nat /\ InRank(S, R) \in [1 .. n -> S]
           /\ \A x \in S : \E k \in 1 .. n : InRank(S, R)[k] = x
           /\ \A i, j \in 1 .. n : i < j => /\ Before(key[InRank(S, R)[i]], key[InRank(S, R)[j]])
                                            /\ InRank(S, R)[i] # InRank(S, R)[j]
  <1>1. Orders(R, S)
    BY KeysOrder
  <1>2. /\ n \in Nat /\ InRank(S, R) \in [1 .. n -> S]
        /\ \A x \in S : \E k \in 1 .. n : InRank(S, R)[k] = x
        /\ \A i, j \in 1 .. n : i < j => <<InRank(S, R)[i], InRank(S, R)[j]>> \in R
    BY <1>1, OrderedIs
  <1> DEFINE f == InRank(S, R)
  <1> HIDE DEF f
  <1>3. ASSUME NEW i \in 1 .. n, NEW j \in 1 .. n, i < j
        PROVE  Before(key[f[i]], key[f[j]]) /\ f[i] # f[j]
    <2>1. f[i] \in S /\ f[j] \in S /\ <<f[i], f[j]>> \in R
      BY <1>2, <1>3 DEF f
    <2> QED BY <1>1, <2>1 DEF Orders
  <1> QED BY <1>2, <1>3 DEF f

LEMMA ProductIs ==
    ASSUME NEW a \in Int, NEW b \in Int, 0 <= a, 0 <= b
    PROVE  a * b \in Int /\ 0 <= a * b
  OBVIOUS

\* A part of a part is no more than the whole.
LEMMA PartIs ==
    ASSUME NEW x \in Int, NEW a \in Int, NEW d \in Int, 0 <= x, x <= d, 0 < d, 0 <= a
    PROVE  (x * a) \div d \in Int /\ 0 <= (x * a) \div d /\ (x * a) \div d <= a
  <1> DEFINE p == x * a
             q == p \div d
             r == p % d
  <1>1. p \in Int /\ 0 <= p
    BY ProductIs
  <1>2. p <= d * a
    <2> DEFINE y == d - x
    <2>1. y \in Int /\ 0 <= y /\ d = x + y
      OBVIOUS
    <2> HIDE DEF y
    <2>2. y * a \in Int /\ 0 <= y * a
      BY <2>1, ProductIs
    <2>3. d * a = x * a + y * a
      BY <2>1
    <2> QED BY <1>1, <2>2, <2>3
  <1>3. q \in Int /\ r \in Int /\ p = d * q + r /\ 0 <= r
    <2> HIDE DEF p
    <2>1. d \in Nat \ {0}
      OBVIOUS
    <2> QED BY <1>1, <2>1, DivisionIs
  <1>4. 0 <= q
    <2> HIDE DEF p
    <2> QED BY <1>1, QuotientIs
  <1> HIDE DEF p, q, r
  <1>5. q <= a
    <2> SUFFICES ASSUME q >= a + 1 PROVE FALSE
      BY <1>3
    <2>1. d * q >= d * (a + 1)
      BY <1>3
    <2>2. d * (a + 1) = d * a + d
      OBVIOUS
    <2>3. d * q \in Int /\ d * a \in Int /\ d * (a + 1) \in Int
      BY <1>3
    <2> QED BY <1>1, <1>2, <1>3, <2>1, <2>2, <2>3
  <1> QED BY <1>3, <1>4, <1>5 DEF p, q

\* Of some numbers one is the least, and one the greatest.
LEMMA EndsAre ==
    ASSUME NEW S \in SUBSET Int, IsFiniteSet(S), S # {}
    PROVE  /\ \E m \in S : \A o \in S : m <= o
           /\ \E m \in S : \A o \in S : m >= o
  <1> DEFINE up == {p \in S \X S : p[1] < p[2]}
             down == {p \in S \X S : p[2] < p[1]}
  <1>1. \A x, y \in S : (<<x, y>> \in up <=> x < y) /\ (<<x, y>> \in down <=> y < x)
    OBVIOUS
  <1> HIDE DEF up, down
  <1>2. Orders(up, S)
    BY <1>1 DEF Orders
  <1>3. Orders(down, S)
    BY <1>1 DEF Orders
  <1>4. \E a \in S : \A x \in S \ {a} : <<a, x>> \in up
    BY <1>2, FirstOfFinite
  <1>5. \E a \in S : \A x \in S \ {a} : <<a, x>> \in down
    BY <1>3, FirstOfFinite
  <1>6. \E a \in S : \A o \in S : a <= o
    <2>1. PICK a \in S : \A x \in S \ {a} : <<a, x>> \in up
      BY <1>4
    <2>2. \A o \in S : a < o \/ a = o
      BY <1>1, <2>1
    <2> QED BY <2>2
  <1>7. \E a \in S : \A o \in S : a >= o
    <2>1. PICK a \in S : \A x \in S \ {a} : <<a, x>> \in down
      BY <1>5
    <2>2. \A o \in S : o < a \/ a = o
      BY <1>1, <2>1
    <2> QED BY <2>2
  <1> QED BY <1>6, <1>7

\* A hold that is changed is the other of its two.
LEMMA VariedIs ==
    ASSUME NEW n \in Nat, NEW holds \in [1 .. n -> Int], NEW other \in [1 .. n -> Int]
    PROVE  /\ Varied(holds, other) \in [1 .. n -> Int]
           /\ \A i \in 1 .. n : Varied(holds, other)[i] \in {holds[i], other[i]}
  <1> DEFINE Next1(i, last) == IF i > 1 /\ i < Len(holds) /\ last = holds[i] /\ holds[i] = holds[i + 1]
                               THEN other[i] ELSE holds[i]
             full(h) == [i \in 0 .. Len(holds) |-> IF i = 0 THEN 0 ELSE Next1(i, h[i - 1])]
             e == CHOOSE h : h = full(h)
             g == [i \in 1 .. n |-> [x \in Int |-> Next1(i, x)]]
  <1>1. Len(holds) = n /\ DOMAIN holds = 1 .. n
    BY ListOf
  <1>2. Varied(holds, other) = [i \in 1 .. n |-> e[i]]
    BY <1>1 DEF Varied
  <1>3. \A i \in 1 .. n : \A x : Next1(i, x) \in {holds[i], other[i]}
    OBVIOUS
  <1> HIDE DEF Next1
  <1>4. \E h : h = full(h)
    <2>1. g \in [1 .. n -> [Int -> Int]]
      BY <1>3
    <2>2. \E f : Built(n, Int, 0, g, f)
      <3> HIDE DEF g
      <3>1. 0 \in Int
        OBVIOUS
      <3> QED BY <2>1, <3>1, StepByStep
    <2>3. PICK f : Built(n, Int, 0, g, f)
      BY <2>2
    <2>4. f \in [0 .. n -> Int] /\ f[0] = 0
      BY <2>3 DEF Built
    <2>5. \A k \in 1 .. n : f[k] = Next1(k, f[k - 1])
      <3> TAKE k \in 1 .. n
      <3>1. f[k] = g[k][f[k - 1]]
        <4> HIDE DEF g
        <4> QED BY <2>3 DEF Built
      <3>2. f[k - 1] \in Int
        BY <2>4
      <3> QED BY <3>1, <3>2
    <2>6. \A k \in 0 .. n : f[k] = full(f)[k]
      BY <1>1, <2>4, <2>5
    <2>7. f = full(f)
      BY <1>1, <2>4, <2>6
    <2> QED BY <2>7
  <1>5. e = full(e)
    BY <1>4
  <1> HIDE DEF e
  <1>6. ASSUME NEW i \in 1 .. n PROVE e[i] \in {holds[i], other[i]} /\ e[i] \in Int
    <2>1. i \in 0 .. n /\ i # 0
      OBVIOUS
    <2>2. e[i] = Next1(i, e[i - 1])
      BY <1>1, <1>5, <2>1
    <2> QED BY <1>3, <2>2
  <1> QED BY <1>2, <1>6

\* What its motion gives a window is in the range of its tier.
LEMMA MotionIs ==
    ASSUME ride \in Rides, ride.record, NEW n \in Nat, n # 0,
           NEW order \in [1 .. n -> Windows], NEW tier
    PROVE  /\ MotionHolds(order, tier) \in [1 .. n -> Int]
           /\ \A i \in 1 .. n : 6 <= MotionHolds(order, tier)[i] /\ MotionHolds(order, tier)[i] <= 20
  <1> DEFINE motions == {W(order[i]).motion : i \in DOMAIN order}
             least == CHOOSE m \in motions : \A o \in motions : m <= o
             most == CHOOSE m \in motions : \A o \in motions : m >= o
             span == most - least
             Low(w) == HoldRange(tier[w])[1]
             Top(w) == HoldRange(tier[w])[2]
             Placed(w) == IF span = 0 THEN (Low(w) + Top(w)) \div 2
                          ELSE Low(w) + (((W(w).motion - least) * (Top(w) - Low(w))) \div span)
             Other(w) == IF 2 * Placed(w) <= Low(w) + Top(w) THEN Top(w) ELSE Low(w)
             holds == [i \in DOMAIN order |-> Placed(order[i])]
             other == [i \in DOMAIN order |-> Other(order[i])]
  <1>1. MotionHolds(order, tier) = Varied(holds, other)
    BY DEF MotionHolds
  <1>2. DOMAIN order = 1 .. n
    OBVIOUS
  <1>3. motions \in SUBSET Int /\ motions # {} /\ \A i \in 1 .. n : W(order[i]).motion \in motions
    <2>1. \A i \in 1 .. n : W(order[i]).motion \in Int
      BY RideIs
    <2>2. 1 \in 1 .. n
      OBVIOUS
    <2> QED BY <1>2, <2>1, <2>2
  <1>4. IsFiniteSet(motions)
    <2> DEFINE image == [i \in 1 .. n |-> W(order[i]).motion]
    <2>1. image \in Surjection(1 .. n, motions)
      BY <1>2 DEF Surjection
    <2>2. IsFiniteSet(1 .. n)
      BY FS_Interval
    <2> HIDE DEF image, motions
    <2> QED BY <2>1, <2>2, FS_Surjection
  <1> HIDE DEF motions
  <1>5. /\ least \in motions /\ \A o \in motions : least <= o
        /\ most \in motions /\ \A o \in motions : most >= o
    BY <1>3, <1>4, EndsAre
  <1> HIDE DEF least, most
  <1>6. span \in Int /\ span >= 0 /\ \A o \in motions : o \in Int /\ o - least >= 0 /\ o - least <= span
    BY <1>3, <1>5
  <1> HIDE DEF span
  <1>7. least \in Int
    BY <1>3, <1>5
  <1>8. \A w : /\ Low(w) \in Int /\ Top(w) \in Int /\ 6 <= Low(w) /\ Low(w) <= Top(w) /\ Top(w) <= 20
    <2> SUFFICES ASSUME NEW w
                 PROVE  Low(w) \in Int /\ Top(w) \in Int /\ 6 <= Low(w) /\ Low(w) <= Top(w) /\ Top(w) <= 20
      OBVIOUS
    <2> DEFINE t == tier[w]
    <2>1. /\ HoldRange(t)[1] \in {16, 10, 6} /\ HoldRange(t)[2] \in {20, 14, 8}
          /\ HoldRange(t)[1] <= HoldRange(t)[2]
      BY HoldsAre
    <2>2. Low(w) = HoldRange(t)[1] /\ Top(w) = HoldRange(t)[2]
      OBVIOUS
    <2> HIDE DEF Low, Top, t
    <2> QED BY <2>1, <2>2
  <1> HIDE DEF Low, Top
  <1>9. ASSUME NEW i \in 1 .. n
        PROVE  /\ Placed(order[i]) \in Int /\ 6 <= Placed(order[i]) /\ Placed(order[i]) <= 20
               /\ Other(order[i]) \in Int /\ 6 <= Other(order[i]) /\ Other(order[i]) <= 20
    <2> DEFINE w == order[i]
               more == W(w).motion - least
               wide == Top(w) - Low(w)
    <2>1. more \in Int /\ 0 <= more /\ more <= span
      <3>1. PICK o \in motions : o = W(w).motion
        BY <1>3
      <3>2. o \in Int /\ o - least >= 0 /\ o - least <= span
        BY <1>6
      <3>3. more = o - least
        BY <3>1
      <3> HIDE DEF more
      <3> QED BY <1>7, <3>2, <3>3
    <2>2. wide \in Int /\ 0 <= wide /\ Low(w) \in Int /\ Top(w) \in Int
      BY <1>8
    <2> HIDE DEF more, w
    <2>3. CASE span = 0
      <3>1. Placed(w) = (Low(w) + Top(w)) \div 2
        BY <2>3
      <3>2. 6 <= Low(w) /\ Low(w) <= Top(w) /\ Top(w) <= 20
        BY <1>8
      <3> DEFINE x == Low(w) + Top(w)
                 h == x \div 2
      <3>3. h \in Int /\ x % 2 \in Int /\ x = 2 * h + (x % 2) /\ 0 <= x % 2 /\ x % 2 < 2
        <4>1. x \in Int
          BY <2>2
        <4> HIDE DEF x
        <4> QED BY <4>1, DivisionIs
      <3>4. Placed(w) = h
        BY <3>1
      <3> HIDE DEF h
      <3>5. h \in Int /\ 6 <= h /\ h <= 20
        <4>1. x \in Int /\ 12 <= x /\ x <= 40
          BY <2>2, <3>2
        <4> HIDE DEF x
        <4> QED BY <3>3, <4>1
      <3>6. Placed(w) \in Int /\ 6 <= Placed(w) /\ Placed(w) <= 20
        BY <3>4, <3>5
      <3> HIDE DEF Placed
      <3> QED BY <2>2, <3>2, <3>6 DEF w
    <2>4. CASE span # 0
      <3> DEFINE part == (more * wide) \div span
      <3>1. Placed(w) = Low(w) + part
        BY <2>4 DEF more
      <3> HIDE DEF wide
      <3>2. part \in Int /\ 0 <= part /\ part <= wide
        BY <1>6, <2>1, <2>2, <2>4, PartIs
      <3> HIDE DEF part, Placed
      <3>3. 6 <= Low(w) /\ Low(w) <= Top(w) /\ Top(w) <= 20
        BY <1>8
      <3>4. Placed(w) \in Int /\ 6 <= Placed(w) /\ Placed(w) <= 20
        BY <2>2, <3>1, <3>2, <3>3 DEF wide
      <3> QED BY <2>2, <3>3, <3>4 DEF w
    <2> QED BY <2>3, <2>4
  <1> HIDE DEF Placed, Other
  <1>10. holds \in [1 .. n -> Int] /\ other \in [1 .. n -> Int]
    BY <1>2, <1>9
  <1>11. \A i \in 1 .. n : holds[i] = Placed(order[i]) /\ other[i] = Other(order[i])
    BY <1>2
  <1> HIDE DEF holds, other
  <1> DEFINE v == Varied(holds, other)
  <1>12. v \in [1 .. n -> Int] /\ \A i \in 1 .. n : v[i] \in {holds[i], other[i]}
    BY <1>10, VariedIs
  <1> HIDE DEF v
  <1>13. \A i \in 1 .. n : 6 <= v[i] /\ v[i] <= 20
    BY <1>9, <1>11, <1>12
  <1> QED BY <1>1, <1>12, <1>13 DEF v

\* A hold that is raised stays within its window.
LEMMA RaisedIs ==
    ASSUME ride \in Rides, ride.record, NEW n \in Nat,
           NEW order \in [1 .. n -> Windows], NEW tier,
           NEW holds \in [1 .. n -> Int], \A i \in 1 .. n : 4 <= holds[i] /\ holds[i] <= 24
    PROVE  /\ Raised(order, tier, holds) \in [1 .. n -> Int]
           /\ \A i \in 1 .. n : 4 <= Raised(order, tier, holds)[i] /\ Raised(order, tier, holds)[i] <= 24
  <1> DEFINE short == Target - Total(holds, DOMAIN holds)
             free == [i \in DOMAIN holds |->
                        More(0, Less(W(order[i]).length, HoldRange(tier[order[i]])[2]) - holds[i])]
             room == Total(free, DOMAIN holds)
             raised == [i \in DOMAIN holds |-> holds[i] + ((Less(short, room) * free[i]) \div room)]
  <1>1. Raised(order, tier, holds) = IF short <= 0 \/ room = 0 THEN holds ELSE raised
    BY DEF Raised
  <1>2. DOMAIN holds = 1 .. n /\ Len(holds) = n
    BY ListOf
  <1>3. ASSUME NEW i \in 1 .. n
        PROVE  free[i] \in Int /\ 0 <= free[i] /\ holds[i] + free[i] <= 24
    <2> DEFINE t == tier[order[i]]
               top == HoldRange(t)[2]
    <2>1. top \in {20, 14, 8}
      BY HoldsAre
    <2>2. W(order[i]).length = 24
      BY RideIs
    <2>3. free[i] = More(0, Less(24, top) - holds[i])
      BY <1>2, <2>2
    <2> HIDE DEF top, free
    <2>4. Less(24, top) \in Int /\ Less(24, top) <= 24
      BY <2>1 DEF Less
    <2> DEFINE x == Less(24, top) - holds[i]
    <2>5. x \in Int /\ holds[i] + x <= 24
      BY <2>4
    <2>6. free[i] = More(0, x)
      BY <2>3
    <2> HIDE DEF x
    <2> QED BY <2>5, <2>6 DEF More
  <1>4. free \in [1 .. n -> Int]
    <2>1. free = [i \in 1 .. n |-> free[i]]
      BY <1>2
    <2> HIDE DEF free
    <2> QED BY <1>3, <2>1
  <1> HIDE DEF free
  <1>5. short \in Int
    <2>1. Total(holds, DOMAIN holds) \in Int
      BY <1>2, TotalIs
    <2> QED BY <2>1 DEF Target, Second
  <1>6. room \in Int /\ room >= 0
    <2>1. Len(free) = n
      BY <1>4, ListOf
    <2>2. \A k \in 1 .. Len(free) : k \in DOMAIN holds => free[k] >= 0
      BY <1>3, <2>1
    <2>3. Len(free) \in Nat /\ free \in [1 .. Len(free) -> Int]
      BY <1>4, <2>1
    <2> QED BY <2>2, <2>3, TotalIs
  <1> HIDE DEF short, room
  <1>7. CASE short <= 0 \/ room = 0
    BY <1>1, <1>7
  <1>8. CASE ~(short <= 0 \/ room = 0)
    <2> DEFINE x == Less(short, room)
    <2>1. x \in Int /\ 0 <= x /\ x <= room /\ 0 < room
      BY <1>5, <1>6, <1>8 DEF Less
    <2>2. ASSUME NEW i \in 1 .. n
          PROVE  raised[i] \in Int /\ 4 <= raised[i] /\ raised[i] <= 24
      <3> DEFINE part == (x * free[i]) \div room
      <3>1. raised[i] = holds[i] + part
        BY <1>2
      <3> HIDE DEF x
      <3>2. part \in Int /\ 0 <= part /\ part <= free[i]
        BY <1>3, <1>6, <2>1, PartIs
      <3> HIDE DEF part, raised
      <3> QED BY <1>3, <3>1, <3>2
    <2>3. raised = [i \in 1 .. n |-> raised[i]]
      BY <1>2
    <2> HIDE DEF raised
    <2> QED BY <1>1, <1>8, <2>2, <2>3
  <1> QED BY <1>7, <1>8

\* Every window chosen has one cut, within the window and no flicker.
LEMMA CutsAre ==
    ASSUME ride \in Rides, ride.record, chosen \in SUBSET Windows, chosen # {},
           NEW n, n = Cardinality(chosen)
    PROVE  /\ n \in Nat /\ Cuts \in [1 .. n -> [window : chosen, from : Int, to : Int]]
           /\ \A i \in 1 .. n : /\ W(Cuts[i].window).start <= Cuts[i].from
                                /\ Cuts[i].to <= Ends(Cuts[i].window)
                                /\ Cuts[i].to - Cuts[i].from >= 4
           /\ \A w \in chosen : \E i \in 1 .. n : Cuts[i].window = w
           /\ \A i, j \in 1 .. n : i < j => Cuts[i].window # Cuts[j].window
  <1> DEFINE order == InOrder(chosen, Earliest)
             tier == Tier
             Fit(holds) == [i \in DOMAIN order |-> Less(W(order[i]).length, holds[i])]
             plain == [i \in DOMAIN order |-> HoldFor(tier[order[i]])]
             paced == Fit(plain)
             other == [i \in DOMAIN order |-> IF paced[i] # HoldFor(2) THEN HoldFor(2) ELSE HoldFor(1)]
             moved == MotionHolds(order, tier)
             fitted == Fit(moved)
             held == IF ride.looks THEN Raised(order, tier, fitted) ELSE Varied(paced, other)
             Hold(i) == LET w == order[i] IN
                 IF w \in Pinned THEN Less(W(w).length, FixedHold)
                 ELSE IF w \in Openers THEN More(held[i], Less(W(w).length, OpenerHold)) ELSE held[i]
             Offset(i) == LET w == order[i] IN
                 IF ride.looks /\ w \notin Pinned /\ W(w).busier = "second" THEN W(w).length - Hold(i) ELSE 0
  <1>1. Cuts = [i \in DOMAIN order |-> [window |-> order[i], from |-> W(order[i]).start + Offset(i),
                                        to |-> W(order[i]).start + Offset(i) + Hold(i)]]
    BY DEF Cuts
  <1>2. /\ n \in Nat /\ n # 0 /\ order \in [1 .. n -> chosen]
        /\ \A w \in chosen : \E i \in 1 .. n : order[i] = w
        /\ \A i, j \in 1 .. n : i < j => order[i] # order[j]
    <2> DEFINE key == [w \in chosen |-> <<W(w).start, w>>]
               R == {p \in chosen \X chosen : Before(Earliest(p[1]), Earliest(p[2]))}
    <2>1. \A w \in chosen : w \in Int /\ W(w).start \in Int
      BY RideIs
    <2>2. key \in [chosen -> [1 .. 2 -> Int]]
      BY <2>1
    <2>3. \A x, y \in chosen : key[x] = key[y] => x = y
      OBVIOUS
    <2>4. \A x \in chosen : key[x] = Earliest(x)
      BY DEF Earliest
    <2>5. \A x, y \in chosen : <<x, y>> \in R <=> Before(key[x], key[y])
      BY <2>4
    <2>6. IsFiniteSet(chosen)
      BY RideIs, FS_Subset
    <2>7. order = InRank(chosen, R)
      BY DEF InOrder
    <2> HIDE DEF key, R, order
    <2>8. /\ n \in Nat /\ order \in [1 .. n -> chosen]
          /\ \A w \in chosen : \E i \in 1 .. n : order[i] = w
          /\ \A i, j \in 1 .. n : i < j => order[i] # order[j]
      <3>1. Orders(R, chosen)
        BY <2>2, <2>3, <2>5, KeysOrder
      <3>2. /\ n \in Nat /\ order \in [1 .. n -> chosen]
            /\ \A w \in chosen : \E i \in 1 .. n : order[i] = w
            /\ \A i, j \in 1 .. n : i < j => <<order[i], order[j]>> \in R
        BY <2>6, <2>7, <3>1, OrderedIs
      <3> QED BY <3>1, <3>2 DEF Orders
    <2>9. n # 0
      BY <2>6, FS_EmptySet
    <2> QED BY <2>8, <2>9
  <1> HIDE DEF order
  <1>3. DOMAIN order = 1 .. n /\ order \in [1 .. n -> Windows]
    BY <1>2
  <1>4. \A i \in 1 .. n : order[i] \in chosen /\ W(order[i]).length = 24 /\ W(order[i]).start \in Int
    <2>1. \A w \in chosen : W(w).length = 24 /\ W(w).start \in Int
      BY RideIs
    <2> QED BY <1>2, <2>1
  <1> HIDE DEF tier
  <1>5. ASSUME ride.looks
        PROVE  held \in [1 .. n -> Int] /\ \A i \in 1 .. n : 4 <= held[i] /\ held[i] <= 24
    <2>1. moved \in [1 .. n -> Int] /\ \A i \in 1 .. n : 6 <= moved[i] /\ moved[i] <= 20
      BY <1>2, <1>3, MotionIs
    <2> HIDE DEF moved
    <2>2. \A i \in 1 .. n : fitted[i] = Less(24, moved[i])
      BY <1>3, <1>4
    <2>3. \A i \in 1 .. n : fitted[i] \in Int /\ 4 <= fitted[i] /\ fitted[i] <= 24
      BY <2>1, <2>2 DEF Less
    <2>4. fitted = [i \in 1 .. n |-> fitted[i]]
      BY <1>3
    <2> HIDE DEF fitted
    <2>5. fitted \in [1 .. n -> Int]
      BY <2>3, <2>4
    <2> DEFINE r == Raised(order, tier, fitted)
    <2>6. r \in [1 .. n -> Int] /\ \A i \in 1 .. n : 4 <= r[i] /\ r[i] <= 24
      BY <1>2, <1>3, <2>3, <2>5, RaisedIs
    <2>7. held = r
      BY <1>5
    <2> HIDE DEF held, r
    <2> QED BY <2>6, <2>7
  <1>6. ASSUME ~ride.looks
        PROVE  held \in [1 .. n -> Int] /\ \A i \in 1 .. n : 4 <= held[i] /\ held[i] <= 24
    <2>1. ASSUME NEW i \in 1 .. n
          PROVE  paced[i] \in {20, 16, 12} /\ other[i] \in {20, 16, 12}
      <3> DEFINE t == tier[order[i]]
      <3>1. HoldFor(t) \in {20, 16, 12} /\ HoldFor(1) \in {20, 16, 12} /\ HoldFor(2) \in {20, 16, 12}
        BY HoldsAre
      <3>2. paced[i] = Less(24, HoldFor(t))
        BY <1>3, <1>4
      <3>3. other[i] = IF paced[i] # HoldFor(2) THEN HoldFor(2) ELSE HoldFor(1)
        BY <1>3
      <3> HIDE DEF paced, other, t
      <3> QED BY <3>1, <3>2, <3>3 DEF Less
    <2>2. paced = [i \in 1 .. n |-> paced[i]] /\ other = [i \in 1 .. n |-> other[i]]
      BY <1>3
    <2> HIDE DEF paced, other
    <2>3. paced \in [1 .. n -> Int] /\ other \in [1 .. n -> Int]
      BY <2>1, <2>2
    <2> DEFINE v == Varied(paced, other)
    <2>4. v \in [1 .. n -> Int] /\ \A i \in 1 .. n : v[i] \in {paced[i], other[i]}
      BY <1>2, <2>3, VariedIs
    <2>5. held = v
      BY <1>6
    <2> HIDE DEF held, v
    <2>6. \A i \in 1 .. n : 4 <= v[i] /\ v[i] <= 24
      <3> SUFFICES ASSUME NEW i \in 1 .. n PROVE 4 <= v[i] /\ v[i] <= 24
        OBVIOUS
      <3>1. v[i] \in {20, 16, 12}
        BY <2>1, <2>4
      <3> QED BY <3>1
    <2> QED BY <2>4, <2>5, <2>6
  <1>7. \A i \in 1 .. n : held[i] \in Int /\ 4 <= held[i] /\ held[i] <= 24
    BY <1>5, <1>6
  <1> HIDE DEF held
  <1>8. ASSUME NEW i \in 1 .. n PROVE Hold(i) \in Int /\ 4 <= Hold(i) /\ Hold(i) <= 24
    <2>1. /\ order[i] \in Pinned => Hold(i) = 16
          /\ order[i] \notin Pinned /\ order[i] \in Openers => Hold(i) = More(held[i], 12)
          /\ order[i] \notin Pinned /\ order[i] \notin Openers => Hold(i) = held[i]
      BY <1>4 DEF Less, FixedHold, OpenerHold, Second
    <2> HIDE DEF Hold
    <2> QED BY <1>7, <2>1 DEF More
  <1>9. ASSUME NEW i \in 1 .. n
        PROVE  Offset(i) \in Int /\ 0 <= Offset(i) /\ Offset(i) + Hold(i) <= 24
    <2>1. Offset(i) \in {24 - Hold(i), 0}
      BY <1>4
    <2> HIDE DEF Hold, Offset
    <2> QED BY <1>8, <2>1
  <1> HIDE DEF Hold, Offset
  <1>10. Cuts = [i \in 1 .. n |-> [window |-> order[i], from |-> W(order[i]).start + Offset(i),
                                   to |-> W(order[i]).start + Offset(i) + Hold(i)]]
    BY <1>1, <1>3
  <1>11. ASSUME NEW i \in 1 .. n
         PROVE  /\ Cuts[i] \in [window : chosen, from : Int, to : Int]
                /\ Cuts[i].window = order[i]
                /\ W(Cuts[i].window).start <= Cuts[i].from
                /\ Cuts[i].to <= Ends(Cuts[i].window)
                /\ Cuts[i].to - Cuts[i].from >= 4
    <2>1. /\ Cuts[i].window = order[i] /\ Cuts[i].from = W(order[i]).start + Offset(i)
          /\ Cuts[i].to = W(order[i]).start + Offset(i) + Hold(i)
          /\ Cuts[i] = [window |-> order[i], from |-> Cuts[i].from, to |-> Cuts[i].to]
      BY <1>10
    <2>2. Ends(order[i]) = W(order[i]).start + 24
      BY <1>4 DEF Ends
    <2>3. Cuts[i].from \in Int /\ Cuts[i].to \in Int
      BY <1>4, <1>8, <1>9, <2>1
    <2> QED BY <1>4, <1>8, <1>9, <2>1, <2>2, <2>3
  <1>12. Cuts \in [1 .. n -> [window : chosen, from : Int, to : Int]]
    BY <1>10, <1>11
  <1> QED BY <1>2, <1>11, <1>12

\* Cuts that overlap are shortened to where the next begins, and a window whose
\* cut is dropped overlaps the window that pushed it out.
LEMMA OverlapsAreGone ==
    ASSUME ride \in Rides, ride.record, chosen \in SUBSET Windows, chosen # {}, KeptApart,
           NEW shown, shown = WithoutOverlaps(Cuts)
    PROVE  /\ \A i \in DOMAIN shown : LET c == shown[i] IN
                 /\ W(c.window).start <= c.from /\ c.to <= Ends(c.window)
                 /\ c.to - c.from >= MinCut
                 /\ i < Len(shown) => c.to <= shown[i + 1].from
           /\ \A w \in chosen : \/ \E i \in DOMAIN shown : shown[i].window = w
                                \/ \E v \in chosen \ {w} : Ends(w) > W(v).start /\ Ends(v) > W(w).start
  <1> DEFINE Cut == [window : chosen, from : Int, to : Int]
             S == {Cuts[i] : i \in DOMAIN Cuts}
             Key(c) == <<c.from, W(c.window).start>>
             order == InOrder(S, Key)
             Next1(i) == IF i < Len(order) THEN order[i + 1].from ELSE order[i].to
             shortened == [i \in DOMAIN order |-> [order[i] EXCEPT !.to = Less(@, Next1(i))]]
             staying == {i \in DOMAIN order : shortened[i] = order[i] \/ shortened[i].to - shortened[i].from >= MinCut}
             kept == InOrder(staying, LAMBDA i : <<i>>)
  <1>1. shown = [k \in DOMAIN kept |-> shortened[kept[k]]]
    BY Zenon DEF WithoutOverlaps
  <1>2. \A w \in chosen : W(w).start \in Int /\ W(w).length = 24 /\ Ends(w) = W(w).start + 24
    <2>1. \A w \in chosen : W(w).start \in Int /\ W(w).length = 24
      BY RideIs
    <2> QED BY <2>1 DEF Ends
  <1>3. ASSUME NEW v \in chosen, NEW w \in chosen, v # w PROVE W(v).start # W(w).start
    <2>1. Gap(v, w, Lengths) > 0
      BY <1>3 DEF KeptApart
    <2>2. Lengths[v] \in Int /\ Lengths[w] \in Int /\ Lengths[v] > 0 /\ Lengths[w] > 0
      BY LengthsAre
    <2> QED BY <1>2, <2>1, <2>2 DEF Gap
  <1>4. PICK n : n = Cardinality(chosen)
    OBVIOUS
  <1>5. /\ n \in Nat /\ Cuts \in [1 .. n -> Cut]
        /\ \A i \in 1 .. n : /\ W(Cuts[i].window).start <= Cuts[i].from
                             /\ Cuts[i].to <= Ends(Cuts[i].window)
                             /\ Cuts[i].to - Cuts[i].from >= 4
        /\ \A w \in chosen : \E i \in 1 .. n : Cuts[i].window = w
        /\ \A i, j \in 1 .. n : i < j => Cuts[i].window # Cuts[j].window
    BY <1>4, CutsAre
  <1>6. /\ \A c \in S : /\ c \in Cut /\ W(c.window).start <= c.from
                        /\ c.to <= Ends(c.window) /\ c.to - c.from >= 4
        /\ \A w \in chosen : \E c \in S : c.window = w
        /\ \A c, d \in S : c.window = d.window => c = d
    <2>1. DOMAIN Cuts = 1 .. n
      BY <1>5
    <2>2. \A i, j \in 1 .. n : Cuts[i].window = Cuts[j].window => Cuts[i] = Cuts[j]
      <3> SUFFICES ASSUME NEW i \in 1 .. n, NEW j \in 1 .. n, Cuts[i].window = Cuts[j].window
                   PROVE  i = j
        OBVIOUS
      <3>1. ~(i < j) /\ ~(j < i)
        BY <1>5
      <3> QED BY <3>1
    <2> HIDE DEF Cut
    <2> QED BY <1>5, <2>1, <2>2
  <1>7. IsFiniteSet(S)
    <2>1. DOMAIN Cuts = 1 .. n /\ IsFiniteSet(1 .. n)
      BY <1>5, FS_Interval
    <2>2. Cuts \in Surjection(1 .. n, S)
      BY <1>5, <2>1 DEF Surjection
    <2> HIDE DEF S
    <2> QED BY <2>1, <2>2, FS_Surjection
  <1> HIDE DEF S
  <1>8. PICK m : /\ m \in Nat /\ order \in [1 .. m -> S]
                 /\ \A c \in S : \E i \in 1 .. m : order[i] = c
                 /\ \A i, j \in 1 .. m : i < j => order[i].from <= order[j].from /\ order[i] # order[j]
    <2> DEFINE key == [c \in S |-> Key(c)]
               R == {p \in S \X S : Before(Key(p[1]), Key(p[2]))}
    <2>1. \A c \in S : c.from \in Int /\ W(c.window).start \in Int /\ c.window \in chosen
      BY <1>2, <1>6
    <2>2. key \in [S -> [1 .. 2 -> Int]]
      <3> SUFFICES ASSUME NEW c \in S PROVE <<c.from, W(c.window).start>> \in [1 .. 2 -> Int]
        OBVIOUS
      <3> QED BY <2>1
    <2>3. \A c, d \in S : key[c] = key[d] => c = d
      <3> SUFFICES ASSUME NEW c \in S, NEW d \in S, key[c] = key[d] PROVE c = d
        OBVIOUS
      <3>1. W(c.window).start = W(d.window).start
        OBVIOUS
      <3>2. c.window = d.window
        BY <1>3, <2>1, <3>1
      <3> QED BY <1>6, <3>2
    <2>4. \A c, d \in S : <<c, d>> \in R => c.from <= d.from
      <3> SUFFICES ASSUME NEW c \in S, NEW d \in S, Before(Key(c), Key(d)) PROVE c.from <= d.from
        OBVIOUS
      <3>1. PICK i \in {1, 2} : Key(c)[i] < Key(d)[i] /\ \A j \in 1 .. (i - 1) : Key(c)[j] = Key(d)[j]
        BY DEF Before
      <3>2. Key(c)[1] = c.from /\ Key(d)[1] = d.from
        OBVIOUS
      <3> HIDE DEF Key
      <3>3. CASE i = 1
        BY <2>1, <3>1, <3>2, <3>3
      <3>4. CASE i = 2
        <4>1. 1 \in 1 .. (i - 1)
          BY <3>4
        <4> QED BY <2>1, <3>1, <3>2, <4>1
      <3> QED BY <3>3, <3>4
    <2>5. \A c, d \in S : <<c, d>> \in R <=> Before(key[c], key[d])
      <3> HIDE DEF Key
      <3> QED OBVIOUS
    <2>6. order = InRank(S, R)
      BY DEF InOrder
    <2> HIDE DEF key, R, Key, order
    <2>7. Orders(R, S)
      BY <2>2, <2>3, <2>5, KeysOrder
    <2>8. PICK m : m = Cardinality(S)
      OBVIOUS
    <2>9. /\ m \in Nat /\ order \in [1 .. m -> S]
          /\ \A c \in S : \E i \in 1 .. m : order[i] = c
          /\ \A i, j \in 1 .. m : i < j => <<order[i], order[j]>> \in R
      BY <1>7, <2>6, <2>7, <2>8, OrderedIs
    <2>10. \A i, j \in 1 .. m : i < j => order[i].from <= order[j].from /\ order[i] # order[j]
      <3> SUFFICES ASSUME NEW i \in 1 .. m, NEW j \in 1 .. m, i < j
                   PROVE  order[i].from <= order[j].from /\ order[i] # order[j]
        OBVIOUS
      <3>1. order[i] \in S /\ order[j] \in S /\ <<order[i], order[j]>> \in R
        BY <2>9
      <3> QED BY <2>4, <2>7, <3>1 DEF Orders
    <2> QED BY <2>9, <2>10
  <1> HIDE DEF order
  <1>9. DOMAIN order = 1 .. m /\ Len(order) = m
    BY <1>8, ListOf
  <1>10. ASSUME NEW i \in 1 .. m
         PROVE  /\ order[i] \in Cut /\ W(order[i].window).start <= order[i].from
                /\ order[i].to <= Ends(order[i].window) /\ order[i].to - order[i].from >= 4
                /\ shortened[i].window = order[i].window /\ shortened[i].from = order[i].from
                /\ shortened[i].to = Less(order[i].to, Next1(i))
                /\ shortened[i].to = order[i].to => shortened[i] = order[i]
                /\ Next1(i) \in Int /\ (i < m => Next1(i) = order[i + 1].from)
                /\ i = m => Next1(i) = order[i].to
    <2>1. order[i] \in Cut /\ order[i] \in S
      BY <1>6, <1>8
    <2>2. shortened[i] = [order[i] EXCEPT !.to = Less(@, Next1(i))]
      BY <1>9
    <2>3. (i < m => Next1(i) = order[i + 1].from) /\ (i = m => Next1(i) = order[i].to)
      BY <1>8, <1>9
    <2>4. Next1(i) \in Int
      <3>1. CASE i < m
        <4>1. i + 1 \in 1 .. m
          BY <1>8, <3>1
        <4>2. order[i + 1] \in Cut
          BY <1>6, <1>8, <4>1
        <4> QED BY <2>3, <3>1, <4>2
      <3>2. CASE ~(i < m)
        <4>1. i = m
          BY <1>8, <3>2
        <4> QED BY <2>1, <2>3, <4>1
      <3> QED BY <3>1, <3>2
    <2> HIDE DEF Next1, shortened
    <2> QED BY <1>6, <2>1, <2>2, <2>3, <2>4
  <1> HIDE DEF Next1, shortened
  <1>11. staying \in SUBSET (1 .. m) /\ IsFiniteSet(staying)
    <2>1. staying \in SUBSET (1 .. m) /\ IsFiniteSet(1 .. m)
      BY <1>8, <1>9, FS_Interval
    <2> HIDE DEF staying
    <2> QED BY <2>1, FS_Subset
  <1>12. \A i \in 1 .. m : i \in staying <=> shortened[i] = order[i] \/ shortened[i].to - shortened[i].from >= MinCut
    BY <1>9
  <1> HIDE DEF staying
  <1>13. PICK p : /\ p \in Nat /\ kept \in [1 .. p -> staying]
                  /\ \A i \in staying : \E k \in 1 .. p : kept[k] = i
                  /\ \A j, k \in 1 .. p : j < k => kept[j] < kept[k]
    <2> DEFINE key == [i \in staying |-> <<i>>]
               R == {q \in staying \X staying : Before(<<q[1]>>, <<q[2]>>)}
    <2>1. \A i \in staying : i \in Int
      BY <1>11
    <2>2. key \in [staying -> [1 .. 1 -> Int]]
      BY <2>1
    <2>3. \A i, j \in staying : key[i] = key[j] => i = j
      OBVIOUS
    <2>4. \A i, j \in staying : <<i, j>> \in R <=> Before(key[i], key[j])
      OBVIOUS
    <2>5. \A i, j \in staying : <<i, j>> \in R => i < j
      BY DEF Before
    <2>6. kept = InRank(staying, R)
      BY DEF InOrder
    <2> HIDE DEF key, R, kept
    <2>7. Orders(R, staying)
      BY <2>2, <2>3, <2>4, KeysOrder
    <2>8. PICK p : p = Cardinality(staying)
      OBVIOUS
    <2>9. /\ p \in Nat /\ kept \in [1 .. p -> staying]
          /\ \A i \in staying : \E k \in 1 .. p : kept[k] = i
          /\ \A j, k \in 1 .. p : j < k => <<kept[j], kept[k]>> \in R
      BY <1>11, <2>6, <2>7, <2>8, OrderedIs
    <2>10. \A j, k \in 1 .. p : j < k => kept[j] < kept[k]
      BY <2>5, <2>9
    <2> QED BY <2>9, <2>10
  <1> HIDE DEF kept
  <1>14. shown = [k \in 1 .. p |-> shortened[kept[k]]] /\ DOMAIN shown = 1 .. p
    BY <1>1, <1>13
  <1>15. Len(shown) = p
    <2> DEFINE D == {shortened[kept[k]] : k \in 1 .. p}
    <2>1. shown \in [1 .. p -> D]
      BY <1>14
    <2> HIDE DEF D
    <2> QED BY <1>13, <2>1, ListOf
  <1>16. ASSUME NEW k \in 1 .. p
         PROVE  /\ W(shown[k].window).start <= shown[k].from
                /\ shown[k].to <= Ends(shown[k].window)
                /\ shown[k].to - shown[k].from >= MinCut
                /\ k < p => shown[k].to <= shown[k + 1].from
    <2> DEFINE i == kept[k]
    <2>1. i \in staying /\ i \in 1 .. m /\ shown[k] = shortened[i]
      BY <1>11, <1>13, <1>14
    <2> HIDE DEF i
    <2>2. /\ order[i].window \in chosen /\ order[i].from \in Int /\ order[i].to \in Int
          /\ W(order[i].window).start <= order[i].from /\ order[i].to <= Ends(order[i].window)
          /\ order[i].to - order[i].from >= 4
          /\ shortened[i].window = order[i].window /\ shortened[i].from = order[i].from
          /\ shortened[i].to = Less(order[i].to, Next1(i)) /\ Next1(i) \in Int
      BY <1>10, <2>1
    <2>3. shortened[i].to \in Int /\ shortened[i].to <= order[i].to /\ shortened[i].to <= Next1(i)
      BY <2>2 DEF Less
    <2>4. shortened[i].to - shortened[i].from >= MinCut
      BY <1>12, <2>1, <2>2 DEF MinCut, Second
    <2>5. Ends(order[i].window) \in Int
      BY <1>2, <2>2
    <2>6. ASSUME k < p PROVE shortened[i].to <= shown[k + 1].from
      <3>1. k + 1 \in 1 .. p /\ k < k + 1
        BY <1>13, <2>6
      <3>2. PICK j : j = kept[k + 1]
        OBVIOUS
      <3>3. j \in 1 .. m /\ i < j /\ shown[k + 1] = shortened[j]
        BY <1>11, <1>13, <1>14, <3>1, <3>2 DEF i
      <3>4. shown[k + 1].from = order[j].from /\ order[j].from \in Int
        BY <1>10, <3>3
      <3>5. i < m /\ i + 1 \in 1 .. m /\ Next1(i) = order[i + 1].from
        BY <1>8, <1>10, <2>1, <3>3
      <3>6. order[i + 1].from <= order[j].from
        <4>1. i + 1 = j \/ i + 1 < j
          BY <2>1, <3>3
        <4> QED BY <1>8, <3>3, <3>4, <3>5, <4>1
      <3> QED BY <2>2, <2>3, <3>4, <3>5, <3>6
    <2> QED BY <2>1, <2>2, <2>3, <2>4, <2>5, <2>6
  <1>17. ASSUME NEW w \in chosen
         PROVE  \/ \E k \in 1 .. p : shown[k].window = w
                \/ \E v \in chosen \ {w} : Ends(w) > W(v).start /\ Ends(v) > W(w).start
    <2>1. PICK c \in S : c.window = w
      BY <1>6
    <2>2. PICK i \in 1 .. m : order[i] = c
      BY <1>8
    <2>3. CASE i \in staying
      <3>1. PICK k \in 1 .. p : kept[k] = i
        BY <1>13, <2>3
      <3>2. shown[k].window = w
        BY <1>10, <1>14, <2>1, <2>2, <3>1
      <3> QED BY <3>2
    <2>4. CASE i \notin staying
      <3>1. shortened[i].to # order[i].to
        BY <1>10, <1>12, <2>4
      <3>2. /\ shortened[i].to = Less(order[i].to, Next1(i)) /\ Next1(i) \in Int /\ order[i].to \in Int
            /\ (i < m => Next1(i) = order[i + 1].from) /\ (i = m => Next1(i) = order[i].to)
        BY <1>10
      <3>3. i < m /\ order[i + 1].from < order[i].to
        <4>1. Next1(i) < order[i].to
          BY <3>1, <3>2 DEF Less
        <4>2. i # m
          BY <3>2, <4>1
        <4> QED BY <1>8, <3>2, <4>1, <4>2
      <3>4. i + 1 \in 1 .. m /\ i < i + 1
        BY <1>8, <3>3
      <3>5. PICK d : d = order[i + 1]
        OBVIOUS
      <3>6. /\ d \in S /\ d \in Cut /\ W(d.window).start <= d.from /\ d.to <= Ends(d.window)
            /\ d.to - d.from >= 4
        BY <1>6, <1>8, <3>4, <3>5
      <3>7. c.from <= d.from /\ c # d
        BY <1>8, <2>2, <3>4, <3>5
      <3>8. /\ c \in Cut /\ W(w).start <= c.from /\ c.to <= Ends(w)
        BY <1>6, <2>1
      <3>9. d.window \in chosen \ {w}
        BY <1>6, <2>1, <3>6, <3>7
      <3>10. d.from < c.to
        BY <2>2, <3>3, <3>5
      <3>11. /\ W(w).start \in Int /\ Ends(w) \in Int /\ W(d.window).start \in Int /\ Ends(d.window) \in Int
             /\ c.from \in Int /\ c.to \in Int /\ d.from \in Int /\ d.to \in Int
        BY <1>2, <3>6, <3>8, <3>9
      <3>12. Ends(w) > W(d.window).start /\ Ends(d.window) > W(w).start
        BY <3>6, <3>7, <3>8, <3>10, <3>11
      <3> QED BY <3>9, <3>12
    <2> QED BY <2>3, <2>4
  <1> QED BY <1>14, <1>15, <1>16, <1>17

\* So the footage is clean from the step that holds it.
LEMMA FootageIsHeldClean == Chosen /\ HoldFootage => FootageIsClean'
  <1> SUFFICES ASSUME Chosen, HoldFootage, phase' = "footage" PROVE FootageIsClean'
    BY DEF FootageIsClean
  <1>1. chosen # {} /\ footage' = WithoutOverlaps(Cuts) /\ UNCHANGED <<ride, chosen>>
    BY DEF HoldFootage
  <1>2. /\ ride \in Rides /\ ride.record /\ chosen \in SUBSET Windows /\ KeptApart
    BY DEF Chosen, ChoiceTypes, ChosenAreFit
  <1>3. /\ \A i \in DOMAIN footage' : LET c == footage'[i] IN
                 /\ W(c.window).start <= c.from /\ c.to <= Ends(c.window)
                 /\ c.to - c.from >= MinCut
                 /\ i < Len(footage') => c.to <= footage'[i + 1].from
        /\ \A w \in chosen : \/ \E i \in DOMAIN footage' : footage'[i].window = w
                             \/ \E v \in chosen \ {w} : Ends(w) > W(v).start /\ Ends(v) > W(w).start
    BY <1>1, <1>2, OverlapsAreGone
  <1>4. \A w : W(w)' = W(w) /\ Ends(w)' = Ends(w)
    BY <1>1 DEF W, Ends
  <1> QED BY <1>1, <1>3, <1>4 DEF FootageIsClean

LEMMA FootageStaysClean == Chosen /\ FootageIsClean /\ [ChoiceNext]_choiceVars => FootageIsClean'
  <1> SUFFICES ASSUME Chosen, FootageIsClean, [ChoiceNext]_choiceVars, phase' = "footage"
               PROVE  FootageIsClean'
    BY DEF FootageIsClean
  <1>1. CASE HoldFootage
    BY <1>1, FootageIsHeldClean
  <1>2. CASE UNCHANGED choiceVars
    <2>1. UNCHANGED <<ride, phase, chosen, footage>>
      BY <1>2 DEF choiceVars
    <2>2. \A w : W(w)' = W(w) /\ Ends(w)' = Ends(w)
      BY <2>1 DEF W, Ends
    <2> QED BY <2>1, <2>2 DEF FootageIsClean
  <1>3. CASE ProveMoments \/ PicturePlaces \/ PickOpening \/ ShareOut
    BY <1>3, Zenon DEF ProveMoments, PicturePlaces, PickOpening, ShareOut
  <1>4. CASE EnterLeg
    <2>1. phase' = IF leg'.pool = {} THEN "legs" ELSE "leg"
      BY <1>4, Zenon DEF EnterLeg
    <2> QED BY <2>1
  <1>5. CASE TakeRequired \/ TakeBest
    <2>1. phase = "leg" /\ (phase' = "legs" \/ phase' = phase)
      BY <1>5, Zenon DEF TakeRequired, TakeBest
    <2> QED BY <2>1
  <1> QED BY <1>1, <1>2, <1>3, <1>4, <1>5 DEF ChoiceNext

\* EveryLegIsTold: for every judged ride the choice tells each of its legs, or
\* leaves it no window that could be shown clear of the others
\* (private_journey_film.plan_film, leg by leg).
THEOREM LegsAreAllTold == ChoiceSpec => []EveryLegIsTold
  <1>1. Resting => EveryLegIsTold
    BY DEF Resting, EveryLegIsTold, Selected
  <1>2. ChoiceSpec => [](Resting \/ Chosen)
    BY ChoiceBegins, ChoiceGoesOn, RestingGoesOn, PTL DEF ChoiceSpec
  <1> QED BY <1>1, <1>2, AllAreTold, PTL

\* ChoiceIsSound: for every judged ride what is chosen may be shown, stands clear
\* of what else is shown, and is cut within its window, one cut after the other.
THEOREM ChoicesAreSound == ChoiceSpec => []ChoiceIsSound
  <1> DEFINE Sound == Resting \/ (Chosen /\ FootageIsClean)
  <1>1. Resting => ShownIsAllowed /\ KeptApart /\ FootageIsClean
    BY DEF Resting, ShownIsAllowed, KeptApart, FootageIsClean, NoLeg
  <1>2. Chosen => KeptApart
    BY DEF Chosen
  <1>3. ChoiceInit => FootageIsClean
    <2>1. ChoiceInit => phase # "footage"
      BY DEF ChoiceInit
    <2> QED BY <2>1 DEF FootageIsClean
  <1>4. ChoiceInit => Sound
    BY <1>3, ChoiceBegins
  <1>5. Sound /\ [ChoiceNext]_choiceVars => Sound'
    BY ChoiceGoesOn, RestingGoesOn, FootageStaysClean
  <1>6. Sound => ChoiceIsSound
    BY <1>1, <1>2, ShownMayBeShown DEF ChoiceIsSound
  <1> HIDE DEF Sound
  <1> QED BY <1>4, <1>5, <1>6, PTL DEF ChoiceSpec

=============================================================================
