---------------------------- MODULE WindowOrder ----------------------------
(***************************************************************************)
(* Buying an order over windows (app/analysis_ranking.py and               *)
(* app/analysis_tournament.py).                                            *)
(*                                                                         *)
(* A ranking compares the judged windows round the selection's cut, in     *)
(* groups taken in score order.  A tournament compares every window of the *)
(* ride: each group's winner goes on to a smaller round of the same shape, *)
(* and the groups are read out in the order their winners were placed.     *)
(* An answer with a hole is asked for again; any other failure ends the    *)
(* command with nothing written.  Windows are numbered in ride order.      *)
(***************************************************************************)
EXTENDS Integers, FiniteSets, Sequences, FiniteSetsExt, SequencesExt

CONSTANTS
    MaxEntrants,    \* bound on the windows of a ride
    Scores,         \* the scores a judgement gives, in steps of the band
    Slots,          \* DEFAULT_SLOTS: the place of the selection's cut
    MaxWindows,     \* DEFAULT_MAX_WINDOWS
    GroupSize,      \* windows compared in one request
    Attempts        \* times a group is asked about

ASSUME OrderAssumption ==
    /\ {MaxEntrants, Slots, MaxWindows, GroupSize, Attempts} \subseteq Nat \ {0}
    /\ GroupSize > 1
    /\ Scores \subseteq Nat

VARIABLES
    kind,       \* "ranking" or "tournament"
    score,      \* what the judgement gave each window
    entrants,   \* the windows of this round, in the order they are grouped
    orders,     \* the orders of this round's groups so far
    rounds,     \* the orders of the rounds before it, a tournament's only
    tries,      \* times the current group has been asked about in vain
    answers,    \* every order the model gave
    bill,       \* comparisons asked, windows sent and groups given up
    placed,     \* the order written down, best first
    ordering    \* "comparing", "written", "failed" or "refused"

orderVars == <<kind, score, entrants, orders, rounds, tries, answers, bill,
               placed, ordering>>

\* windows_worth_ranking: best first, equal scores in ride order, everything
\* down to one step of the band below the score at the last slot.
Ahead(sc, v, w) == sc[v] > sc[w] \/ (sc[v] = sc[w] /\ v < w)
WorthRanking(sc) ==
    LET ranked(k) == CHOOSE w \in DOMAIN sc :
                         Cardinality({v \in DOMAIN sc : Ahead(sc, v, w)}) = k - 1
        cut       == sc[ranked(Min({Slots, Len(sc)}))]
        around    == {w \in DOMAIN sc : sc[w] >= cut - 1}
    IN  [k \in 1 .. Min({MaxWindows, Cardinality(around)}) |-> ranked(k)]

Groups(list) == (Len(list) + GroupSize - 1) \div GroupSize
Group(list, k) ==
    SubSeq(list, (k - 1) * GroupSize + 1, Min({k * GroupSize, Len(list)}))

Current == Group(entrants, Len(orders) + 1)

\* _tournament_shape: the windows a tournament of n sends and its requests.
\* A window left alone in its group is sent nowhere.
Shape[n \in Nat] ==
    IF n <= 1 THEN <<0, 0>>
    ELSE IF n <= GroupSize THEN <<n, 1>>
    ELSE LET full == n \div GroupSize
             left == n % GroupSize
             more == Shape[full + (IF left > 0 THEN 1 ELSE 0)]
         IN  <<full * GroupSize + (IF left > 1 THEN left ELSE 0) + more[1],
               full + (IF left > 1 THEN 1 ELSE 0) + more[2]>>

\* plan_tournament_cost: the windows and requests quoted before any is sent.
Quoted == Shape[Cardinality(DOMAIN score)]

\* A variant of ReadOut: the groups keep the order they were compared in.
ReadOutUnmoved(winners, round) == FlattenSeq(round)

\* The groups of a round, in the order their winners were placed.
ReadOut(winners, round) ==
    FlattenSeq([i \in DOMAIN winners |->
        CHOOSE order \in Range(round) : Head(order) = winners[i]])

\* The last order placed, and back through the rounds whose winners it places.
ReadBack(last, these) ==
    LET back[k \in 0 .. Len(these)] ==
            IF k = 0 THEN last ELSE ReadOut(back[k - 1], these[Len(these) + 1 - k])
    IN  back[Len(these)]

-----------------------------------------------------------------------------

OrderInit ==
    /\ kind \in {"ranking", "tournament"}
    /\ \E n \in 1 .. MaxEntrants :
           IF kind = "ranking"
           THEN score \in [1 .. n -> Scores]
           ELSE score = [w \in 1 .. n |-> 0]
    /\ entrants = IF kind = "ranking" THEN WorthRanking(score)
                  ELSE [w \in DOMAIN score |-> w]
    /\ orders = <<>>
    /\ rounds = <<>>
    /\ tries = 0
    /\ answers = {}
    /\ bill = [asked |-> 0, sent |-> 0, unanswered |-> 0]
    /\ placed = <<>>
    /\ ordering = IF Len(entrants) < 2 THEN "refused" ELSE "comparing"

Comparing == ordering = "comparing" /\ Len(orders) < Groups(entrants)

Asked == [bill EXCEPT !.asked = @ + 1, !.sent = @ + Len(Current)]

\* A group of one has nothing to be compared with.
LeaveAlone ==
    /\ Comparing
    /\ Len(Current) = 1
    /\ orders' = Append(orders, Current)
    /\ UNCHANGED <<kind, score, entrants, rounds, tries, answers, bill, placed,
                   ordering>>

\* The model orders the group, every window of it once.
Answer ==
    /\ Comparing
    /\ Len(Current) > 1
    /\ \E order \in SetToSeqs(Range(Current)) :
          /\ orders' = Append(orders, order)
          /\ answers' = answers \cup {order}
    /\ bill' = Asked
    /\ tries' = 0
    /\ UNCHANGED <<kind, score, entrants, rounds, placed, ordering>>

\* What becomes of a group nothing could be learned of: a ranking leaves it
\* unranked, a tournament keeps the order it was handed.
GivenUp == IF kind = "ranking" THEN <<>> ELSE Current

\* An answer with a hole: asked again, or the group is given up.
Hole ==
    /\ Comparing
    /\ Len(Current) > 1
    /\ IF tries + 1 < Attempts
       THEN tries' = tries + 1 /\ bill' = Asked /\ UNCHANGED orders
       ELSE /\ tries' = 0
            /\ bill' = [Asked EXCEPT !.unanswered = @ + 1]
            /\ orders' = Append(orders, GivenUp)
    /\ UNCHANGED <<kind, score, entrants, rounds, answers, placed, ordering>>

\* A copy is missing, the upload or the request fails: nothing is written,
\* and what was asked before it is lost.
Raise ==
    /\ Comparing
    /\ Len(Current) > 1
    /\ ordering' = "failed"
    /\ UNCHANGED <<kind, score, entrants, orders, rounds, tries, answers, bill,
                   placed>>

\* The winners of a tournament's round go on to the next.
NextRound ==
    /\ ordering = "comparing"
    /\ kind = "tournament"
    /\ Len(orders) = Groups(entrants)
    /\ Len(orders) > 1
    /\ rounds' = Append(rounds, orders)
    /\ entrants' = [k \in DOMAIN orders |-> Head(orders[k])]
    /\ orders' = <<>>
    /\ UNCHANGED <<kind, score, tries, answers, bill, placed, ordering>>

\* The last group of the last round is in: the order is written down whole.
\* A ranking none of whose groups could be compared is refused instead.
WriteOrder ==
    /\ ordering = "comparing"
    /\ Len(orders) = Groups(entrants)
    /\ kind = "tournament" => Len(orders) = 1
    /\ IF kind = "ranking" /\ bill.unanswered > 0 /\ answers = {}
       THEN ordering' = "refused" /\ UNCHANGED placed
       ELSE /\ ordering' = "written"
            /\ placed' = ReadBack(FlattenSeq(orders), rounds)
    /\ UNCHANGED <<kind, score, entrants, orders, rounds, tries, answers, bill>>

OrderNext ==
    LeaveAlone \/ Answer \/ Hole \/ Raise \/ NextRound \/ WriteOrder

OrderSpec == OrderInit /\ [][OrderNext]_orderVars

-----------------------------------------------------------------------------
(* What a bought order promises.                                           *)

Above(v, w) == \E i, j \in DOMAIN placed : i < j /\ placed[i] = v /\ placed[j] = w

\* No window is placed twice; a tournament places every window of the ride,
\* a ranking all it compared but the groups it gave up (WindowRanking,
\* TournamentRanking: numbered 1..n without gaps).
OrderIsWhole ==
    ordering = "written" =>
        /\ IsInjective(placed)
        /\ kind = "tournament" => Range(placed) = DOMAIN score
        /\ bill.unanswered = 0 /\ kind = "ranking" =>
               Range(placed) = Range(entrants)

\* Every comparison that was paid for is respected: whatever round it was
\* made in, its windows stand in the written order as the model put them.
AnswersAreKept ==
    ordering = "written" =>
        \A order \in answers : \A i, j \in DOMAIN order :
            i < j => Above(order[i], order[j])

\* What is first beat everything it met, and everything else was beaten by
\* something, so it is the best by any preference that agrees with the
\* answers: the one thing a tournament trusts its rounds to settle.
WinnerUnbeaten ==
    /\ ordering = "written"
    /\ kind = "tournament"
    /\ bill.unanswered = 0
    => \A w \in DOMAIN score :
          (w # placed[1]) = \E order \in answers :
                               w \in Range(order) /\ order[1] # w

\* The written order is whole and says what the model said.
OrderIsTheModels == OrderIsWhole /\ AnswersAreKept /\ WinnerUnbeaten

\* The bill is the one that was quoted (plan_tournament_cost): without holes
\* exactly its comparisons and windows, with them at most Attempts times.
BillIsForeseen ==
    kind = "tournament" =>
        /\ bill.asked <= Attempts * Quoted[2]
        /\ bill.sent <= Attempts * Quoted[1]
        /\ ordering = "written" => bill.asked >= Quoted[2] /\ bill.sent >= Quoted[1]

\* What was bought is an order, and it cost what was foreseen.
OrderIsBought == OrderIsTheModels /\ BillIsForeseen
=============================================================================
