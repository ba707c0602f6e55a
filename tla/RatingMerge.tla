---------------------------- MODULE RatingMerge ----------------------------
(***************************************************************************)
(* The score of one title between its user, the trackers and media servers *)
(* that hold a copy, and the cycles that reconcile them (resolve, _ratings *)
(* and collect_rating of core/sync_reconciliation.py, the reviews of       *)
(* routers/tracking.py).                                                   *)
(*                                                                         *)
(* A cycle collects what the providers hold and decides in one transaction *)
(* under the row of the user; CycleDelivery takes the decision as any      *)
(* choice, here it is made.  Clocks are what the decision is made by:      *)
(* local events take an instant of their own, a provider's stamp may tie   *)
(* with the last one.  Scores are tenths; trackers keep whole points.  The *)
(* title is in manual rating mode, the user does not remove a rating, and  *)
(* sources are approved and keep their account.                            *)
(***************************************************************************)
EXTENDS Integers

CONSTANTS
    Dated,      \* trackers, which say when a rating was made, in whole points
    Undated,    \* media servers, which do not
    Pushing,    \* providers our ratings are written to
    Scores,     \* in tenths
    NoScore,
    MaxTime     \* bound of the clock

Providers == Dated \cup Undated

\* integer_provider_score and int, in tenths.
Projected(s) == ((s + 5) \div 10) * 10
Truncated(s) == (s \div 10) * 10
Whole == {Projected(s) : s \in Scores}

ASSUME RatingsAssumption ==
    /\ Scores \subseteq 10..100 /\ Whole \subseteq Scores
    /\ NoScore \notin Scores /\ NoScore \notin [value : Scores, at : 0..MaxTime, after : 0..MaxTime]
    /\ Dated \cap Undated = {} /\ Pushing \subseteq Providers
    /\ MaxTime \in Nat

VARIABLES
    now,
    score,      \* the local score, or NoScore
    ratedAt,    \* Rating.rated_at, 0 without a row
    review,     \* the pending combined rating_conflict, or NoScore
    held,       \* what each provider holds
    heldAt,     \* when it was rated there
    baseline,       \* baseline of each provider: the value last observed
    baselineAt,     \* its observed_at, 0 before the first
    started,    \* started_at of the cycle under way, 0 without one
    collected,  \* providers it has imported to the end
    gathered,   \* observations, NoScore where there is none
    sending,    \* writes under way, in any order; some never arrive
    chosenAt,   \* history: the last choice of the user
    calm        \* history: since a complete cycle ("yes"), or since the start of the
                \* one under way ("cycle"), nobody has rated and no late write landed

ratingRow   == <<score, ratedAt, review>>
copies       == <<held, heldAt>>
baselines   == <<baseline, baselineAt>>
mergeState  == <<started, collected, gathered>>
ratingVars  == <<now, ratingRow, copies, baselines, mergeState, sending, chosenAt, calm>>

Time == 0..MaxTime
Local == Scores \cup {NoScore}
Observation == [value : Scores, at : Time, after : Time]

RatingsTypeOK ==
    /\ now \in Time /\ ratedAt \in Time /\ started \in Time /\ chosenAt \in Time
    /\ score \in Local
    /\ review \in {NoScore} \cup [previous : Local, proposed : Scores]
    /\ held \in [Providers -> Local]
    /\ heldAt \in [Providers -> Time]
    /\ baseline \in [Providers -> Local]
    /\ baselineAt \in [Providers -> Time]
    /\ collected \subseteq Providers
    /\ gathered \in [Providers -> Observation \cup {NoScore}]
    /\ sending \subseteq Pushing \X Local
    /\ calm \in {"no", "cycle", "yes"}

NoObservations == [p \in Providers |-> NoScore]

RatingsInit ==
    /\ now = 0 /\ score = NoScore /\ ratedAt = 0 /\ review = NoScore
    /\ held = [p \in Providers |-> NoScore] /\ heldAt = [p \in Providers |-> 0]
    /\ baseline = [p \in Providers |-> NoScore] /\ baselineAt = [p \in Providers |-> 0]
    /\ started = 0 /\ collected = {} /\ gathered = NoObservations
    /\ sending = {} /\ chosenAt = 0 /\ calm = "no"

---------------------------------------------------------------------------
(* Choices of the user and of the owner of an account.                     *)

\* A task writes a local decision to every destination, unless it is deferred
\* into a cycle that forgets it, or dies (CycleDelivery).
Offer(s) == \E offered \in {{}, Pushing \X {s}} : sending' = sending \cup offered

Choose ==
    /\ now < MaxTime /\ now' = now + 1
    /\ ratedAt' = now' /\ chosenAt' = now' /\ calm' = "no"
    /\ UNCHANGED <<copies, baselines, mergeState>>

\* submit_rating; the same score again is not written anywhere.
UserRates(s) ==
    /\ Choose /\ score' = s
    /\ IF s = score THEN UNCHANGED sending ELSE Offer(s)
    /\ UNCHANGED review

\* resolve_event, "Use provider score".
UseProviderScore ==
    /\ review # NoScore /\ review' = NoScore
    /\ Choose /\ score' = review.proposed /\ Offer(review.proposed)

\* resolve_event, "Keep local score": the score the review was opened with is
\* sent, which need not be the local one any more.
KeepLocalScore ==
    /\ review # NoScore /\ review' = NoScore
    /\ UNCHANGED score /\ Offer(review.previous)
    /\ IF score # NoScore
       THEN Choose
       ELSE /\ calm' = "no"
            /\ UNCHANGED <<now, ratedAt, chosenAt, copies, baselines, mergeState>>

Stamp(p, s) ==
    /\ now' \in {now, now + 1} \cap (1..MaxTime)
    /\ held' = [held EXCEPT ![p] = s] /\ heldAt' = [heldAt EXCEPT ![p] = now']

\* The owner rates the title in the application of the provider.
OwnerRates(p, s) ==
    /\ p \in Dated => s \in Whole
    /\ Stamp(p, s) /\ calm' = "no"
    /\ UNCHANGED <<ratingRow, baselines, mergeState, sending, chosenAt>>

\* A write of ours arrives; the provider takes it for a rating made now.
WriteLands(p, s) ==
    /\ <<p, s>> \in sending /\ sending' = sending \ {<<p, s>>}
    /\ Stamp(p, IF s # NoScore /\ p \in Dated THEN Projected(s) ELSE s)
    /\ calm' = IF s = score /\ s # NoScore /\ calm = "yes" THEN "yes" ELSE "no"
    /\ UNCHANGED <<ratingRow, baselines, mergeState, chosenAt>>

---------------------------------------------------------------------------
(* The cycle.                                                              *)

CycleStarts ==
    /\ started = 0 /\ now < MaxTime
    /\ now' = now + 1 /\ started' = now'
    /\ calm' = IF calm = "no" THEN "cycle" ELSE calm
    /\ UNCHANGED <<ratingRow, copies, baselines, collected, gathered, sending, chosenAt>>

\* collect_rating.
Gather(p) ==
    gathered' = [gathered EXCEPT ![p] =
        IF held[p] = NoScore THEN NoScore
        ELSE [value |-> held[p], at |-> IF p \in Dated THEN heldAt[p] ELSE 0,
              after |-> baselineAt[p]]]

\* An import ends; that of a tracker records its baseline there and then.
Collect(p) ==
    /\ started # 0 /\ p \notin collected /\ gathered[p] = NoScore
    /\ Gather(p) /\ collected' = collected \cup {p}
    /\ baselineAt' = IF p \in Dated THEN [baselineAt EXCEPT ![p] = now] ELSE baselineAt
    /\ UNCHANGED <<now, ratingRow, copies, baseline, started, sending, chosenAt, calm>>

\* An import fails after it read the rating.
CollectFails(p) ==
    /\ started # 0 /\ p \notin collected /\ gathered[p] = NoScore
    /\ Gather(p)
    /\ UNCHANGED <<now, ratingRow, copies, baselines, started, collected, sending,
                   chosenAt, calm>>

Observed == {p \in Providers : gathered[p] # NoScore}

\* An integer projection of the local score stands for the local score.
Echoes(s) == score # NoScore /\ Projected(score) = Truncated(s)
Value(p) == IF Echoes(gathered[p].value) THEN score ELSE gathered[p].value
Previous(p) == IF baseline[p] = gathered[p].value THEN Value(p) ELSE baseline[p]

\* Mutant of Changed: what a provider held all along is proposed again.
ChangedAlways == Observed
Changed == {p \in Observed : baseline[p] = NoScore \/ Value(p) # Previous(p)}

\* A change of an undated source gets the clock of the cycle, if a baseline
\* shows it is one.
Inferred(p) == gathered[p].at = 0 /\ baseline[p] # NoScore
Clock(p) == IF Inferred(p) THEN started ELSE gathered[p].at

Candidates == {p \in Changed : ratedAt = 0 \/ Clock(p) = 0 \/ Clock(p) >= ratedAt}

\* Mutant of RatedMeanwhile: the row is not looked at again after the collection.
RatedMeanwhileUnnoticed == FALSE
RatedMeanwhile == ratedAt > started

\* One value replaces a different one only if it can be ordered after it.
Ordered == \E p \in Candidates :
    \/ Clock(p) > ratedAt
    \/ Previous(p) = score /\ baseline[p] # NoScore /\ baselineAt[p] # 0 /\ gathered[p].after >= ratedAt

Latest == {p \in Candidates : \A q \in Candidates : Clock(q) <= Clock(p)}

\* The candidates resolve goes by: all that agree, or the latest when every one
\* of them has a clock of its own; none when they conflict.
Winners ==
    IF \A p, q \in Candidates : Value(p) = Value(q)
    THEN {p \in Candidates : Value(p) = score \/ score = NoScore \/ Ordered}
    ELSE {p \in Latest : /\ \A q \in Candidates : Clock(q) # 0 /\ ~Inferred(q)
                         /\ \A q \in Latest : Value(q) = Value(p)}

Accept(p) ==
    IF Value(p) = score THEN UNCHANGED <<ratingRow, sending>>
    ELSE /\ score' = Value(p) /\ review' = NoScore
         /\ \E at \in {Clock(q) : q \in Winners} :
                /\ \A q \in Winners : Clock(q) <= at
                /\ ratedAt' = IF at = 0 THEN started ELSE at
         /\ sending' = sending \cup ((Pushing \ Winners) \X {Value(p)})

\* _review proposes the value of the first source by name.
Dispute ==
    /\ \E p \in Observed : review' = [previous |-> score, proposed |-> Value(p)]
    /\ UNCHANGED <<score, ratedAt, sending>>

EndCycle == started' = 0 /\ collected' = {} /\ gathered' = NoObservations

\* _ratings: decides, and observes even what it rejects.  The baseline of a media
\* server is recorded only with a complete import, that of a tracker if it has one.
Reconcile ==
    /\ started # 0
    /\ IF RatedMeanwhile \/ Candidates = {}
       THEN UNCHANGED <<ratingRow, sending>>
       ELSE IF Winners = {} THEN Dispute ELSE \E p \in Winners : Accept(p)
    /\ baseline' = [p \in Providers |->
           IF gathered[p] # NoScore /\ (p \in collected \/ (p \in Dated /\ baselineAt[p] # 0))
           THEN gathered[p].value
           ELSE IF p \in collected \cap Undated THEN NoScore ELSE baseline[p]]
    /\ baselineAt' = [p \in Providers |-> IF p \in collected \cap Undated THEN now ELSE baselineAt[p]]
    /\ calm' = IF calm = "yes" \/ (calm = "cycle" /\ collected = Providers) THEN "yes" ELSE "no"
    /\ EndCycle
    /\ UNCHANGED <<now, copies, chosenAt>>

\* The cycle fails, is cancelled, or the process dies.
CycleStops ==
    /\ started # 0 /\ EndCycle
    /\ calm' = IF calm = "cycle" THEN "no" ELSE calm
    /\ UNCHANGED <<now, ratingRow, copies, baselines, sending, chosenAt>>

---------------------------------------------------------------------------
RatingsNext ==
    \/ \E s \in Scores : UserRates(s)
    \/ UseProviderScore \/ KeepLocalScore
    \/ \E p \in Providers, s \in Scores : OwnerRates(p, s)
    \/ \E p \in Pushing, s \in Local : WriteLands(p, s)
    \/ CycleStarts \/ (\E p \in Providers : Collect(p) \/ CollectFails(p)) \/ Reconcile \/ CycleStops

RatingsSpec == RatingsInit /\ [][RatingsNext]_ratingVars

---------------------------------------------------------------------------
\* "A provider that cannot receive pushes therefore does not repeatedly propose
\* an old value": once a cycle has read every provider and nobody has rated
\* anything since, further cycles change neither the score nor the review, even
\* while the accepted score still travels to the others and comes back rounded.
SettledStays ==
    [][calm = "yes" /\ Reconcile => UNCHANGED <<score, review>>]_ratingVars

\* A cycle replaces the score only by what it can place after the last choice
\* of the user: not by a rating that is stamped before it, however late and in
\* whatever order the providers report, nor one a cycle collected around it.
ChoiceStands ==
    [][Reconcile /\ score' # score =>
           /\ chosenAt < started
           /\ \E p \in Observed : /\ Value(p) = score'
                                  /\ p \in Dated => gathered[p].at >= chosenAt]_ratingVars

\* "Keep local score" (recent-events.astro) sends the local score.
KeptScoreSent ==
    [][KeepLocalScore => sending' \subseteq sending \cup (Pushing \X {score})]_ratingVars
=============================================================================
