-------------------------- MODULE Decisions_proofs -------------------------
(***************************************************************************)
(* Proofs about RatingMerge, for any providers, scores and bound of time,  *)
(* and about PlaybackSessions, for any titles, handlers and bound of time. *)
(***************************************************************************)
EXTENDS RatingMerge, PlaybackSessions, TLAPS

LEMMA ProjectedType ==
    ASSUME NEW s \in Scores
    PROVE  Projected(s) \in Scores /\ Truncated(Projected(s)) = Projected(s)
<1>1. Projected(s) \in Scores
  BY RatingsAssumption DEF Whole
<1>2. s \in Nat
  BY RatingsAssumption
<1> QED
  BY <1>1, <1>2 DEF Projected, Truncated

LEMMA ValueType ==
    ASSUME RatingsTypeOK, NEW p \in Observed
    PROVE  /\ p \in Providers /\ gathered[p] \in Observation
           /\ Value(p) \in Scores /\ Clock(p) \in Time
BY RatingsAssumption DEF RatingsTypeOK, Observed, Observation, Value, Echoes, Clock, Local, Time

LEMMA WinnersAreCandidates == Winners \subseteq Candidates /\ Candidates \subseteq Changed /\ Changed \subseteq Observed
BY DEF Winners, Candidates, Changed, Latest

---------------------------------------------------------------------------
(* Types.                                                                  *)

LEMMA OfferType ==
    ASSUME RatingsTypeOK, NEW s \in Local, Offer(s)
    PROVE  sending' \subseteq Pushing \X Local
BY DEF RatingsTypeOK, Offer

LEMMA StampType ==
    ASSUME RatingsTypeOK, NEW p \in Providers, NEW s \in Local, Stamp(p, s)
    PROVE  /\ now' \in Time /\ now' # 0 /\ now <= now'
           /\ held' \in [Providers -> Local]
           /\ heldAt' \in [Providers -> Time]
BY RatingsAssumption DEF RatingsTypeOK, Stamp, Time

LEMMA GatherType ==
    ASSUME RatingsTypeOK, NEW p \in Providers, Gather(p)
    PROVE  /\ gathered' \in [Providers -> Observation \cup {NoScore}]
           /\ \A q \in Providers \ {p} : gathered'[q] = gathered[q]
           /\ gathered'[p] = NoScore <=> held[p] = NoScore
           /\ gathered'[p] # NoScore => gathered'[p].value = held[p]
           /\ gathered'[p] # NoScore /\ p \in Dated => gathered'[p].at = heldAt[p]
BY RatingsAssumption DEF RatingsTypeOK, Gather, Observation, Time, Local

LEMMA RatingsTypeStep == RatingsTypeOK /\ [RatingsNext]_ratingVars => RatingsTypeOK'
<1> SUFFICES ASSUME RatingsTypeOK, [RatingsNext]_ratingVars PROVE RatingsTypeOK'
  OBVIOUS
<1> USE RatingsAssumption
<1> USE DEF copies, baselines, mergeState, ratingRow
<1>0. Time \subseteq Nat /\ Scores \subseteq Local
  BY DEF Time, Local
<1>1. ASSUME NEW s \in Scores, UserRates(s) PROVE RatingsTypeOK'
  <2>1. sending' \subseteq Pushing \X Local
    BY <1>0, <1>1, OfferType DEF UserRates, RatingsTypeOK
  <2> QED
    BY <1>0, <1>1, <2>1 DEF UserRates, Choose, RatingsTypeOK, Time
<1>2. CASE UseProviderScore
  <2>1. review.proposed \in Scores
    BY <1>2 DEF UseProviderScore, RatingsTypeOK
  <2>2. sending' \subseteq Pushing \X Local
    BY <1>0, <1>2, <2>1, OfferType DEF UseProviderScore
  <2>3. score' \in Local /\ review' = NoScore /\ Choose
    BY <1>0, <1>2, <2>1 DEF UseProviderScore
  <2> HIDE RatingsAssumption
  <2> QED
    BY <2>2, <2>3, RatingsAssumption DEF Choose, RatingsTypeOK, Time
<1>3. CASE KeepLocalScore
  <2>1. review.previous \in Local
    BY <1>3 DEF KeepLocalScore, RatingsTypeOK
  <2>2. sending' \subseteq Pushing \X Local
    BY <1>3, <2>1, OfferType DEF KeepLocalScore
  <2> QED
    BY <1>3, <2>2 DEF KeepLocalScore, Choose, RatingsTypeOK, Time
<1>4. ASSUME NEW p \in Providers, NEW s \in Scores, OwnerRates(p, s) PROVE RatingsTypeOK'
  BY <1>0, <1>4, StampType DEF OwnerRates, RatingsTypeOK
<1>5. ASSUME NEW p \in Pushing, NEW s \in Local, WriteLands(p, s) PROVE RatingsTypeOK'
  <2>1. PICK v \in Local : Stamp(p, v)
    BY <1>5, ProjectedType DEF WriteLands, Local
  <2>2. p \in Providers
    BY <1>5
  <2> QED
    BY <1>5, <2>1, <2>2, StampType DEF WriteLands, RatingsTypeOK
<1>6. CASE CycleStarts
  BY <1>6 DEF CycleStarts, RatingsTypeOK, Time
<1>7. ASSUME NEW p \in Providers, Collect(p) \/ CollectFails(p) PROVE RatingsTypeOK'
  BY <1>7, GatherType DEF Collect, CollectFails, RatingsTypeOK, Time
<1>8. CASE Reconcile
  <2>1. /\ score' \in Local /\ ratedAt' \in Time /\ sending' \subseteq Pushing \X Local
        /\ review' \in {NoScore} \cup [previous : Local, proposed : Scores]
    <3>1. CASE RatedMeanwhile \/ Candidates = {}
      BY <1>8, <3>1 DEF Reconcile, RatingsTypeOK
    <3>2. CASE ~(RatedMeanwhile \/ Candidates = {}) /\ Winners = {}
      BY <1>8, <3>2, ValueType DEF Reconcile, Dispute, RatingsTypeOK
    <3>3. ASSUME ~(RatedMeanwhile \/ Candidates = {}), NEW p \in Winners, Accept(p)
          PROVE  <2>1!:
      <4>1. \A q \in Winners : Value(q) \in Scores /\ Clock(q) \in Time
        BY ValueType, WinnersAreCandidates
      <4>2. CASE Value(p) = score
        BY <3>3, <4>2 DEF Accept, RatingsTypeOK
      <4>3. CASE Value(p) # score
        <5>1. PICK at \in Time : ratedAt' = IF at = 0 THEN started ELSE at
          BY <3>3, <4>1, <4>3 DEF Accept
        <5>2. score' = Value(p) /\ review' = NoScore
          BY <3>3, <4>3 DEF Accept
        <5>3. sending' = sending \cup ((Pushing \ Winners) \X {Value(p)})
          BY <3>3, <4>3 DEF Accept
        <5>4. Value(p) \in Local
          BY <1>0, <3>3, <4>1
        <5>5. sending' \subseteq Pushing \X Local
          BY <5>3, <5>4 DEF RatingsTypeOK
        <5> QED
          BY <5>1, <5>2, <5>4, <5>5 DEF RatingsTypeOK
      <4> QED
        BY <4>2, <4>3
    <3> QED
      BY <1>8, <3>1, <3>2, <3>3 DEF Reconcile
  <2>2. /\ baseline' \in [Providers -> Local]
        /\ baselineAt' \in [Providers -> Time]
    <3>1. \A p \in Providers : gathered[p] # NoScore => gathered[p].value \in Local
      BY <1>0 DEF RatingsTypeOK, Observation
    <3>2. NoScore \in Local
      BY DEF Local
    <3> QED
      BY <1>8, <3>1, <3>2 DEF Reconcile, RatingsTypeOK
  <2> QED
    BY <1>8, <2>1, <2>2 DEF Reconcile, EndCycle, NoObservations, RatingsTypeOK, Time
<1>9. CASE CycleStops
  BY <1>9 DEF CycleStops, EndCycle, NoObservations, RatingsTypeOK, Time
<1>10. CASE UNCHANGED ratingVars
  BY <1>10 DEF ratingVars, RatingsTypeOK
<1> QED
  BY <1>1, <1>2, <1>3, <1>4, <1>5, <1>6, <1>7, <1>8, <1>9, <1>10 DEF RatingsNext

\* The score, its review, the copies, the baselines and the cycle are well typed.
THEOREM RatingsTypeCorrect == RatingsSpec => []RatingsTypeOK
<1>1. RatingsInit => RatingsTypeOK
  BY RatingsAssumption
  DEF RatingsInit, RatingsTypeOK, NoObservations, Time, Local
<1> QED
  BY <1>1, RatingsTypeStep, PTL DEF RatingsSpec

---------------------------------------------------------------------------
(* A choice of the user stands against what is stamped before it.          *)

\* Nothing is stamped ahead of the clock, the row is stamped no earlier than the
\* last choice, no choice shares its instant with the start of a cycle, and what a
\* dated provider holds has a stamp.
ClocksInv ==
    /\ RatingsTypeOK
    /\ started <= now /\ chosenAt <= now /\ chosenAt <= ratedAt
    /\ started # 0 => chosenAt # started
    /\ \A p \in Providers : held[p] # NoScore => heldAt[p] # 0
    /\ \A p \in Dated : gathered[p] # NoScore => gathered[p].at # 0

\* A dated source goes by its own stamp, and only if the row is not newer.
LEMMA CandidateClock ==
    ASSUME ClocksInv, NEW p \in Candidates
    PROVE  /\ Clock(p) \in Time
           /\ Clock(p) # 0 => chosenAt <= Clock(p)
           /\ p \in Dated => Clock(p) = gathered[p].at /\ Clock(p) # 0
<1>1. p \in Observed
  BY WinnersAreCandidates
<1>2. Clock(p) \in Time /\ p \in Providers
  BY <1>1, ValueType DEF ClocksInv
<1>3. Clock(p) # 0 => chosenAt <= Clock(p)
  <2>1. Clock(p) # 0 => ratedAt = 0 \/ Clock(p) >= ratedAt
    BY DEF Candidates
  <2> QED
    BY <1>2, <2>1 DEF ClocksInv, RatingsTypeOK, Time
<1>4. ASSUME p \in Dated PROVE Clock(p) = gathered[p].at /\ Clock(p) # 0
  BY <1>1, <1>4 DEF Clock, Inferred, ClocksInv, Observed
<1> QED
  BY <1>2, <1>3, <1>4

LEMMA ClocksStep == ClocksInv /\ [RatingsNext]_ratingVars => ClocksInv'
<1> SUFFICES ASSUME ClocksInv, [RatingsNext]_ratingVars PROVE ClocksInv'
  OBVIOUS
<1> USE DEF copies, baselines, mergeState, ratingRow
<1>0. RatingsTypeOK' /\ RatingsTypeOK
  BY RatingsTypeStep DEF ClocksInv
<1>t. /\ now \in Nat /\ started \in Nat /\ chosenAt \in Nat /\ ratedAt \in Nat
      /\ now' \in Nat /\ started' \in Nat /\ chosenAt' \in Nat /\ ratedAt' \in Nat
  BY <1>0 DEF RatingsTypeOK, Time
<1>1. ASSUME NEW s \in Scores, UserRates(s) PROVE ClocksInv'
  BY <1>0, <1>1, <1>t DEF UserRates, Choose, ClocksInv
<1>2. CASE UseProviderScore
  BY <1>0, <1>2, <1>t DEF UseProviderScore, Choose, ClocksInv
<1>3. CASE KeepLocalScore
  BY <1>0, <1>3, <1>t DEF KeepLocalScore, Choose, ClocksInv
<1>4. ASSUME NEW p \in Providers, NEW s \in Local, Stamp(p, s)
      PROVE  now <= now' /\ \A q \in Providers : held'[q] # NoScore => heldAt'[q] # 0
  BY <1>0, <1>4, <1>t DEF Stamp, ClocksInv, RatingsTypeOK
<1>5. ASSUME NEW p \in Providers, NEW s \in Scores, OwnerRates(p, s) PROVE ClocksInv'
  BY <1>0, <1>4, <1>5, <1>t DEF OwnerRates, ClocksInv, Local
<1>6. ASSUME NEW p \in Pushing, NEW s \in Local, WriteLands(p, s) PROVE ClocksInv'
  <2>1. PICK v \in Local : Stamp(p, v)
    BY <1>6, ProjectedType DEF WriteLands, Local
  <2>2. p \in Providers
    BY RatingsAssumption
  <2> QED
    BY <1>0, <1>4, <1>6, <1>t, <2>1, <2>2 DEF WriteLands, ClocksInv
<1>7. CASE CycleStarts
  BY <1>0, <1>7, <1>t DEF CycleStarts, ClocksInv
<1>8. ASSUME NEW p \in Providers, Collect(p) \/ CollectFails(p) PROVE ClocksInv'
  <2>1. Gather(p)
    BY <1>8 DEF Collect, CollectFails
  <2>2. \A q \in Dated : gathered'[q] # NoScore => gathered'[q].at # 0
    BY <1>0, <2>1, GatherType DEF ClocksInv, Providers
  <2> QED
    BY <1>0, <1>8, <1>t, <2>2 DEF Collect, CollectFails, ClocksInv
<1>9. CASE Reconcile
  <2>1. chosenAt <= ratedAt'
    <3>1. CASE UNCHANGED ratedAt
      BY <3>1 DEF ClocksInv
    <3>2. ASSUME ~RatedMeanwhile, NEW p \in Winners, Accept(p), Value(p) # score
          PROVE  chosenAt <= ratedAt'
      <4>1. PICK q \in Winners : ratedAt' = IF Clock(q) = 0 THEN started ELSE Clock(q)
        BY <3>2 DEF Accept
      <4>2. Clock(q) # 0 => chosenAt <= Clock(q)
        BY CandidateClock, WinnersAreCandidates
      <4>3. chosenAt <= started
        BY <1>t, <3>2 DEF RatedMeanwhile, ClocksInv
      <4> QED
        BY <4>1, <4>2, <4>3
    <3> QED
      BY <1>9, <3>1, <3>2 DEF Reconcile, Dispute, Accept
  <2>2. \A p \in Dated : gathered'[p] = NoScore
    BY <1>9 DEF Reconcile, EndCycle, NoObservations, Providers
  <2> QED
    BY <1>0, <1>9, <1>t, <2>1, <2>2 DEF Reconcile, EndCycle, ClocksInv
<1>10. CASE CycleStops
  BY <1>0, <1>10, <1>t DEF CycleStops, EndCycle, NoObservations, Providers, ClocksInv
<1>11. CASE UNCHANGED ratingVars
  BY <1>0, <1>11 DEF ratingVars, ClocksInv
<1> QED
  BY <1>1, <1>2, <1>3, <1>5, <1>6, <1>7, <1>8, <1>9, <1>10, <1>11 DEF RatingsNext

LEMMA ClocksInvariant == RatingsSpec => []ClocksInv
<1>1. RatingsInit => RatingsTypeOK
  BY RatingsAssumption DEF RatingsInit, RatingsTypeOK, NoObservations, Time, Local
<1>2. RatingsInit => ClocksInv
  BY <1>1 DEF RatingsInit, ClocksInv, NoObservations, Providers
<1> QED
  BY <1>2, ClocksStep, PTL DEF RatingsSpec

\* What replaces the score of the user can be placed after the last choice
\* (resolve: "A known older edit ... cannot replace current state").
THEOREM ChoiceStandsTheorem == RatingsSpec => ChoiceStands
<1>1. ASSUME ClocksInv, Reconcile, score' # score
      PROVE  /\ chosenAt < started
             /\ \E p \in Observed : /\ Value(p) = score'
                                    /\ p \in Dated => gathered[p].at >= chosenAt
  <2>1. ~RatedMeanwhile
    BY <1>1 DEF Reconcile, ratingRow
  <2>2. PICK p \in Winners : Accept(p) /\ Value(p) # score
    BY <1>1 DEF Reconcile, Dispute, Accept, ratingRow
  <2>3. chosenAt < started
    BY <1>1, <2>1 DEF RatedMeanwhile, ClocksInv, RatingsTypeOK, Time, Reconcile
  <2>4. p \in Observed /\ Value(p) = score'
    BY <2>2, WinnersAreCandidates DEF Accept
  <2>5. p \in Dated => gathered[p].at >= chosenAt
    <3>1. Clock(p) \in Nat /\ chosenAt \in Nat
      BY <1>1, <2>2, CandidateClock, WinnersAreCandidates DEF ClocksInv, RatingsTypeOK, Time
    <3> QED
      BY <1>1, <2>2, <3>1, CandidateClock, WinnersAreCandidates
  <2> QED
    BY <2>3, <2>4, <2>5
<1> QED
  BY <1>1, ClocksInvariant, PTL DEF RatingsSpec, ChoiceStands

---------------------------------------------------------------------------
(* Once a cycle has read every provider, nothing is proposed again.        *)

\* The score, exactly or rounded by a provider.
Copied(v) == v = score \/ Echoes(v)
\* A value by which resolve leaves the score as it is.
Familiar(p, v) == v = NoScore \/ v = baseline[p] \/ Copied(v)
\* Providers the cycle under way has read.
Gathered == {p \in Providers : p \in collected \/ gathered[p] # NoScore}
\* The provider still holds what the cycle read there.
AsRead(p) == IF gathered[p] = NoScore THEN held[p] = NoScore ELSE held[p] = gathered[p].value

\* Since a complete cycle, a provider holds what its baseline says or the score,
\* written to it since; what a cycle has read meanwhile is either of the two.
CalmInv ==
    /\ RatingsTypeOK
    /\ started = 0 => Gathered = {}
    /\ calm = "cycle" => started # 0 /\ \A p \in Gathered : AsRead(p)
    /\ calm = "yes" =>
           /\ \A p \in Providers : /\ Familiar(p, held[p])
                                   /\ gathered[p] # NoScore => Familiar(p, gathered[p].value)
           /\ \A p \in Gathered : AsRead(p) \/ Copied(held[p])

\* What still counts as a change is a copy of the score.
LEMMA ChangesAreEchoes ==
    ASSUME CalmInv, calm = "yes", NEW p \in Changed
    PROVE  Value(p) = score
<1>1. p \in Observed
  BY DEF Changed
<1>2. /\ p \in Providers /\ gathered[p] # NoScore
      /\ gathered[p].value # NoScore /\ baseline[p] # gathered[p].value
  <2>1. p \in Providers /\ gathered[p] # NoScore
    BY <1>1 DEF Observed
  <2>2. gathered[p].value # NoScore
    BY <1>1, ValueType, RatingsAssumption DEF CalmInv, Observation
  <2>3. baseline[p] # gathered[p].value
    BY <2>2 DEF Changed, Previous
  <2> QED
    BY <2>1, <2>2, <2>3
<1>3. Familiar(p, gathered[p].value)
  BY <1>2 DEF CalmInv
<1>4. Copied(gathered[p].value)
  BY <1>2, <1>3 DEF Familiar
<1> QED
  BY <1>4 DEF Value, Copied

LEMMA CalmDecides ==
    ASSUME CalmInv, calm = "yes", Reconcile
    PROVE  UNCHANGED <<score, review, sending>>
<1>1. CASE RatedMeanwhile \/ Candidates = {}
  BY <1>1 DEF Reconcile, ratingRow
<1>2. CASE ~(RatedMeanwhile \/ Candidates = {})
  <2>1. \A p \in Candidates : Value(p) = score
    BY ChangesAreEchoes, WinnersAreCandidates
  <2>2. Winners = Candidates
    BY <2>1 DEF Winners
  <2>3. PICK p \in Winners : Accept(p)
    BY <1>2, <2>2 DEF Reconcile
  <2> QED
    BY <2>1, <2>2, <2>3 DEF Accept, ratingRow
<1> QED
  BY <1>1, <1>2

LEMMA CalmStep == CalmInv /\ [RatingsNext]_ratingVars => CalmInv'
<1> SUFFICES ASSUME CalmInv, [RatingsNext]_ratingVars PROVE CalmInv'
  OBVIOUS
<1> USE DEF copies, baselines, mergeState, ratingRow, AsRead, Familiar, Copied, Echoes, Gathered
<1>0. RatingsTypeOK' /\ RatingsTypeOK
  BY RatingsTypeStep DEF CalmInv
<1>1. ASSUME NEW s \in Scores, UserRates(s) PROVE CalmInv'
  BY <1>0, <1>1 DEF UserRates, Choose, CalmInv
<1>2. CASE UseProviderScore
  BY <1>0, <1>2 DEF UseProviderScore, Choose, CalmInv
<1>3. CASE KeepLocalScore
  BY <1>0, <1>3 DEF KeepLocalScore, Choose, CalmInv
<1>4. ASSUME NEW p \in Providers, NEW s \in Scores, OwnerRates(p, s) PROVE CalmInv'
  BY <1>0, <1>4 DEF OwnerRates, CalmInv
<1>5. ASSUME NEW p \in Pushing, NEW s \in Local, WriteLands(p, s) PROVE CalmInv'
  <2>1. CASE calm' = "no"
    BY <1>0, <1>5, <2>1 DEF WriteLands, CalmInv
  <2>2. CASE calm' # "no"
    <3>1. calm = "yes" /\ s = score /\ s # NoScore
      BY <1>5, <2>2 DEF WriteLands
    <3>2. PICK v \in Local : held' = [held EXCEPT ![p] = v] /\ v \in {score, Projected(score)}
      BY <1>5, <3>1, ProjectedType DEF WriteLands, Stamp, Local
    <3>3. Copied(v)
      BY <3>1, <3>2, ProjectedType DEF Local
    <3>4. \A q \in Providers : held'[q] = held[q] \/ Copied(held[q])'
      BY <1>0, <1>5, <3>1, <3>2, <3>3 DEF RatingsTypeOK, WriteLands
    <3> QED
      BY <1>0, <1>5, <3>1, <3>4 DEF WriteLands, CalmInv, RatingsTypeOK
  <2> QED
    BY <2>1, <2>2
<1>6. CASE CycleStarts
  BY <1>0, <1>6 DEF CycleStarts, CalmInv, RatingsTypeOK, Time
<1>7. ASSUME NEW p \in Providers, Collect(p) \/ CollectFails(p) PROVE CalmInv'
  <2>1. Gather(p) /\ started # 0
    BY <1>7 DEF Collect, CollectFails
  <2>2. collected' \subseteq collected \cup {p}
    BY <1>7 DEF Collect, CollectFails
  <2> QED
    BY <1>0, <1>7, <2>1, <2>2, GatherType DEF Collect, CollectFails, CalmInv
<1>8. CASE Reconcile
  <2>1. /\ \A p \in Providers : gathered'[p] = NoScore
        /\ collected' = {} /\ held' = held /\ calm' # "cycle"
    BY <1>8 DEF Reconcile, EndCycle, NoObservations
  <2>2. ASSUME calm' = "yes", calm = "yes" PROVE UNCHANGED score
    BY <1>8, <2>2, CalmDecides
  <2>3. ASSUME calm' = "yes", NEW p \in Providers PROVE Familiar(p, held[p])'
    <3>1. calm = "yes" \/ (calm = "cycle" /\ p \in collected)
      BY <1>8, <2>3 DEF Reconcile
    <3>2. CASE p \in Gathered /\ AsRead(p)
      <4>1. baseline'[p] \in {gathered[p].value, baseline[p], NoScore}
        BY <1>8 DEF Reconcile
      <4>2. p \in collected /\ gathered[p] # NoScore => baseline'[p] = gathered[p].value
        BY <1>8 DEF Reconcile
      <4>3. p \notin collected => baseline'[p] \in {gathered[p].value, baseline[p]}
        BY <1>8 DEF Reconcile
      <4> QED
        BY <2>1, <2>2, <2>3, <3>1, <3>2, <4>1, <4>2, <4>3 DEF CalmInv
    <3>3. CASE calm = "yes" /\ Copied(held[p])
      BY <2>1, <2>2, <2>3, <3>3
    <3>4. CASE calm = "yes" /\ p \notin Gathered
      <4>1. baseline'[p] = baseline[p]
        BY <1>8, <3>4 DEF Reconcile
      <4> QED
        BY <2>1, <2>2, <2>3, <3>4, <4>1 DEF CalmInv
    <3> QED
      BY <3>1, <3>2, <3>3, <3>4 DEF CalmInv
  <2> QED
    BY <1>0, <2>1, <2>3 DEF CalmInv
<1>9. CASE CycleStops
  BY <1>0, <1>9 DEF CycleStops, EndCycle, NoObservations, CalmInv
<1>10. CASE UNCHANGED ratingVars
  BY <1>0, <1>10 DEF ratingVars, CalmInv
<1> QED
  BY <1>1, <1>2, <1>3, <1>4, <1>5, <1>6, <1>7, <1>8, <1>9, <1>10 DEF RatingsNext

LEMMA CalmInvariant == RatingsSpec => []CalmInv
<1>1. RatingsInit => RatingsTypeOK
  BY RatingsAssumption DEF RatingsInit, RatingsTypeOK, NoObservations, Time, Local
<1>2. RatingsInit => CalmInv
  BY <1>1 DEF RatingsInit, CalmInv, NoObservations, Gathered
<1> QED
  BY <1>2, CalmStep, PTL DEF RatingsSpec

\* A provider that cannot receive pushes does not propose its old value again, nor
\* does one that gives the score back rounded.
THEOREM SettledStaysTheorem == RatingsSpec => SettledStays
<1>1. ASSUME CalmInv, calm = "yes", Reconcile PROVE UNCHANGED <<score, review>>
  BY <1>1, CalmDecides
<1> QED
  BY <1>1, CalmInvariant, PTL DEF RatingsSpec, SettledStays

---------------------------------------------------------------------------
(* What "Keep local score" gets wrong, and only that.                      *)

\* The review shows a local score that is not the local score any more.
ReviewOutdated == review # NoScore /\ review.previous # score

\* Only a rating outdates a review, and only an outdated one sends another score.
KeptScoreCause ==
    [][/\ ~ReviewOutdated /\ ReviewOutdated' => \E s \in Scores \ {score} : UserRates(s)
       /\ KeepLocalScore /\ ~ReviewOutdated =>
             sending' \subseteq sending \cup (Pushing \X {score})]_ratingVars

\* kept_score has one cause: a review outlives a rating the user gives while it is open.
\* No cycle, late write or owner makes a review show an old score, and from a review that
\* shows the score in force that score is sent (submit_rating, resolve_event, _review).
THEOREM KeptScoreCauseTheorem == RatingsSpec => KeptScoreCause
<1> DEFINE Cause ==
        /\ ~ReviewOutdated /\ ReviewOutdated' => \E s \in Scores \ {score} : UserRates(s)
        /\ KeepLocalScore /\ ~ReviewOutdated =>
              sending' \subseteq sending \cup (Pushing \X {score})
<1>1. ASSUME RatingsNext, ~ReviewOutdated, ReviewOutdated'
      PROVE  \E s \in Scores \ {score} : UserRates(s)
  <2>1. ASSUME NEW s \in Scores, UserRates(s) PROVE s # score
    BY <1>1, <2>1 DEF UserRates, ReviewOutdated
  <2>2. CASE UseProviderScore \/ KeepLocalScore
    BY <1>1, <2>2 DEF UseProviderScore, KeepLocalScore, ReviewOutdated
  <2>3. CASE Reconcile
    <3>1. \/ UNCHANGED ratingRow
          \/ Dispute
          \/ review' = NoScore
      BY <2>3 DEF Reconcile, Accept
    <3> QED
      BY <1>1, <3>1 DEF Dispute, ReviewOutdated, ratingRow
  <2>4. ASSUME UNCHANGED <<score, review>> PROVE FALSE
    BY <1>1, <2>4 DEF ReviewOutdated
  <2>5. CASE \/ \E p \in Providers, s \in Scores : OwnerRates(p, s)
             \/ \E p \in Pushing, s \in Local : WriteLands(p, s)
             \/ CycleStarts \/ CycleStops
             \/ \E p \in Providers : Collect(p) \/ CollectFails(p)
    BY <2>4, <2>5 DEF OwnerRates, WriteLands, CycleStarts, CycleStops, Collect, CollectFails,
       ratingRow
  <2> QED
    BY <1>1, <2>1, <2>2, <2>3, <2>5 DEF RatingsNext
<1>2. ASSUME KeepLocalScore, ~ReviewOutdated
      PROVE  sending' \subseteq sending \cup (Pushing \X {score})
  BY <1>2 DEF KeepLocalScore, ReviewOutdated, Offer
<1>3. RatingsNext => Cause
  BY <1>1, <1>2
<1>4. [RatingsNext]_ratingVars => [Cause]_ratingVars
  BY <1>3
<1> QED
  BY <1>4, PTL DEF RatingsSpec, KeptScoreCause

---------------------------------------------------------------------------
(* Playback sessions: no two watches of one viewing.                       *)

LEMMA EndsType ==
    ASSUME PlaybackTypeOK, NEW a \in Actors, NEW next \in Phases, NEW at \in Minutes,
           EndsAs(a, next, at)
    PROVE  /\ task' \in [Actors -> Phases]
           /\ subject' \in [Actors -> SUBSET Films]
           /\ since' \in [Actors -> Minutes]
           /\ locked' \in [Actors -> SUBSET Films]
           /\ ended' \in [Actors -> SUBSET Films]
           /\ added' \in [Actors -> SUBSET (Films \X Minutes)]
BY PlaybackAssumption DEF EndsAs, PlaybackTypeOK, Minutes

LEMMA IdleAtZero == "idle" \in Phases /\ "marked" \in Phases /\ 0 \in Minutes
BY PlaybackAssumption DEF Phases, Minutes

LEMMA CommitsType ==
    ASSUME PlaybackTypeOK, NEW a \in Actors, NEW next \in Phases, NEW at \in Minutes,
           CommitsAs(a, next, at), UNCHANGED clock
    PROVE  PlaybackTypeOK'
<1>1. watches' \in [Films -> [Minutes -> Nat]]
  BY DEF CommitsAs, PlaybackTypeOK
<1>2. /\ manual' \in [Films -> {"playing", "paused", "none"}]
      /\ due' \in [Films -> 0 .. (LastMinute + Runtime)]
  BY PlaybackAssumption DEF CommitsAs, PlaybackTypeOK
<1> QED
  BY <1>1, <1>2, EndsType DEF CommitsAs, PlaybackTypeOK

LEMMA SessionsGoneType ==
    ASSUME PlaybackTypeOK, NEW gone \in SUBSET Films, SessionsGone(gone)
    PROVE  PlaybackTypeOK'
BY PlaybackAssumption DEF SessionsGone, PlaybackTypeOK

LEMMA PlaybackTypeStep == PlaybackTypeOK /\ [PlaybackNext]_playbackVars => PlaybackTypeOK'
<1> SUFFICES ASSUME PlaybackTypeOK, [PlaybackNext]_playbackVars PROVE PlaybackTypeOK'
  OBVIOUS
<1> USE PlaybackAssumption
<1> USE DEF sessionRows, transactions
<1>0. Handlers \subseteq Actors /\ Completer \in Actors
  BY DEF Actors
<1>1. CASE PlaybackTick
  BY <1>1 DEF PlaybackTick, PlaybackTypeOK, Minutes
<1>2. CASE ClearSessions
  BY <1>2, SessionsGoneType DEF ClearSessions
<1>3. CASE PlaybackRestarts
  BY <1>3, IdleAtZero DEF PlaybackRestarts, PlaybackTypeOK
<1>4. CASE CompleterSelects
  <2>1. RanOut \subseteq Films
    BY DEF RanOut
  <2> QED
    BY <1>0, <1>4, <2>1 DEF CompleterSelects, PlaybackTypeOK, Phases
<1>5. CASE CompleterCommits
  BY <1>0, <1>5, CommitsType, IdleAtZero DEF CompleterCommits, Commits
<1>6. CASE CompleterRollsBack
  BY <1>0, <1>6, EndsType, IdleAtZero DEF CompleterRollsBack, Ends, PlaybackTypeOK
<1>7. ASSUME NEW t \in Films, StartSession(t) PROVE PlaybackTypeOK'
  <2>1. clock + Runtime \in 0 .. (LastMinute + Runtime)
    BY DEF PlaybackTypeOK, Minutes
  <2> QED
    BY <1>7, <2>1 DEF StartSession, PlaybackTypeOK
<1>8. ASSUME NEW t \in Films, Dismiss(t) PROVE PlaybackTypeOK'
  BY <1>8, SessionsGoneType DEF Dismiss
<1>9. ASSUME NEW t \in Films, CompleterEnds(t) PROVE PlaybackTypeOK'
  <2>1. since[Completer] \in Minutes
    BY <1>0 DEF PlaybackTypeOK
  <2> QED
    BY <1>0, <1>9, <2>1 DEF CompleterEnds, PlaybackTypeOK
<1>10. ASSUME NEW t \in Films, NEW p \in 0 .. Runtime, NEW state \in {"playing", "paused"},
              Heartbeat(t, p, state)
       PROVE  PlaybackTypeOK'
  <2>1. clock + Runtime - p \in 0 .. (LastMinute + Runtime) /\ 0 \in 0 .. (LastMinute + Runtime)
    BY DEF PlaybackTypeOK, Minutes
  <2> QED
    BY <1>10, <2>1 DEF Heartbeat, PlaybackTypeOK
<1>11. ASSUME NEW t \in Films, Unwatch(t) PROVE PlaybackTypeOK'
  BY <1>11 DEF Unwatch, PlaybackTypeOK
<1>12. ASSUME NEW t \in Films, NEW m \in Minutes, RemoveEvent(t, m) PROVE PlaybackTypeOK'
  <2>1. watches[t][m] > 0 => watches[t] \in [Minutes -> Nat] /\ watches[t][m] - 1 \in Nat
    BY DEF PlaybackTypeOK
  <2> QED
    BY <1>12, <2>1 DEF RemoveEvent, PlaybackTypeOK
<1>13. ASSUME NEW t \in Films, NEW h \in Handlers, NEW what \in Tasks, Arrives(h, t, what)
       PROVE  PlaybackTypeOK'
  BY <1>0, <1>13 DEF Arrives, PlaybackTypeOK, Phases
<1>14. ASSUME NEW t \in Films, NEW h \in Handlers, NEW at \in 0 .. clock,
              LooksForDuplicate(h, t, at)
       PROVE  PlaybackTypeOK'
  <2>1. at \in Minutes
    BY DEF PlaybackTypeOK, Minutes
  <2> QED
    BY <1>0, <1>14, <2>1 DEF LooksForDuplicate, PlaybackTypeOK
<1>15. ASSUME NEW h \in Handlers, HandlerCommits(h) PROVE PlaybackTypeOK'
  BY <1>0, <1>15, CommitsType, IdleAtZero DEF HandlerCommits, Commits
<1>16. ASSUME NEW h \in Handlers, HandlerFails(h) PROVE PlaybackTypeOK'
  BY <1>0, <1>16, EndsType, IdleAtZero DEF HandlerFails, Ends, PlaybackTypeOK
<1>17. ASSUME NEW t \in Films, NEW m \in Minutes, WritesUnlooked(t, m) PROVE PlaybackTypeOK'
  BY <1>17 DEF WritesUnlooked, PlaybackTypeOK
<1>18. ASSUME NEW h \in Handlers, NEW at \in Minutes, MarkCommits(h, at)
       PROVE  PlaybackTypeOK'
  BY <1>0, <1>18, CommitsType, IdleAtZero DEF MarkCommits
<1>19. ASSUME NEW h \in Handlers, NEW earlier \in SUBSET Films, ReadsEarlier(h, earlier)
       PROVE  PlaybackTypeOK'
  BY <1>0, <1>19 DEF ReadsEarlier, PlaybackTypeOK, Phases
<1>20. ASSUME NEW h \in Handlers, InfersEarlier(h) PROVE PlaybackTypeOK'
  <2>1. unlooked' \subseteq Films \X Minutes
    BY <1>0, <1>20 DEF InfersEarlier, PlaybackTypeOK
  <2> QED
    BY <1>0, <1>20, <2>1, EndsType, IdleAtZero DEF InfersEarlier, Ends, PlaybackTypeOK
<1>21. CASE UNCHANGED playbackVars
  BY <1>21 DEF playbackVars, PlaybackTypeOK
<1> QED
  BY <1>1, <1>2, <1>3, <1>4, <1>5, <1>6, <1>7, <1>8, <1>9, <1>10, <1>11, <1>12, <1>13,
     <1>14, <1>15, <1>16, <1>17, <1>18, <1>19, <1>20, <1>21 DEF PlaybackNext

\* What a transaction added was no duplicate of a committed watch when it looked,
\* and nobody else can have added one since: it holds the lock of the title.  The
\* completer, which holds several, adds one watch for each.
LockInv ==
    /\ \A a, b \in Actors : a # b => locked[a] \cap locked[b] = {}
    /\ \A a \in Actors : \A t \in Films, m \in Minutes :
         <<t, m>> \in added[a] => t \in locked[a] /\ ~Recorded(t, m)
    /\ \A a \in Actors : \A t \in Films, m, n \in Minutes :
         <<t, m>> \in added[a] /\ <<t, n>> \in added[a] => m = n
    /\ subject[Completer] \cap locked[Completer] = {}
    /\ task[Completer] = "idle" => subject[Completer] = {} /\ locked[Completer] = {}

PlaybackInv == PlaybackTypeOK /\ LockInv /\ OneWatchPerViewing

LEMMA CommitsInv ==
    ASSUME PlaybackInv, NEW a \in Actors, NEW next, NEW at, CommitsAs(a, next, at)
    PROVE  LockInv' /\ OneWatchPerViewing'
<1> USE PlaybackAssumption
<1>0. /\ Minutes \subseteq Int /\ Completer \in Actors
      /\ \A b \in Actors : /\ b = a => locked'[b] = {} /\ added'[b] = {} /\ subject'[b] = {}
                           /\ b # a => /\ locked'[b] = locked[b] /\ added'[b] = added[b]
                                       /\ subject'[b] = subject[b] /\ task'[b] = task[b]
  BY DEF CommitsAs, EndsAs, PlaybackInv, PlaybackTypeOK, Minutes, Actors
<1>1. \A t \in Films, m \in Minutes :
        /\ <<t, m>> \in added[a] => watches'[t][m] = watches[t][m] + 1
        /\ <<t, m>> \notin added[a] => watches'[t][m] = watches[t][m]
        /\ watches[t][m] \in Nat
  <2> SUFFICES ASSUME NEW t \in Films, NEW m \in Minutes
               PROVE  /\ <<t, m>> \in added[a] => watches'[t][m] = watches[t][m] + 1
                      /\ <<t, m>> \notin added[a] => watches'[t][m] = watches[t][m]
                      /\ watches[t][m] \in Nat
    OBVIOUS
  <2>1. watches'[t][m] = watches[t][m] + (IF <<t, m>> \in added[a] THEN 1 ELSE 0)
    BY DEF CommitsAs
  <2>2. watches[t][m] \in Nat
    BY DEF PlaybackInv, PlaybackTypeOK
  <2> QED
    BY <2>1, <2>2
<1>2. LockInv'
  <2>1. \A b \in Actors \ {a} : \A t \in Films, m \in Minutes :
          <<t, m>> \in added[b] => ~Recorded(t, m)'
    <3> SUFFICES ASSUME NEW b \in Actors \ {a}, NEW t \in Films, NEW m \in Minutes,
                        <<t, m>> \in added[b]
                 PROVE  ~Recorded(t, m)'
      OBVIOUS
    <3>1. \A n \in Minutes : <<t, n>> \notin added[a]
      BY DEF PlaybackInv, LockInv
    <3>2. ~Recorded(t, m)
      BY DEF PlaybackInv, LockInv
    <3> QED
      BY <1>1, <3>1, <3>2 DEF Recorded, Near
  <2> QED
    <3>1. \A b \in Actors : \A t \in Films, m \in Minutes :
            <<t, m>> \in added'[b] => t \in locked'[b] /\ ~Recorded(t, m)'
      BY <1>0, <2>1 DEF PlaybackInv, LockInv
    <3>2. \A b, c \in Actors : b # c => locked'[b] \cap locked'[c] = {}
      BY <1>0 DEF PlaybackInv, LockInv
    <3>3. \A b \in Actors : \A t \in Films, m, n \in Minutes :
            <<t, m>> \in added'[b] /\ <<t, n>> \in added'[b] => m = n
      BY <1>0 DEF PlaybackInv, LockInv
    <3>4. subject'[Completer] \cap locked'[Completer] = {}
      BY <1>0 DEF PlaybackInv, LockInv
    <3>5. task'[Completer] = "idle" => subject'[Completer] = {} /\ locked'[Completer] = {}
      BY <1>0 DEF PlaybackInv, LockInv
    <3> QED
      BY <3>1, <3>2, <3>3, <3>4, <3>5 DEF LockInv
<1>3. OneWatchPerViewing'
  <2> SUFFICES ASSUME NEW t \in Films, NEW m \in Minutes, watches'[t][m] > 0
               PROVE  /\ watches'[t][m] = 1
                      /\ \A n \in Minutes : watches'[t][n] > 0 /\ n > m => n > m + Window
    BY DEF OneWatchPerViewing
  <2>1. CASE <<t, m>> \in added[a]
    <3>1. \A n \in Minutes : watches[t][n] > 0 => ~(m - Window <= n /\ n <= m + Window)
      BY <2>1 DEF PlaybackInv, LockInv, Recorded, Near
    <3>2. watches[t][m] = 0
      <4>1. m \in Int /\ Window \in Nat /\ watches[t][m] \in Nat
        BY <1>0, <1>1
      <4> QED
        BY <3>1, <4>1
    <3>3. \A n \in Minutes : n # m => watches'[t][n] = watches[t][n]
      BY <1>1, <2>1 DEF PlaybackInv, LockInv
    <3> QED
      BY <1>0, <1>1, <2>1, <3>1, <3>2, <3>3
  <2>2. CASE <<t, m>> \notin added[a]
    <3>1. watches[t][m] > 0 /\ watches'[t][m] = watches[t][m]
      BY <1>1, <2>2
    <3>2. watches[t][m] = 1
      BY <3>1 DEF PlaybackInv, OneWatchPerViewing
    <3>3. ASSUME NEW n \in Minutes, watches'[t][n] > 0, n > m PROVE n > m + Window
      <4>1. CASE <<t, n>> \in added[a]
        <5>1. ~Recorded(t, n)
          BY <4>1 DEF PlaybackInv, LockInv
        <5>2. ~(n - Window <= m /\ m <= n + Window)
          BY <3>1, <5>1 DEF Recorded, Near
        <5> QED
          BY <1>0, <3>3, <5>2
      <4>2. CASE <<t, n>> \notin added[a]
        <5>1. watches[t][n] > 0
          BY <1>1, <3>3, <4>2
        <5> QED
          BY <3>1, <3>3, <5>1 DEF PlaybackInv, OneWatchPerViewing
      <4> QED
        BY <4>1, <4>2
    <3> QED
      BY <3>1, <3>2, <3>3
  <2> QED
    BY <2>1, <2>2
<1> QED
  BY <1>2, <1>3

LEMMA EndsInv ==
    ASSUME PlaybackInv, NEW a \in Actors, NEW next, NEW at, EndsAs(a, next, at),
           UNCHANGED watches
    PROVE  LockInv' /\ OneWatchPerViewing'
<1>1. /\ Completer \in Actors
      /\ \A b \in Actors : /\ b = a => locked'[b] = {} /\ added'[b] = {} /\ subject'[b] = {}
                           /\ b # a => /\ locked'[b] = locked[b] /\ added'[b] = added[b]
                                       /\ subject'[b] = subject[b] /\ task'[b] = task[b]
  BY DEF EndsAs, PlaybackInv, PlaybackTypeOK, Actors
<1> QED
  BY <1>1 DEF PlaybackInv, LockInv, OneWatchPerViewing, Recorded, Near

\* Nothing that a lock protects changes.
LEMMA SameLocks ==
    ASSUME PlaybackInv, UNCHANGED <<watches, locked, added>>,
           subject'[Completer] = subject[Completer],
           task'[Completer] = task[Completer]
    PROVE  LockInv' /\ OneWatchPerViewing'
BY DEF PlaybackInv, LockInv, OneWatchPerViewing, Recorded, Near

\* Watches are removed.
LEMMA FewerWatches ==
    ASSUME PlaybackInv, UNCHANGED transactions,
           \A t \in Films, m \in Minutes :
             watches'[t][m] \in Nat /\ watches'[t][m] <= watches[t][m]
    PROVE  LockInv' /\ OneWatchPerViewing'
<1>1. \A t \in Films, m \in Minutes :
        /\ watches[t][m] \in Nat /\ watches'[t][m] \in Nat
        /\ watches'[t][m] <= watches[t][m]
  BY DEF PlaybackInv, PlaybackTypeOK
<1>2. \A t \in Films, m \in Minutes : Recorded(t, m)' => Recorded(t, m)
  BY <1>1 DEF Recorded, Near
<1>3. LockInv'
  BY <1>2 DEF PlaybackInv, LockInv, transactions
<1>4. OneWatchPerViewing'
  <2> SUFFICES ASSUME NEW t \in Films, NEW m \in Minutes, watches'[t][m] > 0
               PROVE  /\ watches'[t][m] = 1
                      /\ \A n \in Minutes : watches'[t][n] > 0 /\ n > m => n > m + Window
    BY DEF OneWatchPerViewing
  <2>1. watches[t][m] > 0 /\ \A n \in Minutes : watches'[t][n] > 0 => watches[t][n] > 0
    BY <1>1
  <2> QED
    BY <1>1, <2>1 DEF PlaybackInv, OneWatchPerViewing
<1> QED
  BY <1>3, <1>4

LEMMA PlaybackStep == PlaybackInv /\ [PlaybackNext]_playbackVars => PlaybackInv'
<1> SUFFICES ASSUME PlaybackInv, [PlaybackNext]_playbackVars
             PROVE  LockInv' /\ OneWatchPerViewing'
  BY PlaybackTypeStep DEF PlaybackInv
<1> USE PlaybackAssumption
<1> USE DEF sessionRows, transactions
<1>0. Handlers \subseteq Actors /\ Completer \in Actors /\ Completer \notin Handlers
  BY DEF Actors
<1>1. CASE PlaybackTick
  BY <1>1, SameLocks DEF PlaybackTick
<1>2. CASE ClearSessions
  BY <1>2, SameLocks DEF ClearSessions, SessionsGone
<1>3. CASE PlaybackRestarts
  <2>1. /\ locked' = [a \in Actors |-> {}] /\ added' = [a \in Actors |-> {}]
        /\ subject' = [a \in Actors |-> {}] /\ watches' = watches
    BY <1>3 DEF PlaybackRestarts
  <2> QED
    BY <1>0, <2>1 DEF PlaybackInv, LockInv, OneWatchPerViewing
<1>4. CASE CompleterSelects
  <2>1. locked[Completer] = {}
    BY <1>4 DEF CompleterSelects, PlaybackInv, LockInv
  <2>2. task'[Completer] # "idle"
    BY <1>0, <1>4 DEF CompleterSelects, PlaybackInv, PlaybackTypeOK
  <2>3. UNCHANGED <<watches, locked, added>>
    BY <1>4 DEF CompleterSelects
  <2> QED
    BY <2>1, <2>2, <2>3 DEF PlaybackInv, LockInv, OneWatchPerViewing, Recorded, Near
<1>5. CASE CompleterCommits
  BY <1>0, <1>5, CommitsInv DEF CompleterCommits, Commits
<1>6. CASE CompleterRollsBack
  BY <1>0, <1>6, EndsInv DEF CompleterRollsBack, Ends
<1>7. ASSUME NEW t \in Films, StartSession(t) PROVE LockInv' /\ OneWatchPerViewing'
  BY <1>7, SameLocks DEF StartSession
<1>8. ASSUME NEW t \in Films, Dismiss(t) PROVE LockInv' /\ OneWatchPerViewing'
  BY <1>8, SameLocks DEF Dismiss, SessionsGone
<1>9. ASSUME NEW t \in Films, CompleterEnds(t) PROVE LockInv' /\ OneWatchPerViewing'
  <2> DEFINE asked == since[Completer]
  <2>1. asked \in Minutes
    BY <1>0 DEF PlaybackInv, PlaybackTypeOK
  <2>2. /\ t \in subject[Completer] /\ t \notin locked[Completer]
        /\ task'[Completer] # "idle"
        /\ \A m \in Minutes : <<t, m>> \notin added[Completer]
        /\ \A b \in Actors \ {Completer} : t \notin locked[b]
    BY <1>0, <1>9 DEF CompleterEnds, LockFree, PlaybackInv, LockInv
  <2>3. /\ UNCHANGED watches
        /\ locked'[Completer] = locked[Completer] \cup {t}
        /\ subject'[Completer] = subject[Completer] \ {t}
        /\ added'[Completer] =
             IF Duplicate(t, asked) THEN added[Completer] ELSE added[Completer] \cup {<<t, asked>>}
        /\ \A b \in Actors \ {Completer} :
             locked'[b] = locked[b] /\ added'[b] = added[b]
    BY <1>0, <1>9 DEF CompleterEnds, PlaybackInv, PlaybackTypeOK
  <2> HIDE DEF asked
  <2>4. \A a, b \in Actors : a # b => locked'[a] \cap locked'[b] = {}
    BY <1>0, <2>2, <2>3 DEF PlaybackInv, LockInv
  <2>5. \A a \in Actors : \A u \in Films, m \in Minutes :
          <<u, m>> \in added'[a] => u \in locked'[a] /\ ~Recorded(u, m)
    BY <1>0, <2>1, <2>3 DEF PlaybackInv, LockInv, Duplicate
  <2>6. \A a \in Actors : \A u \in Films, m, n \in Minutes :
          <<u, m>> \in added'[a] /\ <<u, n>> \in added'[a] => m = n
    BY <1>0, <2>1, <2>2, <2>3 DEF PlaybackInv, LockInv
  <2>7. subject'[Completer] \cap locked'[Completer] = {}
    BY <2>3 DEF PlaybackInv, LockInv
  <2>8. OneWatchPerViewing' /\ \A u \in Films, m \in Minutes : Recorded(u, m)' <=> Recorded(u, m)
    BY <2>3 DEF PlaybackInv, OneWatchPerViewing, Recorded, Near
  <2> QED
    BY <2>2, <2>4, <2>5, <2>6, <2>7, <2>8 DEF LockInv
<1>10. ASSUME NEW t \in Films, NEW p \in 0 .. Runtime, NEW state \in {"playing", "paused"},
              Heartbeat(t, p, state)
       PROVE  LockInv' /\ OneWatchPerViewing'
  BY <1>10, SameLocks DEF Heartbeat
<1>11. ASSUME NEW t \in Films, Unwatch(t) PROVE LockInv' /\ OneWatchPerViewing'
  <2>1. \A u \in Films, m \in Minutes :
          watches'[u][m] \in Nat /\ watches'[u][m] <= watches[u][m]
    BY <1>11 DEF Unwatch, PlaybackInv, PlaybackTypeOK
  <2> QED
    BY <1>11, <2>1, FewerWatches DEF Unwatch
<1>12. ASSUME NEW t \in Films, NEW m \in Minutes, RemoveEvent(t, m)
       PROVE  LockInv' /\ OneWatchPerViewing'
  <2>1. \A u \in Films, n \in Minutes :
          watches'[u][n] \in Nat /\ watches'[u][n] <= watches[u][n]
    BY <1>12 DEF RemoveEvent, PlaybackInv, PlaybackTypeOK
  <2> QED
    BY <1>12, <2>1, FewerWatches DEF RemoveEvent
<1>13. ASSUME NEW t \in Films, NEW h \in Handlers, NEW what \in Tasks, Arrives(h, t, what)
       PROVE  LockInv' /\ OneWatchPerViewing'
  <2>1. subject'[Completer] = subject[Completer] /\ task'[Completer] = task[Completer]
    BY <1>0, <1>13 DEF Arrives, PlaybackInv, PlaybackTypeOK
  <2> QED
    BY <1>13, <2>1, SameLocks DEF Arrives
<1>14. ASSUME NEW t \in Films, NEW h \in Handlers, NEW at \in 0 .. clock,
              LooksForDuplicate(h, t, at)
       PROVE  LockInv' /\ OneWatchPerViewing'
  <2>1. at \in Minutes
    BY DEF PlaybackInv, PlaybackTypeOK, Minutes
  <2>2. \A b \in Actors \ {h} : t \notin locked[b]
    BY <1>14 DEF LooksForDuplicate, LockFree
  <2>3. /\ UNCHANGED watches /\ locked'[h] = {t}
        /\ added'[h] = IF Duplicate(t, at) THEN {} ELSE {<<t, at>>}
        /\ \A b \in Actors \ {h} :
             /\ locked'[b] = locked[b] /\ added'[b] = added[b]
             /\ subject'[b] = subject[b] /\ task'[b] = task[b]
    BY <1>0, <1>14 DEF LooksForDuplicate, PlaybackInv, PlaybackTypeOK
  <2>4. \A a, b \in Actors : a # b => locked'[a] \cap locked'[b] = {}
    BY <1>0, <2>2, <2>3 DEF PlaybackInv, LockInv
  <2>5. \A u \in Films, m \in Minutes :
          <<u, m>> \in added'[h] => u = t /\ m = at /\ ~Recorded(t, at)
    <3>1. CASE Duplicate(t, at)
      <4>1. added'[h] = {}
        BY <2>3, <3>1
      <4> QED
        BY <4>1
    <3>2. CASE ~Duplicate(t, at)
      <4>1. added'[h] = {<<t, at>>}
        BY <2>3, <3>2
      <4> QED
        BY <3>2, <4>1 DEF Duplicate
    <3> QED
      BY <3>1, <3>2
  <2>6. \A a \in Actors : \A u \in Films, m \in Minutes :
          <<u, m>> \in added'[a] => u \in locked'[a] /\ ~Recorded(u, m)
    BY <1>0, <2>1, <2>3, <2>5 DEF PlaybackInv, LockInv
  <2>7. \A a \in Actors : \A u \in Films, m, n \in Minutes :
          <<u, m>> \in added'[a] /\ <<u, n>> \in added'[a] => m = n
    BY <1>0, <2>3, <2>5 DEF PlaybackInv, LockInv
  <2>8. /\ subject'[Completer] \cap locked'[Completer] = {}
        /\ task'[Completer] = "idle" => subject'[Completer] = {} /\ locked'[Completer] = {}
    BY <1>0, <2>3 DEF PlaybackInv, LockInv
  <2>9. OneWatchPerViewing' /\ \A u \in Films, m \in Minutes : Recorded(u, m)' <=> Recorded(u, m)
    BY <2>3 DEF PlaybackInv, OneWatchPerViewing, Recorded, Near
  <2> QED
    BY <2>4, <2>6, <2>7, <2>8, <2>9 DEF LockInv
<1>15. ASSUME NEW h \in Handlers, HandlerCommits(h) PROVE LockInv' /\ OneWatchPerViewing'
  BY <1>0, <1>15, CommitsInv DEF HandlerCommits, Commits
<1>16. ASSUME NEW h \in Handlers, HandlerFails(h) PROVE LockInv' /\ OneWatchPerViewing'
  BY <1>0, <1>16, EndsInv DEF HandlerFails, Ends
<1>17. ASSUME NEW t \in Films, NEW m \in Minutes, WritesUnlooked(t, m)
       PROVE  LockInv' /\ OneWatchPerViewing'
  BY <1>17, SameLocks DEF WritesUnlooked
<1>18. ASSUME NEW h \in Handlers, NEW at \in Minutes, MarkCommits(h, at)
       PROVE  LockInv' /\ OneWatchPerViewing'
  BY <1>0, <1>18, CommitsInv DEF MarkCommits
<1>19. ASSUME NEW h \in Handlers, NEW earlier \in SUBSET Films, ReadsEarlier(h, earlier)
       PROVE  LockInv' /\ OneWatchPerViewing'
  <2>1. subject'[Completer] = subject[Completer] /\ task'[Completer] = task[Completer]
    BY <1>0, <1>19 DEF ReadsEarlier, PlaybackInv, PlaybackTypeOK
  <2> QED
    BY <1>19, <2>1, SameLocks DEF ReadsEarlier
<1>20. ASSUME NEW h \in Handlers, InfersEarlier(h) PROVE LockInv' /\ OneWatchPerViewing'
  BY <1>0, <1>20, EndsInv DEF InfersEarlier, Ends
<1>21. CASE UNCHANGED playbackVars
  BY <1>21, SameLocks DEF playbackVars
<1> QED
  BY <1>1, <1>2, <1>3, <1>4, <1>5, <1>6, <1>7, <1>8, <1>9, <1>10, <1>11, <1>12, <1>13,
     <1>14, <1>15, <1>16, <1>17, <1>18, <1>19, <1>20, <1>21 DEF PlaybackNext

LEMMA PlaybackInvariant == PlaybackSpec => []PlaybackInv
<1>1. PlaybackInit => PlaybackTypeOK
  BY PlaybackAssumption, IdleAtZero DEF PlaybackInit, PlaybackTypeOK
<1>2. PlaybackInit => LockInv /\ OneWatchPerViewing
  BY PlaybackAssumption
     DEF PlaybackInit, LockInv, OneWatchPerViewing, Duplicate, Minutes, Actors
<1> QED
  BY <1>1, <1>2, PlaybackStep, PTL DEF PlaybackSpec, PlaybackInv

\* Two watches of a title that were added by paths that look are never within the
\* duplicate window, for any number of titles, handlers and minutes and whatever
\* the writers that do not look add beside them.
THEOREM OneWatchPerViewingTheorem == PlaybackSpec => []OneWatchPerViewing
BY PlaybackInvariant, PTL DEF PlaybackInv
=============================================================================
