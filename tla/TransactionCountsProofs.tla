---------------------- MODULE TransactionCountsProofs ----------------------
(***************************************************************************)
(* Proofs about the caches of the transaction counts, for any number of    *)
(* concurrent requests and any times to live.                              *)
(***************************************************************************)
EXTENDS TransactionCounts, TLAPS

\* How old what each cache and each request holds may be.
AgesBounded ==
    /\ countsCache.updatedAt <= now
    /\ \A period \in Period : responses[period].at <= now
    /\ \A f \in Counts :
          /\ \A c \in Client : request[c].result[f] # Undefined =>
                /\ request[c].result[f] <= now
                /\ now - request[c].result[f] <= MaxDelay
          /\ countsCache.counts[f] # Undefined =>
                countsCache.updatedAt - countsCache.counts[f] <= MaxDelay
          /\ \A period \in Period : responses[period].counts[f] # Undefined =>
                responses[period].at - responses[period].counts[f]
                    <= MaxDelay + CountsTTL - 1

\* Where a count that was asked for may be missing.
HolesExplained ==
    /\ partial <= now
    /\ countsCache.updatedAt # 0 =>
          \A f \in Counts : countsCache.counts[f] = Undefined =>
              partial # 0 /\ countsCache.updatedAt <= partial
    /\ \A period \in Period : responses[period].at # 0 =>
          \A f \in Asked(period) : responses[period].counts[f] = Undefined =>
              partial # 0 /\ responses[period].at - partial <= CountsTTL - 1

\* The invariants hold together with what the caches hold.
IInv ==
    /\ CountsTypeOK /\ now > 0 /\ AgesBounded /\ HolesExplained
    /\ AnswersRecent /\ MissingOnlyAfterOnePeriod

-----------------------------------------------------------------------------
LEMMA AskedIsCounts == \A period \in Period : Asked(period) \subseteq Counts
BY DEF Asked, Period, Counts

LEMMA IInvInit == CountsInit => IInv
<1> SUFFICES ASSUME CountsInit PROVE IInv
  OBVIOUS
<1> USE TimesAssumption DEF CountsInit, NoCounts, Waiting, Nothing, Undefined
<1>1. CountsTypeOK /\ now > 0
  BY DEF CountsTypeOK, Period, Counts
<1>2. AgesBounded
  BY DEF AgesBounded
<1>3. HolesExplained
  BY DEF HolesExplained
<1>4. AnswersRecent /\ MissingOnlyAfterOnePeriod
  BY DEF AnswersRecent, MissingOnlyAfterOnePeriod
<1> QED BY <1>1, <1>2, <1>3, <1>4 DEF IInv

LEMMA TickPreserves == ASSUME IInv, Tick PROVE IInv'
<1> USE TimesAssumption DEF IInv, Tick, CountsTypeOK, Undefined
<1>1. CountsTypeOK' /\ now' > 0
  OBVIOUS
<1>2. AgesBounded'
  BY DEF AgesBounded
<1>3. HolesExplained'
  BY DEF HolesExplained
<1>4. AnswersRecent' /\ MissingOnlyAfterOnePeriod'
  BY DEF AnswersRecent, MissingOnlyAfterOnePeriod, MaxAge
<1> QED BY <1>1, <1>2, <1>3, <1>4 DEF IInv

\* A cached response is at most ResponseTTL - 1 older than when it was kept.
LEMMA RequestPreserves ==
    ASSUME IInv, NEW c \in Client, NEW period \in Period,
           GetTransactionCounts(c, period)
    PROVE  IInv'
<1> USE TimesAssumption, AskedIsCounts DEF IInv, CountsTypeOK, Undefined
<1>1. CASE responses[period].at # 0 /\ now - responses[period].at < ResponseTTL
  <2>1. /\ answer' = [period |-> period, counts |-> responses[period].counts,
                      at |-> now]
        /\ UNCHANGED <<now, countsCache, responses, request, partial>>
    BY <1>1 DEF GetTransactionCounts, Respond
  <2>2. CountsTypeOK' /\ now' > 0
    BY <2>1
  <2>3. AgesBounded' /\ HolesExplained'
    BY <2>1 DEF AgesBounded, HolesExplained
  <2>4. AnswersRecent'
    BY <1>1, <2>1 DEF AnswersRecent, AgesBounded, MaxAge
  <2>5. MissingOnlyAfterOnePeriod'
    BY <1>1, <2>1 DEF MissingOnlyAfterOnePeriod, HolesExplained
  <2> QED BY <2>2, <2>3, <2>4, <2>5
<1>2. CASE ~(responses[period].at # 0 /\ now - responses[period].at < ResponseTTL)
  <2>1. /\ request' = [request EXCEPT ![c] =
                          [Waiting EXCEPT !.step = "handle", !.period = period]]
        /\ UNCHANGED <<now, countsCache, responses, answer, partial>>
    BY <1>2 DEF GetTransactionCounts
  <2>2. /\ request'[c] = [step |-> "handle", period |-> period, result |-> NoCounts]
        /\ \A d \in Client : d # c => request'[d] = request[d]
    BY <2>1 DEF Waiting
  <2>3. CountsTypeOK' /\ now' > 0
    BY <2>1 DEF NoCounts, Counts, Waiting
  <2>4. AgesBounded'
    <3>1. \A d \in Client, f \in Counts :
             request'[d].result[f] \in {request[d].result[f], Undefined}
      BY <2>2 DEF NoCounts
    <3> QED BY <2>1, <2>3, <3>1 DEF AgesBounded
  <2>5. HolesExplained' /\ AnswersRecent' /\ MissingOnlyAfterOnePeriod'
    BY <2>1 DEF HolesExplained, AnswersRecent, MissingOnlyAfterOnePeriod
  <2> QED BY <2>3, <2>4, <2>5
<1> QED BY <1>1, <1>2

\* What the service's record answers is at most CountsTTL - 1 older than when the
\* record was filled.
LEMMA CacheAnswerPreserves ==
    ASSUME IInv, NEW c \in Client, AnswerFromCache(c)
    PROVE  IInv'
<1> USE TimesAssumption, AskedIsCounts DEF IInv, CountsTypeOK, Undefined
<1> DEFINE period == request[c].period
           counts == [f \in Counts |-> IF f \in Asked(period)
                                       THEN countsCache.counts[f] ELSE Undefined]
<1>0. period \in Period /\ counts \in [Counts -> Nat]
  OBVIOUS
<1>1. /\ answer' = [period |-> period, counts |-> counts, at |-> now]
      /\ responses' = [responses EXCEPT ![period] = [counts |-> counts, at |-> now]]
      /\ request' = [request EXCEPT ![c] = Waiting]
      /\ UNCHANGED <<now, countsCache, partial>>
      /\ countsCache.updatedAt # 0 /\ now - countsCache.updatedAt < CountsTTL
  BY DEF AnswerFromCache, Reply, Respond, Fresh
<1> HIDE DEF counts, period
<1>2. /\ responses'[period] = [counts |-> counts, at |-> now]
      /\ \A q \in Period : q # period => responses'[q] = responses[q]
      /\ request'[c] = Waiting
      /\ \A d \in Client : d # c => request'[d] = request[d]
  BY <1>0, <1>1
<1>3. CountsTypeOK' /\ now' > 0
  BY <1>0, <1>1 DEF Waiting, NoCounts, Counts, Period
<1>4. \A f \in Counts : counts[f] # Undefined =>
         counts[f] = countsCache.counts[f] /\ now - counts[f] <= MaxDelay + CountsTTL - 1
  BY <1>0, <1>1 DEF counts, AgesBounded
<1>5. \A f \in Asked(period) : counts[f] = Undefined =>
         partial # 0 /\ now - partial <= CountsTTL - 1
  BY <1>0, <1>1 DEF counts, HolesExplained
<1>6. AgesBounded'
  BY <1>0, <1>1, <1>2, <1>4 DEF AgesBounded, Waiting, NoCounts
<1>7. HolesExplained'
  BY <1>0, <1>1, <1>2, <1>5 DEF HolesExplained
<1>8. AnswersRecent'
  BY <1>0, <1>1, <1>4 DEF AnswersRecent, MaxAge
<1>9. MissingOnlyAfterOnePeriod'
  BY <1>0, <1>1, <1>5 DEF MissingOnlyAfterOnePeriod
<1> QED BY <1>3, <1>6, <1>7, <1>8, <1>9

\* Steps that change nothing but the request keep the invariant when its results do.
LEMMA QueryStepsPreserve ==
    ASSUME IInv, NEW c \in Client,
           StartQueries(c) \/ QueryFails(c) \/ \E f \in Counts : RunQuery(c, f)
    PROVE  IInv'
<1> USE TimesAssumption DEF IInv, CountsTypeOK, Undefined
<1>1. /\ UNCHANGED <<now, countsCache, responses, answer, partial>>
      /\ request' \in [Client -> [step: {"idle", "handle", "query"}, period: Period,
                                  result: [Counts -> Nat]]]
  BY DEF StartQueries, QueryFails, RunQuery, Waiting, NoCounts, Counts, Period
<1>2. \A d \in Client, f \in Counts :
         request'[d].result[f] \in {request[d].result[f], Undefined, now}
  <2>1. CASE StartQueries(c)
    BY <2>1 DEF StartQueries
  <2>2. CASE QueryFails(c)
    BY <2>2 DEF QueryFails, Waiting, NoCounts
  <2>3. ASSUME NEW f \in Counts, RunQuery(c, f)
        PROVE  \A d \in Client, g \in Counts :
                  request'[d].result[g] \in {request[d].result[g], now}
    BY <2>3 DEF RunQuery
  <2> QED BY <2>1, <2>2, <2>3
<1>3. CountsTypeOK' /\ now' > 0
  BY <1>1
<1>4. AgesBounded'
  BY <1>1, <1>2 DEF AgesBounded
<1>5. HolesExplained' /\ AnswersRecent' /\ MissingOnlyAfterOnePeriod'
  BY <1>1 DEF HolesExplained, AnswersRecent, MissingOnlyAfterOnePeriod
<1> QED BY <1>3, <1>4, <1>5

\* New counts are complete for what was asked, and as old as the await was long.
LEMMA FinishPreserves ==
    ASSUME IInv, NEW c \in Client, FinishQueries(c)
    PROVE  IInv'
<1> USE TimesAssumption, AskedIsCounts DEF IInv, CountsTypeOK, Undefined
<1> DEFINE period == request[c].period
           counts == request[c].result
<1>0. period \in Period /\ counts \in [Counts -> Nat]
  OBVIOUS
<1>1. /\ answer' = [period |-> period, counts |-> counts, at |-> now]
      /\ responses' = [responses EXCEPT ![period] = [counts |-> counts, at |-> now]]
      /\ request' = [request EXCEPT ![c] = Waiting]
      /\ countsCache' = [counts |-> counts, updatedAt |-> now]
      /\ partial' = IF period = "both" THEN partial ELSE now
      /\ now' = now
  BY DEF FinishQueries, Reply, Respond
<1>2. \A f \in Asked(period) : counts[f] # Undefined
  BY DEF FinishQueries
<1>3. \A f \in Counts : counts[f] # Undefined =>
         counts[f] <= now /\ now - counts[f] <= MaxDelay
  BY DEF AgesBounded
<1>4. \A f \in Counts : counts[f] = Undefined => partial' = now
  BY <1>0, <1>1, <1>2 DEF Asked
<1> HIDE DEF counts, period
<1>5. /\ responses'[period] = [counts |-> counts, at |-> now]
      /\ \A q \in Period : q # period => responses'[q] = responses[q]
      /\ request'[c] = Waiting
      /\ \A d \in Client : d # c => request'[d] = request[d]
  BY <1>0, <1>1
<1>6. CountsTypeOK' /\ now' > 0
  BY <1>0, <1>1 DEF Waiting, NoCounts, Counts, Period
<1>7. AgesBounded'
  BY <1>0, <1>1, <1>3, <1>5 DEF AgesBounded, Waiting, NoCounts
<1>8. partial' \in {partial, now}
  BY <1>1
<1>9. HolesExplained'
  BY <1>0, <1>1, <1>2, <1>4, <1>5, <1>8 DEF HolesExplained
<1>10. AnswersRecent'
  BY <1>0, <1>1, <1>3 DEF AnswersRecent, MaxAge
<1>11. MissingOnlyAfterOnePeriod'
  BY <1>0, <1>1, <1>2 DEF MissingOnlyAfterOnePeriod
<1> QED BY <1>6, <1>7, <1>9, <1>10, <1>11

LEMMA IInvStep == IInv /\ [CountsNext]_countsVars => IInv'
<1> SUFFICES ASSUME IInv, [CountsNext]_countsVars PROVE IInv'
  OBVIOUS
<1>1. CASE Tick
  BY <1>1, TickPreserves
<1>2. ASSUME NEW c \in Client, NEW period \in Period, GetTransactionCounts(c, period)
      PROVE  IInv'
  BY <1>2, RequestPreserves
<1>3. ASSUME NEW c \in Client, AnswerFromCache(c)
      PROVE  IInv'
  BY <1>3, CacheAnswerPreserves
<1>4. ASSUME NEW c \in Client,
             StartQueries(c) \/ QueryFails(c) \/ \E f \in Counts : RunQuery(c, f)
      PROVE  IInv'
  BY <1>4, QueryStepsPreserve
<1>5. ASSUME NEW c \in Client, FinishQueries(c)
      PROVE  IInv'
  BY <1>5, FinishPreserves
<1>6. CASE UNCHANGED countsVars
  BY <1>6 DEF countsVars, IInv, CountsTypeOK, AgesBounded, HolesExplained,
              AnswersRecent, MissingOnlyAfterOnePeriod
<1> QED BY <1>1, <1>2, <1>3, <1>4, <1>5, <1>6 DEF CountsNext

LEMMA Invariance == CountsSpec => []IInv
<1>1. CountsInit => IInv
  BY IInvInit
<1>2. IInv /\ [CountsNext]_countsVars => IInv'
  BY IInvStep
<1> QED BY <1>1, <1>2, PTL DEF CountsSpec

\* Whatever the requests ask for and however their awaits interleave, a count is no
\* older than one await and the two times to live together.
THEOREM CountsAreRecent == CountsSpec => []AnswersRecent
<1>1. IInv => AnswersRecent
  BY DEF IInv
<1> QED BY <1>1, Invariance, PTL

\* An answer lacks a count it was asked for only while a cache may still hold what a
\* request for a single period left.
THEOREM HolesComeFromOnePeriod == CountsSpec => []MissingOnlyAfterOnePeriod
<1>1. IInv => MissingOnlyAfterOnePeriod
  BY DEF IInv
<1> QED BY <1>1, Invariance, PTL
=============================================================================
