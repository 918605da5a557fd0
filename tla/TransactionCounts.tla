-------------------------- MODULE TransactionCounts --------------------------
(***************************************************************************)
(* GET /transaction/counts: how many transactions the last 24 hours and    *)
(* the last 7 days have.  Two caches stand before the two queries:         *)
(* CacheInterceptor keeps the response of each URL, and the service keeps  *)
(* the last counts, in one record for all periods.  Requests run           *)
(* concurrently; each await is a point where others come between.          *)
(*                                                                         *)
(* A count is abstracted to the time its query ran at.  The names do not   *)
(* clash with those of Pagination: MCPagination composes the two.          *)
(***************************************************************************)
EXTENDS Integers

CONSTANTS
    Client,
    CountsTTL,      \* COUNTS_CACHE_TTL_MS
    ResponseTTL,    \* the argument of @CacheTTL
    MaxDelay,       \* bound on the time between a query and its await's end
    MaxTime         \* bound on the clock

ASSUME TimesAssumption ==
    /\ CountsTTL \in Nat \ {0} /\ ResponseTTL \in Nat \ {0}
    /\ MaxDelay \in Nat /\ MaxTime \in Nat

VARIABLES
    now,            \* Date.now()
    countsCache,    \* the service's record: last_24h, last_7d, updatedAt
    responses,      \* the response cache: for each URL what was answered and when
    request,        \* what the handler of each client's request is doing
    answer,         \* the last answer a client got
    partial         \* history: when a single period last filled countsCache

countsVars == <<now, countsCache, responses, request, answer, partial>>

Undefined == 0      \* there is no count; updatedAt before the first query
Counts    == {"24h", "7d"}
Period    == Counts \cup {"both"}   \* the URLs: a period, or none

\* The counts a request is about.
Asked(period) == IF period = "both" THEN Counts ELSE {period}

NoCounts == [f \in Counts |-> Undefined]
Waiting  == [step |-> "idle", period |-> "both", result |-> NoCounts]
Nothing  == [counts |-> NoCounts, at |-> 0]

CountsInit ==
    /\ now = 1
    /\ countsCache = [counts |-> NoCounts, updatedAt |-> 0]
    /\ responses = [period \in Period |-> Nothing]
    /\ request = [c \in Client |-> Waiting]
    /\ answer = [period |-> "both", counts |-> NoCounts, at |-> 0]
    /\ partial = 0

\* Time passes; no await lasts longer than MaxDelay.
Tick ==
    /\ now < MaxTime
    /\ \A c \in Client, f \in Counts :
          request[c].result[f] # Undefined => now - request[c].result[f] < MaxDelay
    /\ now' = now + 1
    /\ UNCHANGED <<countsCache, responses, request, answer, partial>>

\* The client gets its answer, with the counts its URL is about.
Respond(period, counts) ==
    answer' = [period |-> period, counts |-> counts, at |-> now]

\* The interceptor answers from the cached response of the URL, or calls the handler.
GetTransactionCounts(c, period) ==
    /\ request[c].step = "idle"
    /\ IF responses[period].at # 0 /\ now - responses[period].at < ResponseTTL
       THEN Respond(period, responses[period].counts) /\ UNCHANGED request
       ELSE /\ request' = [request EXCEPT ![c] =
                              [Waiting EXCEPT !.step = "handle", !.period = period]]
            /\ UNCHANGED answer
    /\ UNCHANGED <<now, countsCache, responses, partial>>

\* The handler's answer is kept for its URL from now on.
Reply(c, counts) ==
    /\ Respond(request[c].period, counts)
    /\ responses' = [responses EXCEPT ![request[c].period] =
                        [counts |-> counts, at |-> now]]
    /\ request' = [request EXCEPT ![c] = Waiting]

\* Mutated form of Fresh: the comparison is off by one.
FreshTooLong(t) == t # 0 /\ now - t <= CountsTTL

Fresh(t) == t # 0 /\ now - t < CountsTTL

\* A fresh record answers, whatever period it was filled for.
AnswerFromCache(c) ==
    /\ request[c].step = "handle"
    /\ Fresh(countsCache.updatedAt)
    /\ Reply(c, [f \in Counts |-> IF f \in Asked(request[c].period)
                                  THEN countsCache.counts[f] ELSE Undefined])
    /\ UNCHANGED <<now, countsCache, partial>>

StartQueries(c) ==
    /\ request[c].step = "handle"
    /\ ~Fresh(countsCache.updatedAt)
    /\ request' = [request EXCEPT ![c].step = "query"]
    /\ UNCHANGED <<now, countsCache, responses, answer, partial>>

\* One of the queries runs in the database; Promise.all awaits both.
RunQuery(c, f) ==
    /\ request[c].step = "query"
    /\ f \in Asked(request[c].period) /\ request[c].result[f] = Undefined
    /\ request' = [request EXCEPT ![c].result[f] = now]
    /\ UNCHANGED <<now, countsCache, responses, answer, partial>>

\* All are answered: the record is replaced as a whole, stamped with the time now.
FinishQueries(c) ==
    /\ request[c].step = "query"
    /\ \A f \in Asked(request[c].period) : request[c].result[f] # Undefined
    /\ countsCache' = [counts |-> request[c].result, updatedAt |-> now]
    /\ partial' = IF request[c].period = "both" THEN partial ELSE now
    /\ Reply(c, request[c].result)
    /\ UNCHANGED now

\* Mutated form of QueryFails: the time is stamped nevertheless.
QueryFailsStamped(c) ==
    /\ request[c].step = "query"
    /\ countsCache' = [countsCache EXCEPT !.updatedAt = now]
    /\ request' = [request EXCEPT ![c] = Waiting]
    /\ UNCHANGED <<now, responses, answer, partial>>

\* A query fails: the client gets an error, which no cache keeps.
QueryFails(c) ==
    /\ request[c].step = "query"
    /\ request' = [request EXCEPT ![c] = Waiting]
    /\ UNCHANGED <<now, countsCache, responses, answer, partial>>

CountsNext ==
    \/ Tick
    \/ \E c \in Client :
        \/ \E period \in Period : GetTransactionCounts(c, period)
        \/ AnswerFromCache(c) \/ StartQueries(c)
        \/ \E f \in Counts : RunQuery(c, f)
        \/ FinishQueries(c) \/ QueryFails(c)

CountsSpec == CountsInit /\ [][CountsNext]_countsVars

-----------------------------------------------------------------------------
CountsTypeOK ==
    /\ now \in Nat
    /\ countsCache \in [counts: [Counts -> Nat], updatedAt: Nat]
    /\ responses \in [Period -> [counts: [Counts -> Nat], at: Nat]]
    /\ request \in [Client -> [step: {"idle", "handle", "query"}, period: Period,
                               result: [Counts -> Nat]]]
    /\ answer \in [period: Period, counts: [Counts -> Nat], at: Nat]
    /\ partial \in Nat

\* How old a count may be when the response cache gives it away.
MaxAge == MaxDelay + (CountsTTL - 1) + (ResponseTTL - 1)

\* However the requests interleave and whichever cache answers, a count is at most
\* as old as the two times to live and one await together.
AnswersRecent ==
    \A f \in Counts :
        answer.counts[f] # Undefined => answer.at - answer.counts[f] <= MaxAge

\* An answer lacks a count the client asked for only while a record filled for the
\* other period alone is kept: a failed query leaves no hole behind.
MissingOnlyAfterOnePeriod ==
    \A f \in Counts :
        (/\ answer.at # 0
         /\ f \in Asked(answer.period) /\ answer.counts[f] = Undefined)
           => partial # 0 /\ answer.at - partial <= CountsTTL - 1 + ResponseTTL - 1
=============================================================================
