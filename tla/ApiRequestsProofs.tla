------------------------- MODULE ApiRequestsProofs --------------------------
(***************************************************************************)
(* Proofs about the requests of the API, for every set of requests: any    *)
(* path, any combination of parameters, any value.                         *)
(***************************************************************************)
EXTENDS ApiRequests, SequenceTheorems, WellFoundedInduction, TLAPS

\* The first of the places where a test holds, as the router looks for it.
LEMMA MinOfPlaces ==
    ASSUME NEW I, I \subseteq Nat, I # {}
    PROVE  Min(I) \in I /\ \A i \in I : Min(I) <= i
<1>1. PICK x \in I : \A y \in I : ~(<<y, x>> \in OpToRel(<, Nat))
  BY NatLessThanWellFounded, WFMin
<1>2. \A y \in I : x <= y
  <2> SUFFICES ASSUME NEW y \in I PROVE x <= y
    OBVIOUS
  <2>1. <<y, x>> \in Nat \X Nat /\ ~(y < x)
    BY <1>1 DEF OpToRel
  <2> QED BY <2>1
<1> QED BY <1>2 DEF Min

\* The suffixes of a sequence, place by place.
LEMMA SuffixPlaces ==
    ASSUME NEW S, NEW s \in Seq(S), NEW t \in Seq(S)
    PROVE  IsSuffix(s, t) <=>
               /\ Len(s) <= Len(t)
               /\ \A i \in 1 .. Len(s) : s[i] = t[Len(t) - Len(s) + i]
<1> DEFINE rs == Reverse(s)
           rt == Reverse(t)
<1>1. /\ rs \in Seq(S) /\ Len(rs) = Len(s)
      /\ \A i \in 1 .. Len(s) : rs[i] = s[Len(s) - i + 1]
      /\ rt \in Seq(S) /\ Len(rt) = Len(t)
      /\ \A i \in 1 .. Len(t) : rt[i] = t[Len(t) - i + 1]
  BY DEF Reverse
<1> HIDE DEF rs, rt
<1>2. IsSuffix(s, t) <=> Len(s) <= Len(t) /\ SubSeq(rs, 1, Len(s)) = SubSeq(rt, 1, Len(s))
  BY <1>1 DEF IsSuffix, IsPrefix, rs, rt
<1>3. ASSUME Len(s) <= Len(t)
      PROVE  SubSeq(rs, 1, Len(s)) = SubSeq(rt, 1, Len(s))
                <=> \A i \in 1 .. Len(s) : rs[i] = rt[i]
  BY <1>1, <1>3
<1>4. ASSUME Len(s) <= Len(t)
      PROVE  (\A i \in 1 .. Len(s) : rs[i] = rt[i])
                <=> \A i \in 1 .. Len(s) : s[i] = t[Len(t) - Len(s) + i]
  <2>1. ASSUME \A i \in 1 .. Len(s) : rs[i] = rt[i], NEW i \in 1 .. Len(s)
        PROVE  s[i] = t[Len(t) - Len(s) + i]
    <3> DEFINE j == Len(s) - i + 1
    <3>1. j \in 1 .. Len(s) /\ Len(s) - j + 1 = i /\ j \in 1 .. Len(t)
          /\ Len(t) - j + 1 = Len(t) - Len(s) + i
      BY <1>4
    <3>2. rs[j] = s[Len(s) - j + 1] /\ rt[j] = t[Len(t) - j + 1] /\ rs[j] = rt[j]
      BY <1>1, <2>1, <3>1
    <3> QED BY <3>1, <3>2
  <2>2. ASSUME \A i \in 1 .. Len(s) : s[i] = t[Len(t) - Len(s) + i], NEW i \in 1 .. Len(s)
        PROVE  rs[i] = rt[i]
    <3> DEFINE j == Len(s) - i + 1
    <3>1. j \in 1 .. Len(s) /\ i \in 1 .. Len(t)
          /\ Len(t) - Len(s) + j = Len(t) - i + 1
      BY <1>4
    <3>2. s[j] = t[Len(t) - Len(s) + j] /\ rs[i] = s[j] /\ rt[i] = t[Len(t) - i + 1]
      BY <1>1, <2>2, <3>1
    <3> QED BY <3>1, <3>2
  <2> QED BY <2>1, <2>2
<1> QED BY <1>2, <1>3, <1>4

\* What is left after a query is still a suffix, and its head one of the queries.
LEMMA SuffixTail ==
    ASSUME NEW S, NEW s \in Seq(S), NEW t \in Seq(S), IsSuffix(s, t), s # << >>
    PROVE  IsSuffix(Tail(s), t) /\ \E i \in DOMAIN t : Head(s) = t[i]
<1>1. /\ Len(s) <= Len(t)
      /\ \A i \in 1 .. Len(s) : s[i] = t[Len(t) - Len(s) + i]
  BY SuffixPlaces
<1>2. Tail(s) \in Seq(S) /\ Len(Tail(s)) = Len(s) - 1 /\ Len(s) > 0
  OBVIOUS
<1>3. \A i \in 1 .. Len(Tail(s)) : Tail(s)[i] = t[Len(t) - Len(Tail(s)) + i]
  BY <1>1, <1>2
<1>4. Head(s) = t[Len(t) - Len(s) + 1] /\ Len(t) - Len(s) + 1 \in DOMAIN t
  BY <1>1, <1>2
<1>5. IsSuffix(Tail(s), t)
  <2> DEFINE u == Tail(s)
  <2>1. /\ u \in Seq(S) /\ Len(u) <= Len(t)
        /\ \A i \in 1 .. Len(u) : u[i] = t[Len(t) - Len(u) + i]
    BY <1>1, <1>2, <1>3
  <2> HIDE DEF u
  <2>2. IsSuffix(u, t)
    BY <2>1, SuffixPlaces
  <2> QED BY <2>2 DEF u
<1> QED BY <1>4, <1>5

LEMMA SuffixWhole ==
    ASSUME NEW S, NEW t \in Seq(S)
    PROVE  IsSuffix(t, t)
  BY SuffixPlaces

-----------------------------------------------------------------------------
\* A query that reads a fixed number of rows, the rows of a key, or a page of at
\* most 100 rows whatever the client asks for.
Cut(q) ==
    \/ /\ q.paging.by = "nothing" /\ q.paging.most \in Nat
       /\ q.paging.most > 0 \/ q.equals # {}
    \/ /\ q.paging.by \in {"page", "offset", "cursor", "either"}
       /\ q.paging.clamped /\ q.paging.most = 100

\* A method that relies on nobody to bound what it reads.
AllCut(m) ==
    /\ m.queries \in Seq({m.queries[i] : i \in DOMAIN m.queries})
    /\ \A i \in DOMAIN m.queries : Cut(m.queries[i])

\* A method that reads the page it is asked for, as it is asked for.
Trusting(m) ==
    /\ m.queries \in Seq({m.queries[i] : i \in DOMAIN m.queries})
    /\ \A i \in DOMAIN m.queries : Cut(m.queries[i]) \/ m.queries[i].paging = ByPageAsGiven

LEMMA NoQuery ==
    ASSUME NEW m, m.queries = << >>
    PROVE  AllCut(m)
  BY DEF AllCut

LEMMA OneQuery ==
    ASSUME NEW m, NEW q, m.queries = <<q>>, Cut(q)
    PROVE  AllCut(m)
  BY DEF AllCut

LEMMA TwoQueries ==
    ASSUME NEW m, NEW q, NEW r, m.queries = <<q, r>>, Cut(q), Cut(r)
    PROVE  AllCut(m)
  BY DEF AllCut

LEMMA ThreeQueries ==
    ASSUME NEW m, NEW q, NEW r, NEW s, m.queries = <<q, r, s>>, Cut(q), Cut(r), Cut(s)
    PROVE  AllCut(m)
  BY DEF AllCut

\* transaction.service
LEMMA TransactionMethods ==
    /\ AllCut(getTransactionCountsRecent) /\ AllCut(getTransactionByHash)
    /\ AllCut(getTransactions) /\ AllCut(getTransactionMessages)
    /\ AllCut(getTransactionStatistics) /\ AllCut(getTransactionsAdvanced)
    /\ AllCut(searchTransactions) /\ AllCut(getTransactionsByMessageType)
    /\ AllCut(getTransactionsByValidator) /\ AllCut(getTransactionsByBlockRange)
    /\ AllCut(getGlobalTransactionStatistics) /\ AllCut(getTransactionAnalytics)
<1> USE DEF Answering, ++, From, Paging, Everything, First, ByCursor, ByOffset,
            ByCursorOrOffset, MessagesOfTransaction, preloadMessagesByHash
<1>1. Cut(preloadMessagesByHash) /\ Cut(MessagesWhenMissing)
  BY DEF Cut, MessagesWhenMissing
<1>2. Cut(TransactionByHash) /\ Cut([uses |-> {}] ++ MessagesOfTransaction)
  BY DEF Cut, TransactionByHash, FindOne
<1>3. Cut(runCountsQuery)
  BY DEF Cut, runCountsQuery
<1>4. Cut(getTransactions.queries[1]) /\ Cut(getTransactionsAdvanced.queries[1])
  BY DEF Cut, getTransactions, getTransactionsAdvanced
<1>5. Cut(searchTransactions.queries[1]) /\ Cut(getTransactionsByMessageType.queries[1])
  BY DEF Cut, searchTransactions, getTransactionsByMessageType
<1>6. Cut(getTransactionsByValidator.queries[1]) /\ Cut(getTransactionsByBlockRange.queries[1])
  BY DEF Cut, getTransactionsByValidator, getTransactionsByBlockRange
<1>7. AllCut(getTransactionCountsRecent) /\ AllCut(getTransactionMessages)
  BY <1>1, <1>3, OneQuery DEF getTransactionCountsRecent, getTransactionMessages
<1>8. AllCut(getTransactionByHash) /\ AllCut(getTransactionStatistics)
  BY <1>1, <1>2, TwoQueries DEF getTransactionByHash, getTransactionStatistics
<1>9. AllCut(getTransactions)
  BY <1>1, <1>4, TwoQueries DEF getTransactions
<1>10. AllCut(getTransactionsAdvanced)
  BY <1>1, <1>4, TwoQueries DEF getTransactionsAdvanced
<1>11. AllCut(searchTransactions)
  BY <1>1, <1>5, TwoQueries DEF searchTransactions
<1>12. AllCut(getTransactionsByMessageType)
  BY <1>1, <1>5, TwoQueries DEF getTransactionsByMessageType
<1>13. AllCut(getTransactionsByValidator)
  BY <1>1, <1>6, TwoQueries DEF getTransactionsByValidator
<1>14. AllCut(getTransactionsByBlockRange)
  BY <1>1, <1>6, TwoQueries DEF getTransactionsByBlockRange
<1>15. AllCut(getGlobalTransactionStatistics) /\ AllCut(getTransactionAnalytics)
  BY NoQuery DEF getGlobalTransactionStatistics, getTransactionAnalytics, Placeholder
<1> QED BY <1>7, <1>8, <1>9, <1>10, <1>11, <1>12, <1>13, <1>14, <1>15

\* address.service and block.service
LEMMA AddressAndBlockMethods ==
    /\ AllCut(getAddressInfo) /\ AllCut(getAddressTransactions)
    /\ AllCut(getAddressTransactionsAdvanced) /\ AllCut(getAddressTransactionStatistics)
    /\ AllCut(getBlockByHeight) /\ AllCut(getBlockByHash) /\ AllCut(getBlocks)
<1> USE DEF Answering, ++, From, Paging, Everything, First, ByCursor, ByCursorOrOffset
<1>1. Cut(getRecentTransactions) /\ Cut(MessagesWhenMissing)
  <2>1. Cut(getRecentTransactions)
    BY DEF Cut, getRecentTransactions
  <2>2. Cut(MessagesWhenMissing)
    BY DEF Cut, MessagesWhenMissing, MessagesOfTransaction
  <2> QED BY <2>1, <2>2
<1>2. Cut(getAddressInfo.queries[1]) /\ Cut(getAddressInfo.queries[2])
  BY DEF Cut, getAddressInfo, FindOne
<1>3. AllCut(getAddressInfo)
  BY <1>1, <1>2, ThreeQueries DEF getAddressInfo
<1>4. Cut(getAddressTransactions.queries[1]) /\ Cut(getAddressTransactionsAdvanced.queries[1])
  BY DEF Cut, getAddressTransactions, getAddressTransactionsAdvanced
<1>5. AllCut(getAddressTransactions)
  BY <1>4, OneQuery DEF getAddressTransactions
<1>6. AllCut(getAddressTransactionsAdvanced)
  BY <1>1, <1>4, TwoQueries DEF getAddressTransactionsAdvanced
<1>7. AllCut(getAddressTransactionStatistics)
  BY NoQuery DEF getAddressTransactionStatistics, Placeholder
<1>8. Cut(getBlockStatistics) /\ Cut(getBlockTransactions)
  BY DEF Cut, getBlockStatistics, getBlockTransactions
<1>9. Cut(getBlockByHeight.queries[1]) /\ Cut(getBlockByHash.queries[1])
  BY DEF Cut, getBlockByHeight, getBlockByHash, WithProposer, FindOne
<1>10. AllCut(getBlockByHeight)
  BY <1>8, <1>9, ThreeQueries DEF getBlockByHeight
<1>11. AllCut(getBlockByHash)
  BY <1>8, <1>9, ThreeQueries DEF getBlockByHash
<1>12. Cut(getBlocks.queries[1])
  BY DEF Cut, getBlocks
<1>13. AllCut(getBlocks)
  BY <1>12, OneQuery DEF getBlocks
<1> QED BY <1>3, <1>5, <1>6, <1>7, <1>10, <1>11, <1>13

\* validator.service and message.service
LEMMA ValidatorAndMessageMethods ==
    /\ AllCut(getValidatorByAddress) /\ AllCut(getValidators)
    /\ AllCut(getMessages) /\ AllCut(getMessagesByAddress) /\ AllCut(getMessagesByType)
    /\ AllCut(searchMessages) /\ AllCut(getMessageTypes) /\ AllCut(getMessageTypeInfo)
    /\ AllCut(getMessageStatistics)
<1> USE DEF Answering, ++, From, Paging, Everything, First, ByCursor, ByPage
<1>1. \A entity, column : Cut(FindOne(entity, column))
  BY DEF Cut, FindOne
<1>2. Cut(getRecentActivity)
  BY DEF Cut, getRecentActivity
<1>3. /\ DOMAIN getValidatorByAddress.queries = 1 .. 7
      /\ getValidatorByAddress.queries \in
             Seq({getValidatorByAddress.queries[i] : i \in 1 .. 7})
  BY DEF getValidatorByAddress
<1>4. /\ Cut(getValidatorByAddress.queries[1]) /\ Cut(getValidatorByAddress.queries[2])
      /\ Cut(getValidatorByAddress.queries[3]) /\ Cut(getValidatorByAddress.queries[4])
      /\ Cut(getValidatorByAddress.queries[5]) /\ Cut(getValidatorByAddress.queries[6])
      /\ Cut(getValidatorByAddress.queries[7])
  BY <1>1, <1>2 DEF getValidatorByAddress
<1>5. AllCut(getValidatorByAddress)
  BY <1>3, <1>4 DEF AllCut
<1>6. Cut(getValidators.queries[1])
  BY DEF Cut, getValidators
<1>7. AllCut(getValidators)
  BY <1>6, OneQuery DEF getValidators
<1>8. Cut(getMessages.queries[1])
  BY DEF Cut, getMessages, FromMessage
<1>9. AllCut(getMessages)
  BY <1>8, OneQuery DEF getMessages
<1>10. ASSUME NEW columns
       PROVE  AllCut(MessagesWith(columns))
  <2>1. Cut(MessagesWith(columns).queries[1])
    BY DEF Cut, MessagesWith, FromMessage
  <2> QED BY <2>1, OneQuery DEF MessagesWith
<1>11. AllCut(getMessagesByAddress) /\ AllCut(getMessagesByType) /\ AllCut(searchMessages)
  BY <1>10 DEF getMessagesByAddress, getMessagesByType, searchMessages
<1>12. AllCut(getMessageTypes) /\ AllCut(getMessageTypeInfo) /\ AllCut(getMessageStatistics)
  BY NoQuery DEF getMessageTypes, getMessageTypeInfo, getMessageStatistics, Placeholder
<1> QED BY <1>5, <1>7, <1>9, <1>11, <1>12

\* staking.service
LEMMA StakingMethods ==
    /\ AllCut(getDelegationsByAddress) /\ AllCut(getDelegationsByValidator)
    /\ AllCut(getUndelegationsByAddress) /\ AllCut(getUndelegationsByValidator)
    /\ AllCut(getRedelegationsByAddress) /\ AllCut(getWithdrawalsByAddress)
    /\ AllCut(getWithdrawalsByValidator) /\ AllCut(getStakingPool)
    /\ AllCut(getStakingParams) /\ AllCut(getCommunityPool)
    /\ AllCut(getDistributionParams) /\ AllCut(getSlashingParams)
    /\ AllCut(getMintParams) /\ AllCut(getInflation) /\ AllCut(getGovParams)
    /\ AllCut(getValidatorSigningInfo) /\ AllCut(getAllValidatorSigningInfo)
    /\ AllCut(getStakingStatistics)
<1> USE DEF Answering, ++, From, Paging, Everything, First, ByPage
<1>1. Cut(StakingMessages.queries[1])
  BY DEF Cut, StakingMessages
<1>2. AllCut(StakingMessages)
  BY <1>1, OneQuery DEF StakingMessages
<1>3. ASSUME NEW entity
      PROVE  AllCut(OneRowOf(entity))
  <2>1. Cut(OneRowOf(entity).queries[1])
    BY DEF Cut, OneRowOf, FindOne
  <2> QED BY <2>1, OneQuery DEF OneRowOf
<1>4. /\ Cut(getValidatorSigningInfo.queries[1])
      /\ Cut(getAllValidatorSigningInfo.queries[1])
  BY DEF Cut, getValidatorSigningInfo, getAllValidatorSigningInfo, FindOne
<1>5. AllCut(getValidatorSigningInfo) /\ AllCut(getAllValidatorSigningInfo)
  BY <1>4, OneQuery DEF getValidatorSigningInfo, getAllValidatorSigningInfo
<1>6. AllCut(getStakingStatistics)
  BY NoQuery DEF getStakingStatistics, Placeholder
<1>7. /\ AllCut(getDelegationsByAddress) /\ AllCut(getDelegationsByValidator)
      /\ AllCut(getUndelegationsByAddress) /\ AllCut(getUndelegationsByValidator)
      /\ AllCut(getRedelegationsByAddress) /\ AllCut(getWithdrawalsByAddress)
      /\ AllCut(getWithdrawalsByValidator)
  BY <1>2 DEF getDelegationsByAddress, getDelegationsByValidator,
       getUndelegationsByAddress, getUndelegationsByValidator,
       getRedelegationsByAddress, getWithdrawalsByAddress, getWithdrawalsByValidator
<1>8. /\ AllCut(getStakingPool) /\ AllCut(getStakingParams) /\ AllCut(getCommunityPool)
      /\ AllCut(getDistributionParams) /\ AllCut(getSlashingParams)
      /\ AllCut(getMintParams) /\ AllCut(getInflation) /\ AllCut(getGovParams)
  BY <1>3 DEF getStakingPool, getStakingParams, getCommunityPool, getDistributionParams,
       getSlashingParams, getMintParams, getInflation, getGovParams
<1> QED BY <1>5, <1>6, <1>7, <1>8

\* The lists that leave the bound to their DTO.
LEMMA TrustingMethods ==
    /\ Trusting(getProposals) /\ Trusting(getProposalVotes) /\ Trusting(getProposalDeposits)
    /\ Trusting(getTokens) /\ Trusting(getTokenUnits) /\ Trusting(getTokenPrices)
    /\ Trusting(getTokenPriceHistory) /\ Trusting(getSupply)
<1> USE DEF Answering, ++, From, Paging, ByPageAsGiven
<1>1. ASSUME NEW m, NEW q, m.queries = <<q>>, q.paging = ByPageAsGiven
      PROVE  Trusting(m)
  BY <1>1 DEF Trusting
<1>2. /\ getProposals.queries[1].paging = ByPageAsGiven
      /\ getProposalVotes.queries[1].paging = ByPageAsGiven
      /\ getProposalDeposits.queries[1].paging = ByPageAsGiven
  BY DEF getProposals, getProposalVotes, getProposalDeposits
<1>3. /\ getTokens.queries[1].paging = ByPageAsGiven
      /\ getTokenUnits.queries[1].paging = ByPageAsGiven
      /\ getTokenPrices.queries[1].paging = ByPageAsGiven
      /\ getTokenPriceHistory.queries[1].paging = ByPageAsGiven
      /\ getSupply.queries[1].paging = ByPageAsGiven
  BY DEF getTokens, getTokenUnits, getTokenPrices, getTokenPriceHistory, getSupply
<1>4. Trusting(getProposals) /\ Trusting(getProposalVotes) /\ Trusting(getProposalDeposits)
  BY <1>1, <1>2 DEF getProposals, getProposalVotes, getProposalDeposits
<1>5. /\ Trusting(getTokenUnits) /\ Trusting(getTokenPrices)
      /\ Trusting(getTokenPriceHistory) /\ Trusting(getSupply)
  BY <1>1, <1>3 DEF getTokenUnits, getTokenPrices, getTokenPriceHistory, getSupply
<1>6. Cut(PriceOfToken)
  BY DEF Cut, PriceOfToken, First
<1>7. getTokens.queries = <<getTokens.queries[1], PriceOfToken>>
  BY DEF getTokens
<1>8. Trusting(getTokens)
  BY <1>3, <1>6, <1>7 DEF Trusting
<1> QED BY <1>4, <1>5, <1>8

\* The other methods of governance.service, token.service, supply.service and
\* genesis.service.
LEMMA ChainMethods ==
    /\ AllCut(getProposalById) /\ AllCut(getGovernanceStatistics) /\ AllCut(getTokenByName)
    /\ AllCut(getTokenStatistics) /\ AllCut(getLatestSupply) /\ AllCut(getSupplyByDenom)
    /\ AllCut(getSupplyStatistics) /\ AllCut(getGenesis) /\ AllCut(getGenesisByHeight)
<1> USE DEF Answering, ++, From, Paging, Everything, First
<1>1. Cut(getProposalById.queries[1]) /\ Cut(getTokenByName.queries[1]) /\ Cut(PriceOfToken)
  BY DEF Cut, getProposalById, getTokenByName, PriceOfToken
<1>2. AllCut(getProposalById)
  BY <1>1, OneQuery DEF getProposalById
<1>3. AllCut(getTokenByName)
  BY <1>1, TwoQueries DEF getTokenByName
<1>4. Cut(getLatestSupply.queries[1]) /\ Cut(getLatestSupply.queries[2])
  <2>1. Cut(getLatestSupply.queries[1])
    BY DEF Cut, getLatestSupply
  <2>2. Cut(getLatestSupply.queries[2])
    BY DEF Cut, getLatestSupply, FromSupply
  <2> QED BY <2>1, <2>2
<1>5. AllCut(getLatestSupply)
  BY <1>4, TwoQueries DEF getLatestSupply
<1>6. Cut(getSupplyByDenom.queries[1])
  BY DEF Cut, getSupplyByDenom, FromSupply
<1>7. AllCut(getSupplyByDenom)
  BY <1>6, OneQuery DEF getSupplyByDenom
<1>8. Cut(getGenesis.queries[1]) /\ Cut(getGenesisByHeight.queries[1])
  BY DEF Cut, getGenesis, getGenesisByHeight
<1>9. AllCut(getGenesis) /\ AllCut(getGenesisByHeight)
  BY <1>8, OneQuery DEF getGenesis, getGenesisByHeight
<1>10. /\ AllCut(getGovernanceStatistics) /\ AllCut(getTokenStatistics)
       /\ AllCut(getSupplyStatistics)
  BY NoQuery DEF getGovernanceStatistics, getTokenStatistics, getSupplyStatistics,
       Placeholder
<1> QED BY <1>2, <1>3, <1>5, <1>7, <1>9, <1>10

-----------------------------------------------------------------------------
\* The numbers a DTO declares have defaults, and pages are counted from 1.
Numbers(dto) ==
    /\ "limit" \in DOMAIN dto => dto["limit"].default \in Int
    /\ "offset" \in DOMAIN dto => dto["offset"].default \in Int
    /\ "page" \in DOMAIN dto => dto["page"] = Page

\* The DTO refuses a limit of more than 100 rows, and has one when none is given.
LimitsRows(dto) == "limit" \in DOMAIN dto /\ dto["limit"] = Limit

LEMMA DateFilterDtoNames ==
    {"limit", "offset", "page"} \cap DOMAIN DateFilterDto = {}
<1>1. {"limit", "offset", "page"} \cap DOMAIN DatePartFields = {}
  BY DEF DatePartFields
<1>2. {"limit", "offset", "page"} \cap DOMAIN DateFormatFields = {}
  BY DEF DateFormatFields
<1>3. {"limit", "offset", "page"} \cap DOMAIN DateListFields = {}
  BY DEF DateListFields
<1> QED BY <1>1, <1>2, <1>3 DEF DateFilterDto, ++

LEMMA NumbersOfTransactions ==
    /\ Numbers(PaginationDto) /\ Numbers(OffsetPaginationDto)
    /\ Numbers(TransactionCountsQueryDto) /\ Numbers(TransactionListDto)
    /\ Numbers(TransactionSearchDto) /\ Numbers(ValidatorListDto)
    /\ Numbers(TransactionFilterDto) /\ Numbers(AddressTransactionFilterDto)
<1> USE DEF Numbers, Limit, Offset, IntIn, Field
<1>1. /\ Numbers(PaginationDto) /\ Numbers(OffsetPaginationDto)
      /\ Numbers(TransactionCountsQueryDto)
  BY DEF PaginationDto, OffsetPaginationDto, TransactionCountsQueryDto
<1>2. Numbers(TransactionListDto) /\ Numbers(TransactionSearchDto) /\ Numbers(ValidatorListDto)
  BY DEF TransactionListDto, TransactionSearchDto, ValidatorListDto
<1>3. Numbers(TransactionFilterDto)
  BY DEF TransactionFilterDto, GasFilters, ++
<1>4. Numbers(AddressTransactionFilterDto)
  BY DEF AddressTransactionFilterDto, AddressTransactionFilters, AddressTransactionPage,
         GasFilters, ++
<1> QED BY <1>1, <1>2, <1>3, <1>4

\* The DTOs that extend DateFilterDto.
LEMMA NumbersOfLists ==
    /\ Numbers(MessageListDto) /\ Numbers(BlockListDto)
    /\ \A dto \in {ProposalListDto, ProposalVoteListDto, ProposalDepositListDto, TokenListDto,
                   TokenUnitListDto, TokenPriceListDto, SupplyListDto} :
          Numbers(dto) /\ LimitsRows(dto)
<1>1. ASSUME NEW f, "limit" \in DOMAIN f, f["limit"] = Limit,
             "page" \in DOMAIN f, f["page"] = Page, "offset" \notin DOMAIN f
      PROVE  Numbers(DateFilterDto ++ f) /\ LimitsRows(DateFilterDto ++ f)
  <2>1. /\ (DateFilterDto ++ f)["limit"] = Limit /\ "limit" \in DOMAIN (DateFilterDto ++ f)
        /\ (DateFilterDto ++ f)["page"] = Page /\ "offset" \notin DOMAIN (DateFilterDto ++ f)
    BY <1>1, DateFilterDtoNames DEF ++
  <2> QED BY <2>1 DEF Numbers, LimitsRows, Limit, IntIn, Field
<1>2. Numbers(MessageListDto)
  BY <1>1 DEF MessageListDto
<1>3. Numbers(BlockListDto)
  <2>1. /\ BlockListDto["limit"] = IntIn(1, NoMaximum, 20) /\ "offset" \notin DOMAIN BlockListDto
        /\ BlockListDto["page"] = Page
    BY DateFilterDtoNames DEF BlockListDto, ++
  <2> QED BY <2>1 DEF Numbers, IntIn, Field
<1>4. /\ Numbers(ProposalListDto) /\ LimitsRows(ProposalListDto)
      /\ Numbers(ProposalVoteListDto) /\ LimitsRows(ProposalVoteListDto)
      /\ Numbers(ProposalDepositListDto) /\ LimitsRows(ProposalDepositListDto)
  BY <1>1 DEF ProposalListDto, ProposalVoteListDto, ProposalDepositListDto
<1>5. /\ Numbers(TokenListDto) /\ LimitsRows(TokenListDto)
      /\ Numbers(TokenUnitListDto) /\ LimitsRows(TokenUnitListDto)
      /\ Numbers(TokenPriceListDto) /\ LimitsRows(TokenPriceListDto)
      /\ Numbers(SupplyListDto) /\ LimitsRows(SupplyListDto)
  BY <1>1 DEF TokenListDto, TokenUnitListDto, TokenPriceListDto, SupplyListDto
<1> QED BY <1>2, <1>3, <1>4, <1>5

-----------------------------------------------------------------------------
\* What the handler relies on: a method that exists and bounds what it reads, or else
\* a DTO that does.
SafeHandler(h) ==
    /\ h.service \in DOMAIN Methods
    /\ \/ AllCut(Methods[h.service])
       \/ Trusting(Methods[h.service]) /\ h.checked /\ LimitsRows(h.dto)
    /\ h.checked => Numbers(h.dto)
    /\ h.onError \in {404, 500} /\ h.onNull \in {200, 404}

\* A sequence of such handlers.
Safe(s) ==
    /\ s \in Seq({s[i] : i \in DOMAIN s})
    /\ \A i \in DOMAIN s : SafeHandler(s[i])

\* What the helpers that build a handler leave of it.
LEMMA SafeGet ==
    ASSUME NEW path, NEW service, service \in DOMAIN Methods, AllCut(Methods[service])
    PROVE  LET h == Get(path, service) IN
               /\ SafeHandler(h) /\ SafeHandler(NotFoundOnError(h))
               /\ SafeHandler(NotFoundWhenNull(h))
               /\ \A k : SafeHandler(IntegerAt(k, NotFoundWhenNull(h)))
               /\ \A ttl : /\ SafeHandler(CachedFor(ttl, h))
                           /\ SafeHandler(CachedFor(ttl, NotFoundOnError(h)))
  BY DEF Get, SafeHandler, NotFoundOnError, NotFoundWhenNull, IntegerAt, CachedFor

LEMMA SafeGetWith ==
    ASSUME NEW path, NEW service, NEW dto, NEW documented, service \in DOMAIN Methods,
           Numbers(dto),
           AllCut(Methods[service]) \/ (Trusting(Methods[service]) /\ LimitsRows(dto))
    PROVE  LET h == GetWith(path, service, dto, documented) IN
               /\ SafeHandler(h)
               /\ \A ttl : /\ SafeHandler(CachedFor(ttl, h))
                           /\ SafeHandler(CachedFor(ttl, NotFoundOnError(h)))
                           /\ \A p : SafeHandler(Requiring(p, CachedFor(ttl, h)))
  BY DEF Get, GetWith, SafeHandler, NotFoundOnError, CachedFor, Requiring

LEMMA SafeTransactionController == Safe(TransactionController)
<1> USE TransactionMethods DEF Methods
<1>1. /\ SafeHandler(GetTransaction) /\ SafeHandler(GetTransactionMessages)
      /\ SafeHandler(GetTransactionStatistics)
      /\ SafeHandler(GetGlobalTransactionStatistics) /\ SafeHandler(GetTransactionAnalytics)
  BY SafeGet DEF GetTransaction, GetTransactionMessages, GetTransactionStatistics,
       GetGlobalTransactionStatistics, GetTransactionAnalytics
<1>2. /\ SafeHandler(GetTransactionCounts) /\ SafeHandler(GetTransactions)
      /\ SafeHandler(GetTransactionsAdvanced) /\ SafeHandler(SearchTransactions)
  BY SafeGetWith, NumbersOfTransactions DEF GetTransactionCounts, GetTransactions,
       GetTransactionsAdvanced, SearchTransactions
<1>3. /\ SafeHandler(GetTransactionsByMessageType) /\ SafeHandler(GetTransactionsByValidator)
      /\ SafeHandler(GetTransactionsByBlockRange)
  BY SafeGetWith, NumbersOfTransactions DEF GetTransactionsByMessageType,
       GetTransactionsByValidator, GetTransactionsByBlockRange
<1> QED BY <1>1, <1>2, <1>3 DEF Safe, TransactionController

LEMMA SafeAddressController == Safe(AddressController)
<1> USE AddressAndBlockMethods DEF Methods
<1>1. /\ SafeHandler(GetAddressInfo) /\ SafeHandler(GetAddressBalance)
      /\ SafeHandler(GetAddressVesting) /\ SafeHandler(GetAddressGovernance)
      /\ SafeHandler(GetAddressTransactionStatistics)
  BY SafeGet DEF GetAddressInfo, GetAddressBalance, GetAddressVesting,
       GetAddressGovernance, GetAddressTransactionStatistics
<1>2. SafeHandler(GetAddressTransactions) /\ SafeHandler(GetAddressTransactionsAdvanced)
  BY SafeGetWith, NumbersOfTransactions DEF GetAddressTransactions,
       GetAddressTransactionsAdvanced
<1> QED BY <1>1, <1>2 DEF Safe, AddressController

LEMMA SafeMessageController == Safe(MessageController)
<1> USE ValidatorAndMessageMethods DEF Methods
<1>1. /\ SafeHandler(GetMessageTypes) /\ SafeHandler(GetMessageTypeInfo)
      /\ SafeHandler(GetMessageStatistics) /\ SafeHandler(GetMessageModules)
      /\ SafeHandler(GetMessageCategories)
  BY SafeGet DEF GetMessageTypes, GetMessageTypeInfo, GetMessageStatistics,
       GetMessageModules, GetMessageCategories
<1>2. SafeHandler(GetMessages)
  BY SafeGetWith, NumbersOfLists DEF GetMessages
<1>3. /\ SafeHandler(GetMessagesByAddress) /\ SafeHandler(GetMessagesByType)
      /\ SafeHandler(SearchMessages)
  BY SafeGetWith, NumbersOfTransactions DEF GetMessagesByAddress, GetMessagesByType,
       SearchMessages
<1> QED BY <1>1, <1>2, <1>3 DEF Safe, MessageController

LEMMA SafeBlockController == Safe(BlockController)
<1> USE AddressAndBlockMethods DEF Methods
<1>1. SafeHandler(GetBlockByHeight) /\ SafeHandler(GetBlockByHash)
  BY SafeGet DEF GetBlockByHeight, GetBlockByHash
<1>2. SafeHandler(GetBlocks)
  BY SafeGetWith, NumbersOfLists DEF GetBlocks
<1> QED BY <1>1, <1>2 DEF Safe, BlockController

LEMMA SafeSupplyAndGenesisControllers == Safe(SupplyController) /\ Safe(GenesisController)
<1> USE ChainMethods, TrustingMethods DEF Methods
<1>1. /\ SafeHandler(GetLatestSupply) /\ SafeHandler(GetSupplyByDenom)
      /\ SafeHandler(GetSupplyStatistics)
      /\ SafeHandler(GetGenesis) /\ SafeHandler(GetGenesisByHeight)
  BY SafeGet DEF GetLatestSupply, GetSupplyByDenom, GetSupplyStatistics, GetGenesis,
       GetGenesisByHeight
<1>2. SafeHandler(GetSupply)
  BY SafeGetWith, NumbersOfLists DEF GetSupply
<1>3. Safe(SupplyController)
  BY <1>1, <1>2 DEF Safe, SupplyController
<1>4. Safe(GenesisController)
  BY <1>1 DEF Safe, GenesisController
<1> QED BY <1>3, <1>4

LEMMA SafeValidatorController == Safe(ValidatorController)
<1> USE ValidatorAndMessageMethods DEF Methods
<1>1. /\ SafeHandler(GetValidator) /\ SafeHandler(GetValidatorDescription)
      /\ SafeHandler(GetValidatorCommission) /\ SafeHandler(GetValidatorVotingPower)
      /\ SafeHandler(GetValidatorStatus) /\ SafeHandler(GetValidatorStatistics)
      /\ SafeHandler(GetValidatorActivity)
  BY SafeGet DEF GetValidator, GetValidatorDescription, GetValidatorCommission,
       GetValidatorVotingPower, GetValidatorStatus, GetValidatorStatistics,
       GetValidatorActivity
<1>2. SafeHandler(GetValidators)
  BY SafeGetWith, NumbersOfTransactions DEF GetValidators
<1> QED BY <1>1, <1>2 DEF Safe, ValidatorController

LEMMA SafeStakingController == Safe(StakingController)
<1> USE StakingMethods DEF Methods
<1>1. /\ SafeHandler(GetStakingPool) /\ SafeHandler(GetStakingParams)
      /\ SafeHandler(GetValidatorSigningInfo) /\ SafeHandler(GetAllValidatorSigningInfo)
      /\ SafeHandler(GetCommunityPool) /\ SafeHandler(GetDistributionParams)
      /\ SafeHandler(GetSlashingParams) /\ SafeHandler(GetMintParams)
      /\ SafeHandler(GetInflation) /\ SafeHandler(GetGovParams)
      /\ SafeHandler(GetStakingStatistics)
  BY SafeGet DEF GetStakingPool, GetStakingParams, GetValidatorSigningInfo,
       GetAllValidatorSigningInfo, GetCommunityPool, GetDistributionParams,
       GetSlashingParams, GetMintParams, GetInflation, GetGovParams, GetStakingStatistics
<1>2. /\ SafeHandler(GetDelegationsByAddress) /\ SafeHandler(GetDelegationsByValidator)
      /\ SafeHandler(GetUndelegationsByAddress) /\ SafeHandler(GetUndelegationsByValidator)
      /\ SafeHandler(GetRedelegationsByAddress) /\ SafeHandler(GetWithdrawalsByAddress)
      /\ SafeHandler(GetWithdrawalsByValidator)
  BY SafeGetWith, NumbersOfTransactions DEF GetDelegationsByAddress,
       GetDelegationsByValidator, GetUndelegationsByAddress, GetUndelegationsByValidator,
       GetRedelegationsByAddress, GetWithdrawalsByAddress, GetWithdrawalsByValidator
<1> QED BY <1>1, <1>2 DEF Safe, StakingController

LEMMA SafeGovernanceController == Safe(GovernanceController)
<1> USE ChainMethods, TrustingMethods DEF Methods
<1>1. SafeHandler(GetProposalById) /\ SafeHandler(GetGovernanceStatistics)
  BY SafeGet DEF GetProposalById, GetGovernanceStatistics
<1>2. /\ SafeHandler(GetProposals) /\ SafeHandler(GetProposalVotes)
      /\ SafeHandler(GetProposalDeposits)
  BY SafeGetWith, NumbersOfLists DEF GetProposals, GetProposalVotes, GetProposalDeposits
<1> QED BY <1>1, <1>2 DEF Safe, GovernanceController

LEMMA SafeTokenController == Safe(TokenController)
<1> USE ChainMethods, TrustingMethods DEF Methods
<1>1. SafeHandler(GetTokenByName) /\ SafeHandler(GetTokenStatistics)
  BY SafeGet DEF GetTokenByName, GetTokenStatistics
<1>2. /\ SafeHandler(GetTokens) /\ SafeHandler(GetTokenUnits) /\ SafeHandler(GetTokenPrices)
      /\ SafeHandler(GetTokenPriceHistory)
  BY SafeGetWith, NumbersOfLists DEF GetTokens, GetTokenUnits, GetTokenPrices,
       GetTokenPriceHistory, TokenPriceHistoryListDto
<1> QED BY <1>1, <1>2 DEF Safe, TokenController

LEMMA ElementsOfConcat ==
    ASSUME NEW s, NEW t, s \in Seq(ToSet(s)), t \in Seq(ToSet(t))
    PROVE  /\ s \o t \in Seq(ToSet(s \o t))
           /\ ToSet(s \o t) = ToSet(s) \cup ToSet(t)
<1> DEFINE S == ToSet(s) \cup ToSet(t)
           u == s \o t
<1>1. s \in Seq(S) /\ t \in Seq(S)
  OBVIOUS
<1> HIDE DEF S
<1>2. /\ u \in Seq(S) /\ Len(u) = Len(s) + Len(t)
      /\ DOMAIN u = 1 .. Len(u) /\ DOMAIN s = 1 .. Len(s) /\ DOMAIN t = 1 .. Len(t)
      /\ Len(s) \in Nat /\ Len(t) \in Nat
      /\ \A i \in 1 .. Len(u) : u[i] = IF i <= Len(s) THEN s[i] ELSE t[i - Len(s)]
  BY <1>1
<1> HIDE DEF u
<1>3. ASSUME NEW i \in DOMAIN u
      PROVE  u[i] \in ToSet(s) \cup ToSet(t)
  BY <1>2 DEF ToSet
<1>4. ASSUME NEW i \in DOMAIN s
      PROVE  s[i] \in ToSet(u)
  <2>1. i \in DOMAIN u /\ u[i] = s[i]
    BY <1>2
  <2> QED BY <2>1 DEF ToSet
<1>5. ASSUME NEW i \in DOMAIN t
      PROVE  t[i] \in ToSet(u)
  <2>1. i + Len(s) \in DOMAIN u /\ u[i + Len(s)] = t[i]
    BY <1>2
  <2> QED BY <2>1 DEF ToSet
<1>6. ToSet(u) = ToSet(s) \cup ToSet(t)
  BY <1>3, <1>4, <1>5 DEF ToSet
<1>7. u \in Seq(ToSet(u))
  BY <1>2, <1>6 DEF S
<1> QED BY <1>6, <1>7 DEF u

\* A handler of the application is a handler of one of its controllers.
LEMMA HandlersOfControllers ==
    /\ Handlers \in Seq(ToSet(Handlers))
    /\ ToSet(Handlers) =
               ToSet(AddressController) \cup ToSet(TransactionController)
               \cup ToSet(ValidatorController) \cup ToSet(BlockController)
               \cup ToSet(MessageController) \cup ToSet(StakingController)
               \cup ToSet(GovernanceController) \cup ToSet(TokenController)
               \cup ToSet(SupplyController) \cup ToSet(GenesisController)
<1> DEFINE H2 == AddressController \o TransactionController
           H3 == H2 \o ValidatorController
           H4 == H3 \o BlockController
           H5 == H4 \o MessageController
           H6 == H5 \o StakingController
           H7 == H6 \o GovernanceController
           H8 == H7 \o TokenController
           H9 == H8 \o SupplyController
<1> USE ElementsOfConcat
<1>1. /\ AddressController \in Seq(ToSet(AddressController))
      /\ TransactionController \in Seq(ToSet(TransactionController))
      /\ ValidatorController \in Seq(ToSet(ValidatorController))
      /\ BlockController \in Seq(ToSet(BlockController))
      /\ MessageController \in Seq(ToSet(MessageController))
      /\ StakingController \in Seq(ToSet(StakingController))
      /\ GovernanceController \in Seq(ToSet(GovernanceController))
      /\ TokenController \in Seq(ToSet(TokenController))
      /\ SupplyController \in Seq(ToSet(SupplyController))
      /\ GenesisController \in Seq(ToSet(GenesisController))
  BY SafeTransactionController, SafeAddressController, SafeMessageController,
     SafeBlockController, SafeSupplyAndGenesisControllers, SafeValidatorController,
     SafeStakingController, SafeGovernanceController, SafeTokenController
  DEF Safe, ToSet
<1>2. H2 \in Seq(ToSet(H2)) /\ ToSet(H2) = ToSet(AddressController) \cup ToSet(TransactionController)
  BY <1>1
<1> HIDE DEF H2
<1>3. H3 \in Seq(ToSet(H3)) /\ ToSet(H3) = ToSet(H2) \cup ToSet(ValidatorController)
  BY <1>1, <1>2
<1> HIDE DEF H3
<1>4. H4 \in Seq(ToSet(H4)) /\ ToSet(H4) = ToSet(H3) \cup ToSet(BlockController)
  BY <1>1, <1>3
<1> HIDE DEF H4
<1>5. H5 \in Seq(ToSet(H5)) /\ ToSet(H5) = ToSet(H4) \cup ToSet(MessageController)
  BY <1>1, <1>4
<1> HIDE DEF H5
<1>6. H6 \in Seq(ToSet(H6)) /\ ToSet(H6) = ToSet(H5) \cup ToSet(StakingController)
  BY <1>1, <1>5
<1> HIDE DEF H6
<1>7. H7 \in Seq(ToSet(H7)) /\ ToSet(H7) = ToSet(H6) \cup ToSet(GovernanceController)
  BY <1>1, <1>6
<1> HIDE DEF H7
<1>8. H8 \in Seq(ToSet(H8)) /\ ToSet(H8) = ToSet(H7) \cup ToSet(TokenController)
  BY <1>1, <1>7
<1> HIDE DEF H8
<1>9. H9 \in Seq(ToSet(H9)) /\ ToSet(H9) = ToSet(H8) \cup ToSet(SupplyController)
  BY <1>1, <1>8
<1> HIDE DEF H9
<1>10. Handlers = H9 \o GenesisController
  BY DEF Handlers, H9, H8, H7, H6, H5, H4, H3, H2
<1>11. Handlers \in Seq(ToSet(Handlers)) /\ ToSet(Handlers) = ToSet(H9) \cup ToSet(GenesisController)
  BY <1>1, <1>9, <1>10
<1> QED BY <1>2, <1>3, <1>4, <1>5, <1>6, <1>7, <1>8, <1>9, <1>11

\* Every handler of the application.
LEMMA SafeHandlers == Safe(Handlers)
<1>1. ASSUME NEW s, Safe(s), NEW h \in ToSet(s)
      PROVE  SafeHandler(h)
  BY <1>1 DEF Safe, ToSet
<1>2. ASSUME NEW h \in ToSet(Handlers)
      PROVE  SafeHandler(h)
  BY <1>1, <1>2, HandlersOfControllers,
     SafeTransactionController, SafeAddressController, SafeMessageController,
     SafeBlockController, SafeSupplyAndGenesisControllers, SafeValidatorController,
     SafeStakingController, SafeGovernanceController, SafeTokenController
<1>3. \A i \in DOMAIN Handlers : Handlers[i] \in ToSet(Handlers)
  BY DEF ToSet
<1> QED BY <1>2, <1>3, HandlersOfControllers DEF Safe, ToSet

-----------------------------------------------------------------------------
\* The query string as the handler sees it.
ParamsOf(h, given) == IF h.checked THEN Transformed(h.dto, given) ELSE << >>

\* Numbers that reach a service have passed the checks of the DTO.
NumbersFit(h, P) ==
    /\ "limit" \in DOMAIN P => P["limit"].number \in Int
    /\ h.checked /\ LimitsRows(h.dto) => "limit" \in DOMAIN P /\ P["limit"].number \in 1 .. 100
    /\ "page" \in DOMAIN P => P["page"].number \in Nat \ {0}
    /\ "offset" \in DOMAIN P => P["offset"].number \in Int

LEMMA NumberWritten ==
    ASSUME NEW n
    PROVE  WrittenNumber(n).number = n
  BY DEF WrittenNumber, Written

LEMMA NumbersReach ==
    ASSUME NEW h, NEW given, SafeHandler(h),
           \A p \in DOMAIN given : given[p].number \in Int,
           h.checked => Validated(h.dto, given)
    PROVE  NumbersFit(h, ParamsOf(h, given))
<1>1. CASE ~h.checked
  BY <1>1 DEF NumbersFit, ParamsOf
<1>2. CASE h.checked
  <2> DEFINE P == Transformed(h.dto, given)
  <2>1. Numbers(h.dto) /\ Validated(h.dto, given) /\ ParamsOf(h, given) = P
    BY <1>2 DEF SafeHandler, ParamsOf
  <2>2. ASSUME NEW p \in DOMAIN P
        PROVE  /\ p \in DOMAIN h.dto
               /\ p \in DOMAIN given =>
                      P[p] = Converted(h.dto[p], given[p]) /\ Accepts(h.dto[p], given[p])
               /\ p \notin DOMAIN given => P[p] = WrittenNumber(h.dto[p].default)
    BY <2>1 DEF Transformed, Validated
  <2>3. ASSUME NEW p \in DOMAIN h.dto, h.dto[p].default # NoDefault
        PROVE  p \in DOMAIN P
    BY <2>3 DEF Transformed
  <2> HIDE DEF P
  <2>4. ASSUME NEW p \in DOMAIN P, h.dto[p].default \in Int
        PROVE  P[p].number \in Int
    <3>1. CASE p \in DOMAIN given
      <4>1. P[p] = given[p] \/ P[p].number = 0
        BY <2>2, <2>4, <3>1 DEF Converted, WrittenWord, Written
      <4> QED BY <3>1, <4>1
    <3>2. CASE p \notin DOMAIN given
      <4>1. P[p].number = h.dto[p].default
        BY <2>2, <2>4, <3>2, NumberWritten
      <4> QED BY <2>4, <4>1
    <3> QED BY <3>1, <3>2
  <2>5. ASSUME "page" \in DOMAIN P
        PROVE  P["page"].number \in Nat \ {0}
    <3>1. h.dto["page"] = Page
      BY <2>1, <2>2, <2>5 DEF Numbers
    <3>2. h.dto["page"].check = "int" /\ h.dto["page"].min = 1 /\ h.dto["page"].default = 1
      BY <3>1 DEF Page, IntIn, Field
    <3>3. CASE "page" \in DOMAIN given
      <4>1. P["page"] = given["page"] /\ given["page"].number >= 1
        BY <2>2, <2>5, <3>2, <3>3 DEF Accepts, Converted
      <4> QED BY <3>3, <4>1
    <3>4. CASE "page" \notin DOMAIN given
      BY <2>2, <2>5, <3>2, <3>4, NumberWritten
    <3> QED BY <3>3, <3>4
  <2>6. ASSUME LimitsRows(h.dto)
        PROVE  "limit" \in DOMAIN P /\ P["limit"].number \in 1 .. 100
    <3>1. "limit" \in DOMAIN h.dto /\ h.dto["limit"] = Limit
      BY <2>6 DEF LimitsRows
    <3>2. "limit" \in DOMAIN P
      BY <2>3, <3>1 DEF Limit, IntIn, Field, NoDefault
    <3>3. /\ h.dto["limit"].check = "int" /\ h.dto["limit"].default = 20
          /\ h.dto["limit"].min = 1 /\ h.dto["limit"].max = 100
      BY <3>1 DEF Limit, IntIn, Field
    <3>4. CASE "limit" \in DOMAIN given
      <4>1. /\ P["limit"] = given["limit"]
            /\ given["limit"].number >= 1 /\ given["limit"].number <= 100
        BY <2>2, <3>2, <3>3, <3>4 DEF Accepts, Converted
      <4> QED BY <3>2, <3>4, <4>1
    <3>5. CASE "limit" \notin DOMAIN given
      BY <2>2, <3>2, <3>3, <3>5, NumberWritten
    <3> QED BY <3>4, <3>5
  <2>7. /\ "limit" \in DOMAIN P => P["limit"].number \in Int
        /\ "offset" \in DOMAIN P => P["offset"].number \in Int
    BY <2>1, <2>2, <2>4 DEF Numbers
  <2> QED BY <2>1, <2>5, <2>6, <2>7 DEF NumbersFit
<1> QED BY <1>1, <1>2

\* A query of the method, with its LIMIT and OFFSET.
SentFor(query, P) ==
    [query |-> query, limit |-> LimitOf(query.paging, P), offset |-> OffsetOf(query.paging, P)]

\* What EveryReadBounded says of one query.
ReadBounded(s) ==
    /\ s.limit \in Int /\ s.offset \in Int /\ s.offset >= 0
    /\ IF s.query.paging.by = "nothing"
       THEN s.query.paging.most > 0 \/ s.query.equals # {}
       ELSE s.limit \in 1 .. 100

LEMMA MaxOfTwo ==
    ASSUME NEW a \in Int, NEW b \in Int
    PROVE  Max({a, b}) = IF a >= b THEN a ELSE b
  BY DEF Max

LEMMA MinOfTwo ==
    ASSUME NEW a \in Int, NEW b \in Int
    PROVE  Min({a, b}) = IF a <= b THEN a ELSE b
  BY DEF Min

\* The clamp of the services bounds any number.
LEMMA ClampedLimit ==
    ASSUME NEW query, NEW P, "limit" \in DOMAIN P => P["limit"].number \in Int,
           query.paging.by # "nothing", query.paging.clamped, query.paging.most = 100
    PROVE  LimitOf(query.paging, P) \in 1 .. 100
<1> DEFINE asked == IF "limit" \in DOMAIN P THEN P["limit"].number ELSE 20
<1>1. asked \in Int
  OBVIOUS
<1>2. LimitOf(query.paging, P) = Min({Max({asked, 1}), 100})
  BY DEF LimitOf
<1> HIDE DEF asked
<1>3. Max({asked, 1}) = IF asked >= 1 THEN asked ELSE 1
  BY <1>1, MaxOfTwo
<1>4. Max({asked, 1}) \in Int /\ Max({asked, 1}) >= 1
  BY <1>1, <1>3
<1>5. Min({Max({asked, 1}), 100}) \in 1 .. 100
  <2> DEFINE m == Max({asked, 1})
  <2>1. m \in Int /\ m >= 1
    BY <1>4
  <2> HIDE DEF m
  <2>2. Min({m, 100}) = IF m <= 100 THEN m ELSE 100
    BY <2>1, MinOfTwo
  <2>3. Min({m, 100}) \in 1 .. 100
    BY <2>1, <2>2
  <2> QED BY <2>3 DEF m
<1> QED BY <1>2, <1>5

LEMMA OffsetCounts ==
    ASSUME NEW query, NEW P, NEW h, NumbersFit(h, P), LimitOf(query.paging, P) \in Nat
    PROVE  OffsetOf(query.paging, P) \in Nat
<1>1. CASE query.paging.by = "page" /\ "page" \in DOMAIN P
  <2> DEFINE n == P["page"].number - 1
             m == LimitOf(query.paging, P)
  <2>1. n \in Nat /\ m \in Nat
    BY <1>1 DEF NumbersFit
  <2>2. OffsetOf(query.paging, P) = n * m
    BY <1>1 DEF OffsetOf
  <2> HIDE DEF n, m
  <2>3. n * m \in Nat
    BY <2>1
  <2> QED BY <2>2, <2>3
<1>2. CASE /\ query.paging.by \in {"offset", "either"} /\ ~UsesCursor(query.paging, P)
           /\ "offset" \in DOMAIN P
  <2> DEFINE n == P["offset"].number
  <2>1. n \in Int
    BY <1>2 DEF NumbersFit
  <2>2. OffsetOf(query.paging, P) = Max({n, 0})
    BY <1>2 DEF OffsetOf
  <2> HIDE DEF n
  <2> QED BY <2>1, <2>2, MaxOfTwo
<1>3. CASE /\ ~(query.paging.by = "page" /\ "page" \in DOMAIN P)
           /\ ~(/\ query.paging.by \in {"offset", "either"} /\ ~UsesCursor(query.paging, P)
                /\ "offset" \in DOMAIN P)
  BY <1>3 DEF OffsetOf
<1> QED BY <1>1, <1>2, <1>3

LEMMA SentBounded ==
    ASSUME NEW h, NEW P, SafeHandler(h), NumbersFit(h, P),
           NEW i \in DOMAIN Methods[h.service].queries
    PROVE  ReadBounded(SentFor(Methods[h.service].queries[i], P))
<1> DEFINE query == Methods[h.service].queries[i]
           limit == LimitOf(query.paging, P)
<1>1. \/ Cut(query)
      \/ query.paging = ByPageAsGiven /\ h.checked /\ LimitsRows(h.dto)
  BY DEF SafeHandler, AllCut, Trusting
<1> HIDE DEF query
<1>2. \/ /\ query.paging.by = "nothing" /\ limit \in Nat
         /\ query.paging.most > 0 \/ query.equals # {}
      \/ query.paging.by # "nothing" /\ limit \in 1 .. 100
  <2>1. CASE Cut(query) /\ query.paging.by = "nothing"
    BY <2>1 DEF Cut, LimitOf
  <2>2. CASE Cut(query) /\ query.paging.by # "nothing"
    BY <2>2, ClampedLimit DEF Cut, NumbersFit
  <2>3. CASE query.paging = ByPageAsGiven /\ h.checked /\ LimitsRows(h.dto)
    BY <2>3 DEF ByPageAsGiven, Paging, LimitOf, NumbersFit
  <2> QED BY <1>1, <2>1, <2>2, <2>3
<1>3. OffsetOf(query.paging, P) \in Nat
  BY <1>2, OffsetCounts
<1> HIDE DEF limit
<1>4. ReadBounded([query |-> query, limit |-> limit, offset |-> OffsetOf(query.paging, P)])
  BY <1>2, <1>3 DEF ReadBounded
<1> QED BY <1>4 DEF SentFor, limit, query

-----------------------------------------------------------------------------
\* The queries of the method a handler calls.
QueriesOf(h) == {Methods[h.service].queries[i] : i \in DOMAIN Methods[h.service].queries}

\* The pipe refuses the path, or the pipe or the handler the query string.
Refused(h, r) ==
    \/ \E k \in h.integers : r.path[k] \notin IntegerWords
    \/ h.checked /\ ~Validated(h.dto, r.given)
    \/ ~(h.required \subseteq DOMAIN r.given)

\* What a request has gone through by the time it is served.
Served ==
    /\ request \in Requests
    /\ stage = "received" <=> handler = 0
    /\ handler # 0 => handler = Dispatched(request.path)
    /\ status = 400 => Refused(Handlers[handler], request)
    /\ stage = "querying" =>
           LET h == Handlers[handler] IN
           /\ left \in Seq(QueriesOf(h))
           /\ params = ParamsOf(h, request.given)
           /\ h.checked => Validated(h.dto, request.given)
    /\ sent = Nothing \/ ReadBounded(sent)

IInv == TypeOK /\ Served

\* The router answers with the place of a handler, or 0.
LEMMA DispatchedPlace ==
    ASSUME NEW path, Dispatched(path) # 0
    PROVE  /\ Dispatched(path) \in DOMAIN Handlers
           /\ Matches(path, Handlers[Dispatched(path)])
           /\ \A i \in DOMAIN Handlers : Matches(path, Handlers[i]) => Dispatched(path) <= i
<1> DEFINE I == {i \in 1 .. Len(Handlers) : Matches(path, Handlers[i])}
<1>1. DOMAIN Handlers = 1 .. Len(Handlers)
  BY SafeHandlers DEF Safe
<1>2. Dispatched(path) = IF I # {} THEN Min(I) ELSE 0
  BY DEF Dispatched, SelectInSeq
<1>3. I # {} /\ I \subseteq Nat
  BY <1>2
<1> HIDE DEF I
<1>4. Min(I) \in I /\ \A i \in I : Min(I) <= i
  BY <1>3, MinOfPlaces
<1> QED BY <1>1, <1>2, <1>3, <1>4 DEF I

\* Every handler is fit to be called.
LEMMA HandlerAt ==
    ASSUME NEW i \in DOMAIN Handlers
    PROVE  /\ SafeHandler(Handlers[i])
           /\ Methods[Handlers[i].service].queries \in Seq(QueriesOf(Handlers[i]))
<1>1. SafeHandler(Handlers[i])
  BY SafeHandlers DEF Safe
<1> QED BY <1>1 DEF SafeHandler, AllCut, Trusting, QueriesOf

LEMMA IInvInit == Init => IInv
<1> SUFFICES ASSUME Init PROVE IInv
  OBVIOUS
<1>1. TypeOK
  BY RequestsAssumption, SafeHandlers DEF Init, TypeOK, Nothing, Safe
<1>2. Served
  BY DEF Init, Served
<1> QED BY <1>1, <1>2 DEF IInv

\* Answering ends a request, whatever was left.
LEMMA AnswerPreserves ==
    ASSUME IInv, NEW code \in {200, 400, 404, 500}, AnswerWith(code),
           stage # "received", UNCHANGED <<request, handler>>,
           code = 400 => Refused(Handlers[handler], request),
           sent' = sent \/ ReadBounded(sent')
    PROVE  IInv'
<1> USE DEF IInv, AnswerWith
<1>1. sent'.limit \in Int /\ sent'.offset \in Int
  BY DEF TypeOK, ReadBounded
<1>2. TypeOK'
  BY <1>1 DEF TypeOK
<1>3. Served'
  BY DEF Served
<1> QED BY <1>2, <1>3

\* The query that is sent next is one of those of the method.
LEMMA SendBounded ==
    ASSUME IInv, stage = "querying", left # << >>, Send
    PROVE  /\ ReadBounded(sent')
           /\ IsSuffix(Tail(left), Methods[Handlers[handler].service].queries)
           /\ Tail(left) \in Seq(QueriesOf(Handlers[handler]))
           /\ handler \in DOMAIN Handlers
<1> DEFINE h == Handlers[handler]
           queries == Methods[h.service].queries
<1>1. handler \in DOMAIN Handlers
  BY SafeHandlers DEF IInv, TypeOK, Served, Safe
<1>2. SafeHandler(h) /\ IsSuffix(left, queries)
  BY <1>1, HandlerAt DEF IInv, TypeOK
<1>3. queries \in Seq(QueriesOf(h)) /\ left \in Seq(QueriesOf(h))
  BY <1>1, HandlerAt DEF IInv, Served
<1>4. IsSuffix(Tail(left), queries) /\ \E i \in DOMAIN queries : Head(left) = queries[i]
  BY <1>2, <1>3, SuffixTail
<1>5. PICK i \in DOMAIN queries : Head(left) = queries[i]
  BY <1>4
<1>6. /\ params = ParamsOf(h, request.given)
      /\ h.checked => Validated(h.dto, request.given)
      /\ \A p \in DOMAIN request.given : request.given[p].number \in Int
  BY RequestsAssumption DEF IInv, Served
<1>7. NumbersFit(h, params)
  BY <1>2, <1>6, NumbersReach
<1>8. sent' = SentFor(queries[i], params)
  BY <1>5 DEF Send, SentFor
<1>9. ReadBounded(sent')
  BY <1>2, <1>7, <1>8, SentBounded
<1>10. Tail(left) \in Seq(QueriesOf(h))
  BY <1>3
<1> QED BY <1>1, <1>4, <1>9, <1>10

LEMMA IInvStep ==
    ASSUME IInv, [Next]_vars
    PROVE  IInv'
<1>1. CASE UNCHANGED vars
  BY <1>1 DEF IInv, TypeOK, Served, vars, Nothing
<1>2. CASE Dispatch
  <2>1. handler' \in DOMAIN Handlers /\ handler' # 0 /\ handler' \in 0 .. Len(Handlers)
    BY <1>2, DispatchedPlace, SafeHandlers DEF Dispatch, Safe
  <2>2. TypeOK'
    BY <1>2, <2>1 DEF Dispatch, IInv, TypeOK
  <2>3. Served'
    BY <1>2, <2>1 DEF Dispatch, IInv, TypeOK, Served
  <2> QED BY <2>2, <2>3 DEF IInv
<1>3. CASE Refuse
  BY <1>3, AnswerPreserves DEF Refuse, Refused, PathValidated
<1>4. CASE Call
  <2> DEFINE h == Handlers[handler]
             queries == Methods[h.service].queries
  <2>1. handler \in DOMAIN Handlers
    BY <1>4, SafeHandlers DEF Call, IInv, TypeOK, Served, Safe
  <2>2. queries \in Seq(QueriesOf(h)) /\ IsSuffix(queries, queries)
    BY <2>1, HandlerAt, SuffixWhole
  <2>3. left' = queries /\ stage' = "querying" /\ handler' = handler
    BY <1>4 DEF Call
  <2>4. TypeOK'
    BY <1>4, <2>2, <2>3 DEF Call, IInv, TypeOK
  <2>5. Served'
    BY <1>4, <2>1, <2>2, <2>3 DEF Call, IInv, Served, ParamsOf
  <2> QED BY <2>4, <2>5 DEF IInv
<1>5. CASE Found
  <2>1. /\ ReadBounded(sent')
        /\ IsSuffix(Tail(left), Methods[Handlers[handler].service].queries)
        /\ Tail(left) \in Seq(QueriesOf(Handlers[handler]))
    BY <1>5, SendBounded DEF Found
  <2>2. sent'.limit \in Int /\ sent'.offset \in Int
    BY <2>1 DEF ReadBounded
  <2>3. TypeOK'
    BY <1>5, <2>1, <2>2 DEF Found, IInv, TypeOK
  <2>4. Served'
    BY <1>5, <2>1 DEF Found, IInv, Served
  <2> QED BY <2>3, <2>4 DEF IInv
<1>6. CASE Skip
  <2> DEFINE h == Handlers[handler]
             queries == Methods[h.service].queries
  <2>1. handler \in DOMAIN Handlers
    BY <1>6, SafeHandlers DEF Skip, IInv, TypeOK, Served, Safe
  <2>2. /\ queries \in Seq(QueriesOf(h)) /\ left \in Seq(QueriesOf(h))
        /\ IsSuffix(left, queries) /\ left # << >>
    BY <1>6, <2>1, HandlerAt DEF Skip, IInv, TypeOK, Served
  <2>3. IsSuffix(Tail(left), queries) /\ Tail(left) \in Seq(QueriesOf(h))
    <3>1. IsSuffix(Tail(left), queries)
      BY <2>2, SuffixTail
    <3> QED BY <2>2, <3>1
  <2>4. TypeOK'
    BY <1>6, <2>3 DEF Skip, IInv, TypeOK
  <2>5. Served'
    BY <1>6, <2>3 DEF Skip, IInv, Served
  <2> QED BY <2>4, <2>5 DEF IInv
<1>7. CASE Missing
  <2>1. ReadBounded(sent') /\ SafeHandler(Handlers[handler])
    BY <1>7, SendBounded, HandlerAt DEF Missing
  <2>2. PICK code \in {200, 404, 500} : AnswerWith(code)
    BY <1>7, <2>1 DEF Missing, SafeHandler
  <2> QED BY <1>7, <2>1, <2>2, AnswerPreserves DEF Missing
<1>8. CASE Fail
  <2>1. ReadBounded(sent') /\ SafeHandler(Handlers[handler])
    BY <1>8, SendBounded, HandlerAt DEF Fail
  <2>2. PICK code \in {404, 500} : AnswerWith(code)
    BY <1>8, <2>1 DEF Fail, SafeHandler
  <2> QED BY <1>8, <2>1, <2>2, AnswerPreserves DEF Fail
<1>9. CASE Answer
  <2>1. handler \in DOMAIN Handlers
    BY <1>9, SafeHandlers DEF Answer, IInv, TypeOK, Served, Safe
  <2>2. PICK code \in {200, 404} : AnswerWith(code)
    BY <1>9, <2>1, HandlerAt DEF Answer, SafeHandler
  <2> QED BY <1>9, <2>2, AnswerPreserves DEF Answer
<1> QED BY <1>1, <1>2, <1>3, <1>4, <1>5, <1>6, <1>7, <1>8, <1>9 DEF Next

\* The variables have their types: whatever a client sends, a request is in one of
\* the stages, what is left to run is the end of the queries of the method called,
\* and it has a status exactly when it is answered.
THEOREM TypeCorrect == Spec => []TypeOK
<1>1. IInv => TypeOK
  BY DEF IInv
<1> QED BY <1>1, IInvInit, IInvStep, PTL DEF Spec

\* No request makes the API read a table without a bound: for every path, every
\* combination of parameters and every value, a query that is sent has a LIMIT of at
\* most 100 and an OFFSET that is not negative, or a fixed LIMIT, or reads the rows
\* of one key.
THEOREM ReadsAreBounded == Spec => []EveryReadBounded
<1>1. IInv => EveryReadBounded
  BY DEF IInv, Served, EveryReadBounded, ReadBounded
<1> QED BY <1>1, IInvInit, IInvStep, PTL DEF Spec

-----------------------------------------------------------------------------
(* Which handler a request reaches.                                        *)

\* The words of a path, "none" after its end.
At(h, k) == IF k \in DOMAIN h.path THEN h.path[k] ELSE "none"

\* The path of h is made of n words.
Reads(h, n, first, second, third, fourth) ==
    /\ DOMAIN h.path = 1 .. n /\ Len(h.path) = n
    /\ At(h, 1) = first /\ At(h, 2) = second /\ At(h, 3) = third /\ At(h, 4) = fourth

\* Every path written as h documents it matches g as well.
Covers(g, h) ==
    /\ At(g, 1) \in {"*", At(h, 1)} /\ At(g, 2) \in {"*", At(h, 2)}
    /\ At(g, 3) \in {"*", At(h, 3)} /\ At(g, 4) \in {"*", At(h, 4)}
    /\ \A k \in 1 .. 4 : At(h, k) = "none" => At(g, k) = "none"

\* A handler that an earlier one covers is known to be shadowed.
Unshadowed(s) == \A i, j \in DOMAIN s : i < j /\ Covers(s[i], s[j]) => s[j] \in Shadowed

\* A path has one to four words, none of them "none".
PathEnds(h) ==
    /\ \E n \in 1 .. 4 : DOMAIN h.path = 1 .. n /\ Len(h.path) = n
    /\ \A k \in 1 .. 4 : At(h, k) = "none" <=> k \notin DOMAIN h.path

\* The handlers of s in their order, whose paths begin with the words of W.
Ordered(s, W) ==
    /\ s \in Seq({s[i] : i \in DOMAIN s})
    /\ \A i \in DOMAIN s :
          /\ At(s[i], 1) \in W
          /\ PathEnds(s[i])
    /\ Unshadowed(s)

\* A path that is read to its last word ends there.
LEMMA ReadsToItsEnd ==
    ASSUME NEW h, NEW n \in 1 .. 4, NEW first, NEW second, NEW third, NEW fourth,
           Reads(h, n, first, second, third, fourth),
           first # "none", second = "none" <=> n < 2, third = "none" <=> n < 3,
           fourth = "none" <=> n < 4
    PROVE  PathEnds(h)
  BY DEF Reads, PathEnds

LEMMA TransactionControllerPaths ==
    /\ Reads(GetTransactionCounts, 2, "transaction", "counts", "none", "none")
    /\ Reads(GetTransaction, 2, "transaction", "*", "none", "none")
    /\ Reads(GetTransactions, 1, "transaction", "none", "none", "none")
    /\ Reads(GetTransactionMessages, 3, "transaction", "*", "messages", "none")
    /\ Reads(GetTransactionStatistics, 3, "transaction", "*", "statistics", "none")
    /\ Reads(GetTransactionsAdvanced, 3, "transaction", "advanced", "filter", "none")
    /\ Reads(SearchTransactions, 2, "transaction", "search", "none", "none")
    /\ Reads(GetTransactionsByMessageType, 3, "transaction", "message-type", "*", "none")
    /\ Reads(GetTransactionsByValidator, 3, "transaction", "validator", "*", "none")
    /\ Reads(GetTransactionsByBlockRange, 4, "transaction", "block-range", "*", "*")
    /\ Reads(GetGlobalTransactionStatistics, 3, "transaction", "statistics", "global", "none")
    /\ Reads(GetTransactionAnalytics, 2, "transaction", "analytics", "none", "none")
  BY DEF Reads, At, Get, GetWith, NotFoundOnError, CachedFor, GetTransactionCounts,
       GetTransaction, GetTransactions, GetTransactionMessages,
       GetTransactionStatistics, GetTransactionsAdvanced, SearchTransactions,
       GetTransactionsByMessageType, GetTransactionsByValidator,
       GetTransactionsByBlockRange, GetGlobalTransactionStatistics,
       GetTransactionAnalytics

LEMMA TransactionControllerOrdered == Ordered(TransactionController, {"transaction"})
<1>1. Unshadowed(TransactionController)
  BY TransactionControllerPaths DEF Unshadowed, Covers, Reads, Shadowed, TransactionController
<1>2. \A i \in DOMAIN TransactionController :
          At(TransactionController[i], 1) = "transaction" /\ PathEnds(TransactionController[i])
  BY TransactionControllerPaths, ReadsToItsEnd DEF Reads, TransactionController
<1> QED BY <1>1, <1>2, SafeTransactionController DEF Safe, Ordered

LEMMA AddressControllerPaths ==
    /\ Reads(GetAddressInfo, 2, "address", "*", "none", "none")
    /\ Reads(GetAddressTransactions, 3, "address", "*", "transactions", "none")
    /\ Reads(GetAddressBalance, 3, "address", "*", "balance", "none")
    /\ Reads(GetAddressVesting, 3, "address", "*", "vesting", "none")
    /\ Reads(GetAddressGovernance, 3, "address", "*", "governance", "none")
    /\ Reads(GetAddressTransactionsAdvanced, 4, "address", "*", "transactions", "advanced")
    /\ Reads(GetAddressTransactionStatistics, 4, "address", "*", "transactions", "statistics")
  BY DEF Reads, At, Get, GetWith, NotFoundOnError, CachedFor, GetAddressInfo,
       GetAddressTransactions, GetAddressBalance, GetAddressVesting,
       GetAddressGovernance, GetAddressTransactionsAdvanced,
       GetAddressTransactionStatistics

LEMMA AddressControllerOrdered == Ordered(AddressController, {"address"})
  BY AddressControllerPaths, SafeAddressController, ReadsToItsEnd
  DEF Safe, Ordered, Unshadowed, Covers, Shadowed, Reads, AddressController

LEMMA MessageControllerPaths ==
    /\ Reads(GetMessages, 1, "message", "none", "none", "none")
    /\ Reads(GetMessageTypes, 2, "message", "types", "none", "none")
    /\ Reads(GetMessageTypeInfo, 3, "message", "types", "*", "none")
    /\ Reads(GetMessageStatistics, 2, "message", "statistics", "none", "none")
    /\ Reads(GetMessagesByAddress, 3, "message", "address", "*", "none")
    /\ Reads(GetMessagesByType, 3, "message", "type", "*", "none")
    /\ Reads(SearchMessages, 2, "message", "search", "none", "none")
    /\ Reads(GetMessageModules, 2, "message", "modules", "none", "none")
    /\ Reads(GetMessageCategories, 2, "message", "categories", "none", "none")
  BY DEF Reads, At, Get, GetWith, NotFoundWhenNull, CachedFor, Requiring, GetMessages,
       GetMessageTypes, GetMessageTypeInfo, GetMessageStatistics, GetMessagesByAddress,
       GetMessagesByType, SearchMessages, GetMessageModules, GetMessageCategories

LEMMA MessageControllerOrdered == Ordered(MessageController, {"message"})
  BY MessageControllerPaths, SafeMessageController, ReadsToItsEnd
  DEF Safe, Ordered, Unshadowed, Covers, Shadowed, Reads, MessageController

LEMMA BlockControllerPaths ==
    /\ Reads(GetBlockByHeight, 3, "block", "height", "*", "none")
    /\ Reads(GetBlockByHash, 3, "block", "hash", "*", "none")
    /\ Reads(GetBlocks, 1, "block", "none", "none", "none")
  BY DEF Reads, At, Get, GetWith, NotFoundOnError, CachedFor, GetBlockByHeight,
       GetBlockByHash, GetBlocks

LEMMA BlockControllerOrdered == Ordered(BlockController, {"block"})
  BY BlockControllerPaths, SafeBlockController, ReadsToItsEnd
  DEF Safe, Ordered, Unshadowed, Covers, Shadowed, Reads, BlockController

LEMMA SupplyControllerPaths ==
    /\ Reads(GetSupply, 1, "supply", "none", "none", "none")
    /\ Reads(GetLatestSupply, 2, "supply", "latest", "none", "none")
    /\ Reads(GetSupplyByDenom, 3, "supply", "denom", "*", "none")
    /\ Reads(GetSupplyStatistics, 2, "supply", "statistics", "none", "none")
  BY DEF Reads, At, Get, GetWith, GetSupply, GetLatestSupply, GetSupplyByDenom,
       GetSupplyStatistics

LEMMA SupplyControllerOrdered == Ordered(SupplyController, {"supply"})
  BY SupplyControllerPaths, SafeSupplyAndGenesisControllers, ReadsToItsEnd
  DEF Safe, Ordered, Unshadowed, Covers, Shadowed, Reads, SupplyController

LEMMA GenesisControllerPaths ==
    /\ Reads(GetGenesis, 1, "genesis", "none", "none", "none")
    /\ Reads(GetGenesisByHeight, 3, "genesis", "height", "*", "none")
  BY DEF Reads, At, Get, NotFoundWhenNull, GetGenesis, GetGenesisByHeight

LEMMA GenesisControllerOrdered == Ordered(GenesisController, {"genesis"})
  BY GenesisControllerPaths, SafeSupplyAndGenesisControllers, ReadsToItsEnd
  DEF Safe, Ordered, Unshadowed, Covers, Shadowed, Reads, GenesisController

LEMMA ValidatorControllerPaths ==
    /\ Reads(GetValidator, 2, "validator", "*", "none", "none")
    /\ Reads(GetValidators, 1, "validator", "none", "none", "none")
    /\ Reads(GetValidatorDescription, 3, "validator", "*", "description", "none")
    /\ Reads(GetValidatorCommission, 3, "validator", "*", "commission", "none")
    /\ Reads(GetValidatorVotingPower, 3, "validator", "*", "voting-power", "none")
    /\ Reads(GetValidatorStatus, 3, "validator", "*", "status", "none")
    /\ Reads(GetValidatorStatistics, 3, "validator", "*", "statistics", "none")
    /\ Reads(GetValidatorActivity, 3, "validator", "*", "activity", "none")
  BY DEF Reads, At, Get, GetWith, NotFoundOnError, CachedFor, GetValidator,
       GetValidators, GetValidatorDescription, GetValidatorCommission,
       GetValidatorVotingPower, GetValidatorStatus, GetValidatorStatistics,
       GetValidatorActivity

LEMMA ValidatorControllerOrdered == Ordered(ValidatorController, {"validator"})
<1>1. Unshadowed(ValidatorController)
  BY ValidatorControllerPaths DEF Unshadowed, Covers, Reads, ValidatorController
<1>2. \A i \in DOMAIN ValidatorController :
          At(ValidatorController[i], 1) = "validator" /\ PathEnds(ValidatorController[i])
  BY ValidatorControllerPaths, ReadsToItsEnd DEF Reads, ValidatorController
<1> QED BY <1>1, <1>2, SafeValidatorController DEF Safe, Ordered

LEMMA StakingControllerPaths ==
    /\ Reads(GetStakingPool, 2, "staking", "pool", "none", "none")
    /\ Reads(GetStakingParams, 2, "staking", "params", "none", "none")
    /\ Reads(GetDelegationsByAddress, 4, "staking", "delegations", "address", "*")
    /\ Reads(GetDelegationsByValidator, 4, "staking", "delegations", "validator", "*")
    /\ Reads(GetUndelegationsByAddress, 4, "staking", "undelegations", "address", "*")
    /\ Reads(GetUndelegationsByValidator, 4, "staking", "undelegations", "validator", "*")
    /\ Reads(GetRedelegationsByAddress, 4, "staking", "redelegations", "address", "*")
    /\ Reads(GetWithdrawalsByAddress, 4, "staking", "withdrawals", "address", "*")
    /\ Reads(GetWithdrawalsByValidator, 4, "staking", "withdrawals", "validator", "*")
    /\ Reads(GetValidatorSigningInfo, 4, "staking", "validator", "*", "signing-info")
    /\ Reads(GetAllValidatorSigningInfo, 3, "staking", "validators", "signing-info", "none")
    /\ Reads(GetCommunityPool, 2, "staking", "community-pool", "none", "none")
    /\ Reads(GetDistributionParams, 2, "staking", "distribution-params", "none", "none")
    /\ Reads(GetSlashingParams, 2, "staking", "slashing-params", "none", "none")
    /\ Reads(GetMintParams, 2, "staking", "mint-params", "none", "none")
    /\ Reads(GetInflation, 2, "staking", "inflation", "none", "none")
    /\ Reads(GetGovParams, 2, "staking", "gov-params", "none", "none")
    /\ Reads(GetStakingStatistics, 2, "staking", "statistics", "none", "none")
  BY DEF Reads, At, Get, GetWith, GetStakingPool, GetStakingParams,
       GetDelegationsByAddress, GetDelegationsByValidator, GetUndelegationsByAddress,
       GetUndelegationsByValidator, GetRedelegationsByAddress, GetWithdrawalsByAddress,
       GetWithdrawalsByValidator, GetValidatorSigningInfo, GetAllValidatorSigningInfo,
       GetCommunityPool, GetDistributionParams, GetSlashingParams, GetMintParams,
       GetInflation, GetGovParams, GetStakingStatistics

LEMMA StakingControllerOrdered == Ordered(StakingController, {"staking"})
<1>1. Unshadowed(StakingController)
  BY StakingControllerPaths DEF Unshadowed, Covers, Reads, StakingController
<1>2. \A i \in DOMAIN StakingController :
          At(StakingController[i], 1) = "staking" /\ PathEnds(StakingController[i])
  <2>1. \A i \in DOMAIN StakingController : At(StakingController[i], 1) = "staking"
    BY StakingControllerPaths DEF Reads, StakingController
  <2>2. \A i \in DOMAIN StakingController : PathEnds(StakingController[i])
    BY StakingControllerPaths, ReadsToItsEnd DEF StakingController
  <2> QED BY <2>1, <2>2
<1> QED BY <1>1, <1>2, SafeStakingController DEF Safe, Ordered

LEMMA GovernanceControllerPaths ==
    /\ Reads(GetProposals, 2, "governance", "proposals", "none", "none")
    /\ Reads(GetProposalById, 3, "governance", "proposals", "*", "none")
    /\ Reads(GetProposalVotes, 2, "governance", "votes", "none", "none")
    /\ Reads(GetProposalDeposits, 2, "governance", "deposits", "none", "none")
    /\ Reads(GetGovernanceStatistics, 2, "governance", "statistics", "none", "none")
  BY DEF Reads, At, Get, GetWith, NotFoundWhenNull, IntegerAt, GetProposals, GetProposalById,
       GetProposalVotes, GetProposalDeposits, GetGovernanceStatistics

LEMMA GovernanceControllerOrdered == Ordered(GovernanceController, {"governance"})
  BY GovernanceControllerPaths, SafeGovernanceController, ReadsToItsEnd
  DEF Safe, Ordered, Unshadowed, Covers, Shadowed, Reads, GovernanceController

LEMMA TokenControllerPaths ==
    /\ Reads(GetTokens, 1, "token", "none", "none", "none")
    /\ Reads(GetTokenByName, 2, "token", "*", "none", "none")
    /\ Reads(GetTokenUnits, 2, "token", "units", "none", "none")
    /\ Reads(GetTokenPrices, 2, "token", "prices", "none", "none")
    /\ Reads(GetTokenPriceHistory, 3, "token", "prices", "history", "none")
    /\ Reads(GetTokenStatistics, 2, "token", "statistics", "none", "none")
  BY DEF Reads, At, Get, GetWith, NotFoundWhenNull, GetTokens, GetTokenByName,
       GetTokenUnits, GetTokenPrices, GetTokenPriceHistory, GetTokenStatistics

LEMMA TokenControllerOrdered == Ordered(TokenController, {"token"})
  BY TokenControllerPaths, SafeTokenController, ReadsToItsEnd
  DEF Safe, Ordered, Unshadowed, Covers, Shadowed, Reads, TokenController

\* Handlers whose paths begin with different words do not cover each other.
LEMMA OrderedConcat ==
    ASSUME NEW s, NEW t, NEW V, NEW W, Ordered(s, V), Ordered(t, W),
           V \cap W = {}, "*" \notin V
    PROVE  Ordered(s \o t, V \cup W)
<1> DEFINE S == {s[i] : i \in DOMAIN s} \cup {t[i] : i \in DOMAIN t}
           u == s \o t
<1>1. s \in Seq(S) /\ t \in Seq(S)
  BY DEF Ordered
<1> HIDE DEF S
<1>2. /\ u \in Seq(S) /\ Len(u) = Len(s) + Len(t)
      /\ \A i \in 1 .. Len(u) : u[i] = IF i <= Len(s) THEN s[i] ELSE t[i - Len(s)]
  BY <1>1
<1> HIDE DEF u
<1>3. u \in Seq({u[i] : i \in DOMAIN u}) /\ DOMAIN u = 1 .. Len(u)
      /\ DOMAIN s = 1 .. Len(s) /\ DOMAIN t = 1 .. Len(t) /\ Len(s) \in Nat /\ Len(t) \in Nat
  BY <1>1, <1>2
<1>4. ASSUME NEW i \in DOMAIN u
      PROVE  \/ i \in DOMAIN s /\ u[i] = s[i]
             \/ i - Len(s) \in DOMAIN t /\ u[i] = t[i - Len(s)] /\ i > Len(s)
  BY <1>2, <1>3
<1>5. ASSUME NEW i \in DOMAIN u
      PROVE  /\ At(u[i], 1) \in V \cup W
             /\ PathEnds(u[i])
  BY <1>4 DEF Ordered
<1>6. ASSUME NEW i \in DOMAIN u, NEW j \in DOMAIN u, i < j, Covers(u[i], u[j])
      PROVE  u[j] \in Shadowed
  <2>1. CASE i \in DOMAIN s /\ u[i] = s[i] /\ j \in DOMAIN s /\ u[j] = s[j]
    BY <1>6, <2>1 DEF Ordered, Unshadowed
  <2>2. CASE i > Len(s) /\ j > Len(s)
    <3> DEFINE k == i - Len(s)
               l == j - Len(s)
    <3>1. k \in DOMAIN t /\ u[i] = t[k]
      BY <1>3, <1>4, <2>2
    <3>2. l \in DOMAIN t /\ u[j] = t[l]
      BY <1>3, <1>4, <2>2
    <3>3. i \in Int /\ j \in Int /\ k < l
      BY <1>3, <1>6
    <3> QED BY <1>6, <3>1, <3>2, <3>3 DEF Ordered, Unshadowed
  <2>3. CASE i \in DOMAIN s /\ u[i] = s[i] /\ j > Len(s)
    <3>1. j - Len(s) \in DOMAIN t /\ u[j] = t[j - Len(s)]
      BY <1>3, <1>4, <2>3
    <3>2. At(u[i], 1) \in V /\ At(u[j], 1) \in W
      BY <2>3, <3>1 DEF Ordered
    <3> QED BY <1>6, <3>2 DEF Covers
  <2> QED BY <1>3, <1>4, <1>6, <2>1, <2>2, <2>3
<1> QED BY <1>3, <1>5, <1>6 DEF Ordered, Unshadowed, u

\* No two controllers serve the same first word, hence the order of the modules of
\* the application does not matter.
LEMMA HandlersOrdered ==
    \E W : Ordered(Handlers, W)
<1> USE OrderedConcat
<1>1. Ordered(AddressController \o TransactionController, {"address", "transaction"})
  BY AddressControllerOrdered, TransactionControllerOrdered
<1>2. Ordered(AddressController \o TransactionController \o ValidatorController,
             {"address", "transaction", "validator"})
  BY <1>1, ValidatorControllerOrdered
<1>3. Ordered(AddressController \o TransactionController \o ValidatorController \o
             BlockController,
             {"address", "transaction", "validator", "block"})
  BY <1>2, BlockControllerOrdered
<1>4. Ordered(AddressController \o TransactionController \o ValidatorController \o
             BlockController \o MessageController,
             {"address", "transaction", "validator", "block", "message"})
  BY <1>3, MessageControllerOrdered
<1>5. Ordered(AddressController \o TransactionController \o ValidatorController \o
             BlockController \o MessageController \o StakingController,
             {"address", "transaction", "validator", "block", "message", "staking"})
  BY <1>4, StakingControllerOrdered
<1>6. Ordered(AddressController \o TransactionController \o ValidatorController \o
             BlockController \o MessageController \o StakingController \o
             GovernanceController,
             {"address", "transaction", "validator", "block", "message", "staking",
              "governance"})
  BY <1>5, GovernanceControllerOrdered
<1>7. Ordered(AddressController \o TransactionController \o ValidatorController \o
             BlockController \o MessageController \o StakingController \o
             GovernanceController \o TokenController,
             {"address", "transaction", "validator", "block", "message", "staking",
              "governance", "token"})
  BY <1>6, TokenControllerOrdered
<1>8. Ordered(AddressController \o TransactionController \o ValidatorController \o
             BlockController \o MessageController \o StakingController \o
             GovernanceController \o TokenController \o SupplyController,
             {"address", "transaction", "validator", "block", "message", "staking",
              "governance", "token", "supply"})
  BY <1>7, SupplyControllerOrdered
<1>9. Ordered(AddressController \o TransactionController \o ValidatorController \o
             BlockController \o MessageController \o StakingController \o
             GovernanceController \o TokenController \o SupplyController \o
             GenesisController,
             {"address", "transaction", "validator", "block", "message", "staking",
              "governance", "token", "supply", "genesis"})
  BY <1>8, GenesisControllerOrdered
<1> QED BY <1>9 DEF Handlers

\* What is matched by a path written for another handler covers it.
LEMMA MatchedCovers ==
    ASSUME NEW i \in DOMAIN Handlers, NEW j \in DOMAIN Handlers, NEW path \in Seq(STRING),
           Matches(path, Handlers[i]), Matches(path, Handlers[j]),
           \A k \in DOMAIN path : Handlers[j].path[k] = "*" => ~IsFixedWord(path[k])
    PROVE  Covers(Handlers[i], Handlers[j])
<1> DEFINE g == Handlers[i]
           h == Handlers[j]
<1>1. PathEnds(g) /\ PathEnds(h)
  BY HandlersOrdered DEF Ordered
<1>2. DOMAIN g.path = DOMAIN path /\ DOMAIN h.path = DOMAIN path
  <2>1. /\ Len(g.path) = Len(path) /\ Len(h.path) = Len(path)
        /\ DOMAIN path = 1 .. Len(path)
    BY DEF Matches
  <2>2. DOMAIN g.path = 1 .. Len(g.path) /\ DOMAIN h.path = 1 .. Len(h.path)
    BY <1>1 DEF PathEnds
  <2> QED BY <2>1, <2>2
<1>3. ASSUME NEW k \in DOMAIN path
      PROVE  g.path[k] \in {"*", h.path[k]}
  <2>1. g.path[k] = "*" \/ IsFixedWord(g.path[k])
    BY <1>2, <1>3 DEF IsFixedWord
  <2>2. g.path[k] \in {"*", path[k]} /\ h.path[k] \in {"*", path[k]}
    BY <1>3 DEF Matches
  <2> QED BY <1>3, <2>1, <2>2
<1> HIDE DEF g, h
<1>4. \A k \in 1 .. 4 : At(h, k) = "none" => At(g, k) = "none"
  BY <1>1, <1>2 DEF PathEnds
<1>5. \A k \in 1 .. 4 : At(g, k) \in {"*", At(h, k)}
  BY <1>2, <1>3 DEF At
<1> QED BY <1>4, <1>5 DEF Covers, g, h

\* The router takes a request to the handler it is written for, for every address,
\* hash, height or name in the place of a path parameter, and wherever the two stand
\* in the sources, unless an earlier path is known to shadow the handler.
THEOREM RequestsReachHandlers == PathsAsDocumented => (Spec => []HandlersReached)
<1> SUFFICES ASSUME PathsAsDocumented PROVE Spec => []HandlersReached
  OBVIOUS
<1>1. ASSUME IInv, handler # 0, handler # request.serving
      PROVE  Documented \in Shadowed
  <2> DEFINE j == request.serving
  <2>1. /\ j \in DOMAIN Handlers /\ request.path \in Seq(STRING)
        /\ Matches(request.path, Handlers[j])
        /\ \A k \in DOMAIN request.path :
              Handlers[j].path[k] = "*" => ~IsFixedWord(request.path[k])
    BY <1>1, RequestsAssumption DEF IInv, Served, PathsAsDocumented
  <2>2. /\ handler \in DOMAIN Handlers /\ Matches(request.path, Handlers[handler])
        /\ handler <= j
    BY <1>1, <2>1, DispatchedPlace DEF IInv, Served
  <2>3. handler < j
    BY <1>1, <2>1, <2>2, SafeHandlers DEF Safe
  <2>4. Covers(Handlers[handler], Handlers[j])
    BY <2>1, <2>2, MatchedCovers
  <2> QED BY <2>1, <2>2, <2>3, <2>4, HandlersOrdered DEF Ordered, Unshadowed, Documented
<1>2. IInv => HandlersReached
  BY <1>1 DEF HandlersReached
<1> QED BY <1>2, IInvInit, IInvStep, PTL DEF Spec

-----------------------------------------------------------------------------
\* A handler whose documented parameters are those of its DTO, but for the date parts
\* that DateFilterDto does not have, and that asks for none by itself.
Declares(h) ==
    /\ h.required = {}
    /\ h.checked => h.documented \subseteq DOMAIN h.dto \cup Getters(h.dto) \cup Undeclared

LEMMA DeclaresGet ==
    ASSUME NEW path, NEW service
    PROVE  LET h == Get(path, service) IN
               /\ Declares(h) /\ Declares(NotFoundOnError(h)) /\ Declares(NotFoundWhenNull(h))
               /\ \A k : Declares(IntegerAt(k, NotFoundWhenNull(h)))
               /\ \A ttl : /\ Declares(CachedFor(ttl, h))
                           /\ Declares(CachedFor(ttl, NotFoundOnError(h)))
  BY DEF Get, Declares, NotFoundOnError, NotFoundWhenNull, IntegerAt, CachedFor

LEMMA DeclaresGetWith ==
    ASSUME NEW path, NEW service, NEW dto, NEW documented,
           documented \subseteq DOMAIN dto \cup Getters(dto) \cup Undeclared
    PROVE  LET h == GetWith(path, service, dto, documented) IN
               /\ Declares(h)
               /\ \A ttl : /\ Declares(CachedFor(ttl, h))
                           /\ Declares(CachedFor(ttl, NotFoundOnError(h)))
  BY DEF Get, GetWith, Declares, NotFoundOnError, CachedFor

LEMMA MergedNames ==
    ASSUME NEW f, NEW g
    PROVE  DOMAIN (f ++ g) = DOMAIN f \cup DOMAIN g
  BY DEF ++

\* The parameters of the DTOs that extend DateFilterDto.
LEMMA ListNames ==
    /\ DOMAIN MessageListDto = DOMAIN DateFilterDto \cup
          {"page", "limit", "cursor", "type", "module", "category", "address", "types",
           "modules", "height_from", "height_to", "denom", "amount_min", "amount_max"}
    /\ DOMAIN BlockListDto = DOMAIN DateFilterDto \cup
          {"page", "limit", "cursor", "proposer", "min_txs", "max_txs"}
    /\ DOMAIN SupplyListDto = DOMAIN DateFilterDto \cup
          {"page", "limit", "denom", "denoms", "amount_min", "amount_max", "height_min",
           "height_max", "sort_by", "sort_order"}
    /\ DOMAIN ProposalListDto = DOMAIN DateFilterDto \cup
          {"page", "limit", "status", "proposer", "search", "ids", "sort_by",
           "sort_order"}
    /\ DOMAIN ProposalVoteListDto = DOMAIN DateFilterDto \cup
          {"page", "limit", "proposal_id", "voter", "option", "voters"}
    /\ DOMAIN ProposalDepositListDto = DOMAIN DateFilterDto \cup
          {"page", "limit", "proposal_id", "depositor", "depositors", "amount_min",
           "amount_max", "denom"}
    /\ DOMAIN TokenListDto = DOMAIN DateFilterDto \cup
          {"page", "limit", "name", "denom", "price_id", "price_min", "price_max",
           "names", "denoms", "sort_by", "sort_order"}
    /\ DOMAIN TokenUnitListDto = DOMAIN DateFilterDto \cup
          {"page", "limit", "token_name", "denom", "price_id", "exponent_min",
           "exponent_max", "denoms"}
    /\ DOMAIN TokenPriceListDto = DOMAIN DateFilterDto \cup
          {"page", "limit", "price_id", "price_min", "price_max", "price_ids"}
<1>1. DOMAIN MessageListDto = DOMAIN DateFilterDto \cup
          {"page", "limit", "cursor", "type", "module", "category", "address", "types",
           "modules", "height_from", "height_to", "denom", "amount_min", "amount_max"}
  BY MergedNames DEF MessageListDto
<1>2. DOMAIN BlockListDto = DOMAIN DateFilterDto \cup
          {"page", "limit", "cursor", "proposer", "min_txs", "max_txs"}
  BY MergedNames DEF BlockListDto
<1>3. DOMAIN SupplyListDto = DOMAIN DateFilterDto \cup
          {"page", "limit", "denom", "denoms", "amount_min", "amount_max", "height_min",
           "height_max", "sort_by", "sort_order"}
  BY MergedNames DEF SupplyListDto
<1>4. DOMAIN ProposalListDto = DOMAIN DateFilterDto \cup
          {"page", "limit", "status", "proposer", "search", "ids", "sort_by",
           "sort_order"}
  BY MergedNames DEF ProposalListDto
<1>5. DOMAIN ProposalVoteListDto = DOMAIN DateFilterDto \cup
          {"page", "limit", "proposal_id", "voter", "option", "voters"}
  BY MergedNames DEF ProposalVoteListDto
<1>6. DOMAIN ProposalDepositListDto = DOMAIN DateFilterDto \cup
          {"page", "limit", "proposal_id", "depositor", "depositors", "amount_min",
           "amount_max", "denom"}
  BY MergedNames DEF ProposalDepositListDto
<1>7. DOMAIN TokenListDto = DOMAIN DateFilterDto \cup
          {"page", "limit", "name", "denom", "price_id", "price_min", "price_max",
           "names", "denoms", "sort_by", "sort_order"}
  BY MergedNames DEF TokenListDto
<1>8. DOMAIN TokenUnitListDto = DOMAIN DateFilterDto \cup
          {"page", "limit", "token_name", "denom", "price_id", "exponent_min",
           "exponent_max", "denoms"}
  BY MergedNames DEF TokenUnitListDto
<1>9. DOMAIN TokenPriceListDto = DOMAIN DateFilterDto \cup
          {"page", "limit", "price_id", "price_min", "price_max", "price_ids"}
  BY MergedNames DEF TokenPriceListDto
<1> QED BY <1>1, <1>2, <1>3, <1>4, <1>5, <1>6, <1>7, <1>8, <1>9

LEMMA DocumentedDatesDeclared ==
    /\ DocumentedDates \subseteq DOMAIN DateFilterDto
    /\ DocumentedDatesAndRanges \subseteq DOMAIN DateFilterDto \cup Undeclared
<1>1. DOMAIN DateFilterDto =
          DOMAIN DatePartFields \cup DOMAIN DateFormatFields \cup DOMAIN DateListFields
  BY DEF DateFilterDto, ++
<1>2. DOMAIN DatePartFields =
          {"date_from", "date_to", "date_exact", "year", "month", "day", "day_of_week",
           "hour", "minute", "second"}
  BY DEF DatePartFields
<1>3. DOMAIN DateFormatFields =
          {"time_from", "time_to", "relative_value", "relative_unit", "date_range_type",
           "date_pattern", "date_format", "timezone", "business_days_only"}
  BY DEF DateFormatFields
<1>4. DOMAIN DateListFields =
          {"weekdays", "months", "quarters", "years", "granularity", "aggregation",
           "season", "fiscal_year", "fiscal_quarter", "leap_years_only", "custom_ranges",
           "interval", "date_offset", "valid_dates_only"}
  BY DEF DateListFields
<1> QED BY <1>1, <1>2, <1>3, <1>4 DEF DocumentedDates, DocumentedDatesAndRanges, Undeclared

LEMMA DeclaresTransactionController == \A h \in ToSet(TransactionController) : Declares(h)
<1>1. /\ Declares(GetTransaction) /\ Declares(GetTransactionMessages)
      /\ Declares(GetTransactionStatistics)
      /\ Declares(GetGlobalTransactionStatistics) /\ Declares(GetTransactionAnalytics)
  BY DeclaresGet DEF GetTransaction, GetTransactionMessages, GetTransactionStatistics,
       GetGlobalTransactionStatistics, GetTransactionAnalytics
<1>2. Declares(GetTransactionCounts) /\ Declares(GetTransactions)
  BY DeclaresGetWith DEF GetTransactionCounts, GetTransactions, TransactionCountsQueryDto,
       TransactionListDto
<1>3. Declares(GetTransactionsAdvanced) /\ Declares(SearchTransactions)
  BY DeclaresGetWith DEF GetTransactionsAdvanced, SearchTransactions
<1>4. /\ Declares(GetTransactionsByMessageType) /\ Declares(GetTransactionsByValidator)
      /\ Declares(GetTransactionsByBlockRange)
  BY DeclaresGetWith DEF GetTransactionsByMessageType, GetTransactionsByValidator,
       GetTransactionsByBlockRange, OffsetPaginationDto
<1> QED BY <1>1, <1>2, <1>3, <1>4 DEF ToSet, TransactionController

LEMMA DeclaresAddressController == \A h \in ToSet(AddressController) : Declares(h)
<1>1. /\ Declares(GetAddressInfo) /\ Declares(GetAddressBalance)
      /\ Declares(GetAddressVesting) /\ Declares(GetAddressGovernance)
      /\ Declares(GetAddressTransactionStatistics)
  BY DeclaresGet DEF GetAddressInfo, GetAddressBalance, GetAddressVesting,
       GetAddressGovernance, GetAddressTransactionStatistics
<1>2. Declares(GetAddressTransactions)
  BY DeclaresGetWith DEF GetAddressTransactions, PaginationDto
<1>3. DOMAIN AddressTransactionFilterDto =
          DOMAIN GasFilters \cup
          {"min_fee_amount", "max_fee_amount", "fee_denom", "memo", "message_types",
           "modules", "direction", "min_amount", "max_amount", "denom", "date_from",
           "date_to", "search"} \cup DOMAIN AddressTransactionPage
  BY MergedNames DEF AddressTransactionFilterDto, AddressTransactionFilters
<1>4. Declares(GetAddressTransactionsAdvanced)
  BY <1>3, DeclaresGetWith DEF GetAddressTransactionsAdvanced, GasFilters,
       AddressTransactionPage
<1> QED BY <1>1, <1>2, <1>4 DEF ToSet, AddressController

LEMMA DeclaresMessageController ==
    \A h \in ToSet(MessageController) : h = SearchMessages \/ Declares(h)
<1>1. /\ Declares(GetMessageTypes) /\ Declares(GetMessageTypeInfo)
      /\ Declares(GetMessageStatistics) /\ Declares(GetMessageModules)
      /\ Declares(GetMessageCategories)
  BY DeclaresGet DEF GetMessageTypes, GetMessageTypeInfo, GetMessageStatistics,
       GetMessageModules, GetMessageCategories
<1>2. Declares(GetMessages)
  BY ListNames, DocumentedDatesDeclared, DeclaresGetWith DEF GetMessages
<1>3. Declares(GetMessagesByAddress) /\ Declares(GetMessagesByType)
  BY DeclaresGetWith DEF GetMessagesByAddress, GetMessagesByType, PaginationDto
<1> QED BY <1>1, <1>2, <1>3 DEF ToSet, MessageController

LEMMA DeclaresBlockController == \A h \in ToSet(BlockController) : Declares(h)
<1>1. Declares(GetBlockByHeight) /\ Declares(GetBlockByHash)
  BY DeclaresGet DEF GetBlockByHeight, GetBlockByHash
<1>2. Declares(GetBlocks)
  BY ListNames, DocumentedDatesDeclared, DeclaresGetWith DEF GetBlocks
<1> QED BY <1>1, <1>2 DEF ToSet, BlockController

LEMMA DeclaresSupplyAndGenesisControllers ==
    \A h \in ToSet(SupplyController) \cup ToSet(GenesisController) : Declares(h)
<1>1. /\ Declares(GetLatestSupply) /\ Declares(GetSupplyByDenom)
      /\ Declares(GetSupplyStatistics) /\ Declares(GetGenesis) /\ Declares(GetGenesisByHeight)
  BY DeclaresGet DEF GetLatestSupply, GetSupplyByDenom, GetSupplyStatistics, GetGenesis,
       GetGenesisByHeight
<1>2. Declares(GetSupply)
  BY ListNames, DocumentedDatesDeclared, DeclaresGetWith DEF GetSupply
<1> QED BY <1>1, <1>2 DEF ToSet, SupplyController, GenesisController

LEMMA DeclaresValidatorController == \A h \in ToSet(ValidatorController) : Declares(h)
<1>1. /\ Declares(GetValidator) /\ Declares(GetValidatorDescription)
      /\ Declares(GetValidatorCommission) /\ Declares(GetValidatorVotingPower)
      /\ Declares(GetValidatorStatus) /\ Declares(GetValidatorStatistics)
      /\ Declares(GetValidatorActivity)
  BY DeclaresGet DEF GetValidator, GetValidatorDescription, GetValidatorCommission,
       GetValidatorVotingPower, GetValidatorStatus, GetValidatorStatistics,
       GetValidatorActivity
<1>2. Declares(GetValidators)
  BY DeclaresGetWith DEF GetValidators, ValidatorListDto
<1> QED BY <1>1, <1>2 DEF ToSet, ValidatorController

LEMMA DeclaresStakingController == \A h \in ToSet(StakingController) : Declares(h)
<1>1. /\ Declares(GetStakingPool) /\ Declares(GetStakingParams)
      /\ Declares(GetValidatorSigningInfo) /\ Declares(GetAllValidatorSigningInfo)
      /\ Declares(GetCommunityPool) /\ Declares(GetDistributionParams)
      /\ Declares(GetSlashingParams) /\ Declares(GetMintParams) /\ Declares(GetInflation)
      /\ Declares(GetGovParams) /\ Declares(GetStakingStatistics)
  BY DeclaresGet DEF GetStakingPool, GetStakingParams, GetValidatorSigningInfo,
       GetAllValidatorSigningInfo, GetCommunityPool, GetDistributionParams,
       GetSlashingParams, GetMintParams, GetInflation, GetGovParams, GetStakingStatistics
<1>2. {"limit", "offset"} \subseteq DOMAIN PaginationDto \cup Getters(PaginationDto)
  <2>1. "limit" \in DOMAIN PaginationDto /\ "offset" \notin DOMAIN PaginationDto
    BY DEF PaginationDto
  <2>2. PaginationDto # OffsetPaginationDto
    BY <2>1 DEF OffsetPaginationDto
  <2>3. Getters(PaginationDto) = {"offset"}
    BY <2>2 DEF Getters
  <2> QED BY <2>1, <2>3
<1>3. /\ Declares(GetDelegationsByAddress) /\ Declares(GetDelegationsByValidator)
      /\ Declares(GetUndelegationsByAddress) /\ Declares(GetUndelegationsByValidator)
      /\ Declares(GetRedelegationsByAddress) /\ Declares(GetWithdrawalsByAddress)
      /\ Declares(GetWithdrawalsByValidator)
  BY <1>2, DeclaresGetWith DEF GetDelegationsByAddress, GetDelegationsByValidator,
       GetUndelegationsByAddress, GetUndelegationsByValidator, GetRedelegationsByAddress,
       GetWithdrawalsByAddress, GetWithdrawalsByValidator
<1> QED BY <1>1, <1>3 DEF ToSet, StakingController

LEMMA DeclaresGovernanceController == \A h \in ToSet(GovernanceController) : Declares(h)
<1>1. Declares(GetProposalById) /\ Declares(GetGovernanceStatistics)
  BY DeclaresGet DEF GetProposalById, GetGovernanceStatistics
<1>2. {"date_from", "date_to"} \subseteq DOMAIN DateFilterDto
  BY DocumentedDatesDeclared DEF DocumentedDates
<1>3. Declares(GetProposals)
  BY ListNames, DocumentedDatesDeclared, DeclaresGetWith DEF GetProposals
<1>4. Declares(GetProposalVotes) /\ Declares(GetProposalDeposits)
  BY <1>2, ListNames, DeclaresGetWith DEF GetProposalVotes, GetProposalDeposits
<1> QED BY <1>1, <1>3, <1>4 DEF ToSet, GovernanceController

LEMMA DeclaresTokenController == \A h \in ToSet(TokenController) : Declares(h)
<1>1. Declares(GetTokenByName) /\ Declares(GetTokenStatistics)
  BY DeclaresGet DEF GetTokenByName, GetTokenStatistics
<1>2. {"date_from", "date_to", "interval"} \subseteq DOMAIN DateFilterDto
  <2>1. {"date_from", "date_to"} \subseteq DOMAIN DateFilterDto
    BY DocumentedDatesDeclared DEF DocumentedDates
  <2>2. "interval" \in DOMAIN DateListFields
    BY DEF DateListFields
  <2>3. "interval" \in DOMAIN DateFilterDto
    BY <2>2 DEF DateFilterDto, ++
  <2> QED BY <2>1, <2>3
<1>3. Declares(GetTokens)
  BY ListNames, DocumentedDatesDeclared, DeclaresGetWith DEF GetTokens
<1>4. Declares(GetTokenUnits)
  BY <1>2, ListNames, DeclaresGetWith DEF GetTokenUnits
<1>5. Declares(GetTokenPrices) /\ Declares(GetTokenPriceHistory)
  BY <1>2, ListNames, DeclaresGetWith DEF GetTokenPrices, GetTokenPriceHistory,
       TokenPriceHistoryListDto
<1> QED BY <1>1, <1>3, <1>4, <1>5 DEF ToSet, TokenController

\* Every handler but one takes what it documents.
LEMMA HandlersDeclare ==
    \A i \in DOMAIN Handlers : Handlers[i] = SearchMessages \/ Declares(Handlers[i])
<1>1. \A h \in ToSet(Handlers) : h = SearchMessages \/ Declares(h)
  BY HandlersOfControllers, DeclaresTransactionController, DeclaresAddressController,
     DeclaresMessageController, DeclaresBlockController,
     DeclaresSupplyAndGenesisControllers, DeclaresValidatorController,
     DeclaresStakingController, DeclaresGovernanceController, DeclaresTokenController
<1> QED BY <1>1 DEF ToSet

\* A request that reaches the handler it is written for, with any number of the
\* parameters documented there, is refused for the value of one of them, for a word in
\* its path where an integer is documented, or for one of the six date parts no DTO
\* has; GET /message/search alone refuses what it documents.
THEOREM DocumentedParametersPass == ParametersAsDocumented => (Spec => []OnlyKnownRefusals)
<1> SUFFICES ASSUME ParametersAsDocumented PROVE Spec => []OnlyKnownRefusals
  OBVIOUS
<1>1. ASSUME IInv, status = 400, handler = request.serving,
             Documented # SearchMessages, Given \cap Undeclared = {},
             \A k \in Documented.integers : request.path[k] \in IntegerWords
      PROVE  \E p \in Given \cap DOMAIN Documented.dto :
                 ~Accepts(Documented.dto[p], request.given[p])
  <2>1. /\ Refused(Documented, request) /\ Declares(Documented)
        /\ Given \subseteq Documented.documented \cup DOMAIN Documented.dto
    BY <1>1, RequestsAssumption, HandlersDeclare
    DEF IInv, Served, ParametersAsDocumented, Documented, Given
  <2>2. Documented.checked /\ ~Validated(Documented.dto, request.given)
    BY <1>1, <2>1 DEF Refused, Declares
  <2>3. Given \subseteq DOMAIN Documented.dto \cup Getters(Documented.dto)
    BY <1>1, <2>1, <2>2 DEF Declares
  <2> QED BY <2>2, <2>3 DEF Validated, Given
<1>2. IInv => OnlyKnownRefusals
  BY <1>1 DEF OnlyKnownRefusals
<1> QED BY <1>2, IInvInit, IInvStep, PTL DEF Spec

-----------------------------------------------------------------------------
\* The aliases a query starts with.
Own(q) == q.exists ++ [as \in {q.as} |-> q.entity]

\* What is known after each join is what the query knows, given any such sequence.
LEMMA AliasesByStep ==
    ASSUME NEW q, NEW g,
           g = [n \in 0 .. Len(q.joins) |->
                    IF n = 0 THEN Own(q) ELSE Joined(g[n - 1], q.joins[n])]
    PROVE  \E f : /\ Aliases(q) = f[Len(q.joins)]
                  /\ f = [n \in 0 .. Len(q.joins) |->
                             IF n = 0 THEN Own(q) ELSE Joined(f[n - 1], q.joins[n])]
<1> DEFINE Is(f) == f = [n \in 0 .. Len(q.joins) |->
                             IF n = 0 THEN Own(q) ELSE Joined(f[n - 1], q.joins[n])]
           f == CHOOSE f : Is(f)
<1>1. Is(f)
  <2> Is(g)
    OBVIOUS
  <2> HIDE DEF Is
  <2> QED OBVIOUS
<1>2. Aliases(q) = f[Len(q.joins)]
  BY DEF Aliases, Own
<1> QED BY <1>1, <1>2

LEMMA AliasesUnjoined ==
    ASSUME NEW q, q.joins = << >>
    PROVE  Aliases(q) = Own(q)
<1> DEFINE g == [n \in 0 .. 0 |-> Own(q)]
<1>1. Len(q.joins) = 0
  OBVIOUS
<1>2. g = [n \in 0 .. Len(q.joins) |->
               IF n = 0 THEN Own(q) ELSE Joined(g[n - 1], q.joins[n])]
  BY <1>1
<1> HIDE DEF g
<1>3. PICK f : /\ Aliases(q) = f[Len(q.joins)]
               /\ f = [n \in 0 .. Len(q.joins) |->
                          IF n = 0 THEN Own(q) ELSE Joined(f[n - 1], q.joins[n])]
  BY <1>2, AliasesByStep
<1> QED BY <1>1, <1>3

LEMMA AliasesOnce ==
    ASSUME NEW q, NEW j, q.joins = <<j>>
    PROVE  Aliases(q) = Joined(Own(q), j)
<1> DEFINE g == [n \in 0 .. 1 |-> IF n = 0 THEN Own(q) ELSE Joined(Own(q), j)]
<1>1. Len(q.joins) = 1 /\ q.joins[1] = j
  OBVIOUS
<1>2. g = [n \in 0 .. Len(q.joins) |->
               IF n = 0 THEN Own(q) ELSE Joined(g[n - 1], q.joins[n])]
  BY <1>1
<1> HIDE DEF g
<1>3. PICK f : /\ Aliases(q) = f[Len(q.joins)]
               /\ f = [n \in 0 .. Len(q.joins) |->
                          IF n = 0 THEN Own(q) ELSE Joined(f[n - 1], q.joins[n])]
  BY <1>2, AliasesByStep
<1> QED BY <1>1, <1>3

LEMMA AliasesTwice ==
    ASSUME NEW q, NEW j1, NEW j2, q.joins = <<j1, j2>>
    PROVE  Aliases(q) = Joined(Joined(Own(q), j1), j2)
<1> DEFINE g == [n \in 0 .. 2 |-> IF n = 0 THEN Own(q)
                                  ELSE IF n = 1 THEN Joined(Own(q), j1)
                                  ELSE Joined(Joined(Own(q), j1), j2)]
<1>1. Len(q.joins) = 2 /\ q.joins[1] = j1 /\ q.joins[2] = j2
  OBVIOUS
<1>2. g = [n \in 0 .. Len(q.joins) |->
               IF n = 0 THEN Own(q) ELSE Joined(g[n - 1], q.joins[n])]
  BY <1>1
<1> HIDE DEF g
<1>3. PICK f : /\ Aliases(q) = f[Len(q.joins)]
               /\ f = [n \in 0 .. Len(q.joins) |->
                          IF n = 0 THEN Own(q) ELSE Joined(f[n - 1], q.joins[n])]
  BY <1>2, AliasesByStep
<1> QED BY <1>1, <1>3

LEMMA AliasesFiveTimes ==
    ASSUME NEW q, NEW j1, NEW j2, NEW j3, NEW j4, NEW j5, q.joins = <<j1, j2, j3, j4, j5>>,
           NEW a1, NEW a2, NEW a3, NEW a4, NEW a5,
           a1 = Joined(Own(q), j1), a2 = Joined(a1, j2), a3 = Joined(a2, j3),
           a4 = Joined(a3, j4), a5 = Joined(a4, j5)
    PROVE  Aliases(q) = a5
<1> DEFINE g == [n \in 0 .. 5 |-> IF n = 0 THEN Own(q) ELSE IF n = 1 THEN a1
                                  ELSE IF n = 2 THEN a2 ELSE IF n = 3 THEN a3
                                  ELSE IF n = 4 THEN a4 ELSE a5]
<1>1. /\ Len(q.joins) = 5 /\ q.joins[1] = j1 /\ q.joins[2] = j2 /\ q.joins[3] = j3
      /\ q.joins[4] = j4 /\ q.joins[5] = j5
  OBVIOUS
<1>2. g = [n \in 0 .. Len(q.joins) |->
               IF n = 0 THEN Own(q) ELSE Joined(g[n - 1], q.joins[n])]
  BY <1>1
<1> HIDE DEF g
<1>3. PICK f : /\ Aliases(q) = f[Len(q.joins)]
               /\ f = [n \in 0 .. Len(q.joins) |->
                          IF n = 0 THEN Own(q) ELSE Joined(f[n - 1], q.joins[n])]
  BY <1>2, AliasesByStep
<1>4. f[0] = Own(q) /\ f[1] = a1 /\ f[2] = a2
  BY <1>1, <1>3
<1>5. f[3] = a3 /\ f[4] = a4 /\ f[5] = a5
  BY <1>1, <1>3, <1>4
<1> QED BY <1>1, <1>3, <1>5

-----------------------------------------------------------------------------
\* The alias stands for a row of the entity.
StandsFor(known, alias, entity) == alias \in DOMAIN known /\ known[alias] = entity

LEMMA OwnStandsFor ==
    ASSUME NEW q
    PROVE  /\ q.as \notin DOMAIN q.exists => StandsFor(Own(q), q.as, q.entity)
           /\ \A a \in DOMAIN q.exists : StandsFor(Own(q), a, q.exists[a])
           /\ DOMAIN Own(q) = DOMAIN q.exists \cup {q.as}
  BY DEF Own, StandsFor, ++

\* A join of a relation of a known entity under a new alias.
LEMMA JoinedStandsFor ==
    ASSUME NEW known, NEW join, NEW entity, StandsFor(known, join.of, entity),
           HasRelation(entity, join.relation), join.as \notin DOMAIN known
    PROVE  /\ StandsFor(Joined(known, join), join.as, Related(entity, join.relation))
           /\ \A a, e : StandsFor(known, a, e) => StandsFor(Joined(known, join), a, e)
           /\ DOMAIN Joined(known, join) = DOMAIN known \cup {join.as}
  BY DEF StandsFor, Joined, ++

\* A column of an alias that exists.
Known(q, column) ==
    /\ column[1] \in DOMAIN Aliases(q)
    /\ HasColumn(Aliases(q)[column[1]], column[2])

LEMMA KnownColumn ==
    ASSUME NEW q, NEW alias, NEW entity, NEW column,
           StandsFor(Aliases(q), alias, entity), HasColumn(entity, column)
    PROVE  Known(q, <<alias, column>>)
  BY DEF StandsFor, Known

\* A query that names what exists, for every request without the avoided parameters.
Sound(q, avoided) ==
    /\ \A i \in DOMAIN q.joins : q.joins[i].as \in DOMAIN Aliases(q)
    /\ \A column \in q.equals \cup q.uses : Known(q, column)
    /\ \A p \in DOMAIN q.filters \ avoided : \A column \in q.filters[p] : Known(q, column)
    /\ q.sortable = << >>
    /\ \/ q.dates = << >>
       \/ ComparedDates \cup ExtractedDates \cup TimesOfDay \subseteq avoided
       \/ /\ TimesOfDay \subseteq avoided /\ Known(q, q.dates)
          /\ \/ ExtractedDates \subseteq avoided
             \/ IsTimestamp(Aliases(q)[q.dates[1]], q.dates[2])

LEMMA SoundIsExecutable ==
    ASSUME NEW q, NEW avoided, Sound(q, avoided),
           NEW P, Heeded(P) \cap avoided = {}
    PROVE  Executable(q, P)
<1> DEFINE given == Heeded(P)
           conditions == DateConditions(q, given)
<1>1. /\ conditions \subseteq given \cap (ComparedDates \cup ExtractedDates \cup TimesOfDay)
      /\ q.dates = << >> => conditions = {}
  BY DEF DateConditions
<1> HIDE DEF conditions
<1>2. ASSUME NEW column \in Named(q, given)
      PROVE  Known(q, column)
  <2>1. CASE column \in q.equals \cup q.uses
    BY <2>1 DEF Sound
  <2>2. CASE \E p \in given \cap DOMAIN q.filters : column \in q.filters[p]
    BY <2>2 DEF Sound
  <2>3. CASE column = q.dates /\ conditions # {}
    BY <1>1, <2>3 DEF Sound
  <2> DEFINE filtered == UNION {q.filters[p] : p \in given \cap DOMAIN q.filters}
             dated == {q.dates : p \in conditions}
  <2>4. /\ column \in dated => column = q.dates /\ conditions # {}
        /\ column \in filtered => \E p \in given \cap DOMAIN q.filters : column \in q.filters[p]
    OBVIOUS
  <2>5. Named(q, given) = q.equals \cup q.uses \cup filtered \cup dated
    BY DEF Named, conditions
  <2> HIDE DEF filtered, dated
  <2> QED BY <1>2, <2>1, <2>2, <2>3, <2>4, <2>5
<1>3. conditions \cap TimesOfDay = {}
  BY <1>1 DEF Sound
<1>4. conditions \cap ExtractedDates # {} => IsTimestamp(Aliases(q)[q.dates[1]], q.dates[2])
  BY <1>1 DEF Sound
<1> QED BY <1>2, <1>3, <1>4 DEF Executable, Sound, Known, conditions

-----------------------------------------------------------------------------
\* The relations and columns that are joined and named.
LEMMA TransactionSchema ==
    /\ HasRelation("Transaction", "block") /\ Related("Transaction", "block") = "Block"
    /\ HasRelation("Transaction", "messages_entities")
    /\ Related("Transaction", "messages_entities") = "Message"
    /\ \A c \in {"hash", "height", "success", "memo", "signer_infos", "fee", "gas_wanted",
                 "gas_used", "partition_id"} : HasColumn("Transaction", c)
<1>1. Entities["Transaction"] = Transaction
  BY DEF Entities
<1> QED BY <1>1 DEF Transaction, Entity, One, Many, HasRelation, Related, HasColumn

LEMMA BlockSchema ==
    /\ HasRelation("Block", "proposer") /\ Related("Block", "proposer") = "Validator"
    /\ \A c \in {"height", "hash", "num_txs", "proposer_address", "timestamp"} :
          HasColumn("Block", c)
<1>1. Entities["Block"] = Block
  BY DEF Entities
<1> QED BY <1>1 DEF Block, Entity, One, Many, HasRelation, Related, HasColumn

LEMMA MessageSchema ==
    /\ HasRelation("Message", "transaction")
    /\ Related("Message", "transaction") = "Transaction"
    /\ \A c \in {"transaction_hash", "index", "type", "value",
                 "involved_accounts_addresses", "partition_id", "height"} :
          HasColumn("Message", c)
    /\ HasColumn("MessageType", "type") /\ HasColumn("MessageType", "module")
<1>1. Entities["Message"] = Message /\ Entities["MessageType"] = MessageType
  BY DEF Entities
<1>2. HasColumn("MessageType", "type") /\ HasColumn("MessageType", "module")
  BY <1>1 DEF MessageType, Entity, HasColumn
<1> QED BY <1>1, <1>2 DEF Message, Entity, One, HasRelation, Related, HasColumn

LEMMA AccountSchema ==
    /\ HasRelation("Account", "vestingAccounts")
    /\ Related("Account", "vestingAccounts") = "VestingAccount"
    /\ HasRelation("VestingAccount", "vestingPeriods")
    /\ HasColumn("Account", "address") /\ HasColumn("VestingAccount", "address")
<1>1. Entities["Account"] = Account /\ Entities["VestingAccount"] = VestingAccount
  BY DEF Entities
<1>2. HasRelation("VestingAccount", "vestingPeriods") /\ HasColumn("VestingAccount", "address")
  BY <1>1 DEF VestingAccount, Entity, HasRelation, HasColumn
<1> QED BY <1>1, <1>2 DEF Account, Entity, Many, HasRelation, Related, HasColumn

LEMMA ValidatorSchema ==
    /\ \A r \in {"info", "description", "commission", "votingPower", "status"} :
          HasRelation("Validator", r)
    /\ Related("Validator", "info") = "ValidatorInfo"
    /\ Related("Validator", "description") = "ValidatorDescription"
    /\ Related("Validator", "commission") = "ValidatorCommission"
    /\ Related("Validator", "votingPower") = "ValidatorVotingPower"
    /\ Related("Validator", "status") = "ValidatorStatus"
    /\ HasColumn("Validator", "consensus_address")
<1>1. Entities["Validator"] = Validator
  BY DEF Entities
<1> QED BY <1>1 DEF Validator, Entity, One, Many, HasRelation, Related, HasColumn

LEMMA ValidatorTablesSchema ==
    /\ HasColumn("ValidatorInfo", "consensus_address")
    /\ HasColumn("ValidatorInfo", "operator_address")
    /\ \A c \in {"validator_address", "moniker"} : HasColumn("ValidatorDescription", c)
    /\ HasColumn("ValidatorCommission", "validator_address")
    /\ \A c \in {"validator_address", "voting_power"} : HasColumn("ValidatorVotingPower", c)
    /\ \A c \in {"validator_address", "status", "jailed"} : HasColumn("ValidatorStatus", c)
    /\ \A c \in {"validator_address", "height"} : HasColumn("ValidatorSigningInfo", c)
<1> USE DEF Entity, OfValidator, HasColumn
<1>1. Entities["ValidatorInfo"] = ValidatorInfo
      /\ Entities["ValidatorSigningInfo"] = ValidatorSigningInfo
  BY DEF Entities
<1>2. /\ Entities["ValidatorDescription"] = ValidatorDescription
      /\ Entities["ValidatorCommission"] = ValidatorCommission
      /\ Entities["ValidatorVotingPower"] = ValidatorVotingPower
      /\ Entities["ValidatorStatus"] = ValidatorStatus
  BY DEF Entities
<1>3. /\ HasColumn("ValidatorInfo", "consensus_address")
      /\ HasColumn("ValidatorInfo", "operator_address")
      /\ \A c \in {"validator_address", "height"} : HasColumn("ValidatorSigningInfo", c)
  BY <1>1 DEF ValidatorInfo, ValidatorSigningInfo
<1>4. /\ \A c \in {"validator_address", "moniker"} : HasColumn("ValidatorDescription", c)
      /\ HasColumn("ValidatorCommission", "validator_address")
  BY <1>2 DEF ValidatorDescription, ValidatorCommission
<1>5. /\ \A c \in {"validator_address", "voting_power"} : HasColumn("ValidatorVotingPower", c)
      /\ \A c \in {"validator_address", "status", "jailed"} : HasColumn("ValidatorStatus", c)
  BY <1>2 DEF ValidatorVotingPower, ValidatorStatus
<1> QED BY <1>3, <1>4, <1>5

LEMMA TokenPriceHistorySchema ==
    /\ HasRelation("TokenPriceHistory", "tokenUnit")
    /\ HasColumn("TokenPriceHistory", "price") /\ HasColumn("TokenPriceHistory", "timestamp")
<1>1. Entities["TokenPriceHistory"] = TokenPriceHistory
  BY DEF Entities
<1> QED BY <1>1 DEF TokenPriceHistory, Entity, HasRelation, HasColumn

LEMMA TokenUnitSchema ==
    /\ HasRelation("TokenUnit", "token")
    /\ \A c \in {"token_name", "denom", "exponent", "price_id"} : HasColumn("TokenUnit", c)
<1>1. Entities["TokenUnit"] = TokenUnit
  BY DEF Entities
<1> QED BY <1>1 DEF TokenUnit, Entity, HasRelation, HasColumn

\* The tables of one row.
LEMMA OneRowSchema ==
    \A e \in {"StakingPool", "StakingParams", "CommunityPool", "DistributionParams",
              "SlashingParams", "MintParams", "Inflation", "GovParams"} :
        HasColumn(e, "one_row_id") /\ HasColumn(e, "height")
<1>1. \A columns : LET e == OneRow(columns) IN
          "one_row_id" \in e.columns /\ "height" \in e.columns
  BY DEF OneRow, Entity
<1>2. /\ Entities["StakingPool"] = StakingPool /\ Entities["StakingParams"] = StakingParams
      /\ Entities["CommunityPool"] = CommunityPool
      /\ Entities["DistributionParams"] = DistributionParams
  BY DEF Entities
<1>3. /\ Entities["SlashingParams"] = SlashingParams /\ Entities["MintParams"] = MintParams
      /\ Entities["Inflation"] = Inflation /\ Entities["GovParams"] = GovParams
  BY DEF Entities
<1> QED BY <1>1, <1>2, <1>3
  DEF HasColumn, StakingPool, StakingParams, CommunityPool, DistributionParams,
      SlashingParams, MintParams, Inflation, GovParams

-----------------------------------------------------------------------------
\* A method whose queries name what exists, whatever the request.
SoundMethod(m) == \A i \in DOMAIN m.queries : Sound(m.queries[i], {})

LEMMA SoundNone ==
    ASSUME NEW m, m.queries = << >>
    PROVE  SoundMethod(m)
  BY DEF SoundMethod

LEMMA SoundOne ==
    ASSUME NEW m, NEW q, m.queries = <<q>>, Sound(q, {})
    PROVE  SoundMethod(m)
  BY DEF SoundMethod

LEMMA SoundTwo ==
    ASSUME NEW m, NEW q, NEW r, m.queries = <<q, r>>, Sound(q, {}), Sound(r, {})
    PROVE  SoundMethod(m)
  BY DEF SoundMethod

LEMMA SoundThree ==
    ASSUME NEW m, NEW q, NEW r, NEW s, m.queries = <<q, r, s>>,
           Sound(q, {}), Sound(r, {}), Sound(s, {})
    PROVE  SoundMethod(m)
  BY DEF SoundMethod

\* A query of one table, without filters or joins.
LEMMA KnownUnjoined ==
    ASSUME NEW q, q.exists = << >>, q.joins = << >>, NEW c, HasColumn(q.entity, c)
    PROVE  Known(q, <<q.as, c>>)
<1>1. DOMAIN q.exists = {}
  OBVIOUS
<1>2. Aliases(q) = Own(q)
  BY AliasesUnjoined
<1>3. StandsFor(Own(q), q.as, q.entity)
  BY <1>1, OwnStandsFor
<1> QED BY <1>2, <1>3, KnownColumn

LEMMA SoundUnjoined ==
    ASSUME NEW q, q.exists = << >>, q.joins = << >>, q.filters = << >>, q.sortable = << >>,
           q.dates = << >>,
           \A column \in q.equals \cup q.uses :
              \E c : column = <<q.as, c>> /\ HasColumn(q.entity, c)
    PROVE  Sound(q, {})
  BY KnownUnjoined DEF Sound

LEMMA SoundFindOne ==
    ASSUME NEW e, NEW column, HasColumn(e, column)
    PROVE  Sound(FindOne(e, column), {})
<1>1. /\ FindOne(e, column).exists = << >> /\ FindOne(e, column).joins = << >>
      /\ FindOne(e, column).filters = << >> /\ FindOne(e, column).sortable = << >>
      /\ FindOne(e, column).dates = << >> /\ FindOne(e, column).uses = {}
      /\ FindOne(e, column).equals = {<<"one", column>>}
      /\ FindOne(e, column).as = "one" /\ FindOne(e, column).entity = e
  BY DEF FindOne, From, ++
<1> QED BY <1>1, SoundUnjoined

\* The columns that queries of transactions name.
TransactionColumns ==
    {<<"transaction", c>> : c \in {"hash", "height", "success", "memo", "signer_infos", "fee",
                                   "gas_wanted", "gas_used", "partition_id"}}
    \cup {<<"block", "timestamp">>}
    \cup {<<"m", c>> : c \in {"transaction_hash", "type", "value",
                              "involved_accounts_addresses", "partition_id"}}
TypeColumns == {<<"mt", "type">>, <<"mt", "module">>}

\* A query of transactions with their block, and what may be asked of their messages.
TransactionQuery(q) ==
    /\ q.entity = "Transaction" /\ q.as = "transaction"
    /\ q.joins \in {WithBlock, WithBlockAndMessages}
    /\ "m" \in DOMAIN q.exists /\ q.exists["m"] = "Message"
    /\ \/ DOMAIN q.exists = {"m"}
       \/ DOMAIN q.exists = {"m", "mt"} /\ q.exists["mt"] = "MessageType"

LEMMA AppendToOne == ASSUME NEW a, NEW b PROVE Append(<<a>>, b) = <<a, b>>
<1>1. <<a>> \in Seq({a, b}) /\ <<a, b>> \in Seq({a, b})
  OBVIOUS
<1>2. Append(<<a>>, b) \in Seq({a, b})
  BY <1>1
<1>3. Len(Append(<<a>>, b)) = 2 /\ Len(<<a, b>>) = 2
  BY <1>1
<1>4. \A i \in 1 .. 2 : Append(<<a>>, b)[i] = <<a, b>>[i]
  BY <1>1
<1> QED BY <1>1, <1>2, <1>3, <1>4, SeqEqual

LEMMA TransactionAliases ==
    ASSUME NEW q, TransactionQuery(q)
    PROVE  /\ StandsFor(Aliases(q), "transaction", "Transaction")
           /\ StandsFor(Aliases(q), "block", "Block") /\ StandsFor(Aliases(q), "m", "Message")
           /\ "mt" \in DOMAIN q.exists => StandsFor(Aliases(q), "mt", "MessageType")
           /\ q.joins = WithBlockAndMessages => StandsFor(Aliases(q), "message", "Message")
           /\ \A i \in DOMAIN q.joins : q.joins[i].as \in DOMAIN Aliases(q)
<1> DEFINE toBlock == Join("transaction", "block", "block")
           toMessages == Join("transaction", "messages_entities", "message")
           once == Joined(Own(q), toBlock)
           twice == Joined(once, toMessages)
<1>1. /\ toBlock.of = "transaction" /\ toBlock.relation = "block" /\ toBlock.as = "block"
      /\ toMessages.of = "transaction" /\ toMessages.relation = "messages_entities"
      /\ toMessages.as = "message"
  BY DEF Join
<1>2. /\ StandsFor(Own(q), "transaction", "Transaction") /\ StandsFor(Own(q), "m", "Message")
      /\ "mt" \in DOMAIN q.exists => StandsFor(Own(q), "mt", "MessageType")
      /\ DOMAIN Own(q) \subseteq {"transaction", "m", "mt"}
  BY OwnStandsFor DEF TransactionQuery
<1>3. WithBlock = <<toBlock>> /\ WithBlockAndMessages = <<toBlock, toMessages>>
  <2> HIDE DEF toBlock, toMessages
  <2>1. Append(<<toBlock>>, toMessages) = <<toBlock, toMessages>>
    BY AppendToOne
  <2>2. WithBlock = <<toBlock>> /\ WithBlockAndMessages = Append(<<toBlock>>, toMessages)
    BY DEF WithBlock, WithBlockAndMessages, toBlock, toMessages
  <2> QED BY <2>1, <2>2
<1> HIDE DEF toBlock, toMessages
<1>4. /\ StandsFor(once, "block", "Block")
      /\ \A a, e : StandsFor(Own(q), a, e) => StandsFor(once, a, e)
      /\ DOMAIN once = DOMAIN Own(q) \cup {"block"}
  <2>1. "block" \notin DOMAIN Own(q)
    BY <1>2
  <2>2. StandsFor(Own(q), toBlock.of, "Transaction")
        /\ HasRelation("Transaction", toBlock.relation) /\ toBlock.as \notin DOMAIN Own(q)
    BY <1>1, <1>2, <2>1, TransactionSchema
  <2>3. /\ StandsFor(once, toBlock.as, Related("Transaction", toBlock.relation))
        /\ \A a, e : StandsFor(Own(q), a, e) => StandsFor(once, a, e)
        /\ DOMAIN once = DOMAIN Own(q) \cup {toBlock.as}
    BY <2>2, JoinedStandsFor
  <2> QED BY <1>1, <2>3, TransactionSchema
<1> HIDE DEF once
<1>5. /\ \A a, e : StandsFor(once, a, e) => StandsFor(twice, a, e)
      /\ StandsFor(twice, "message", "Message")
  <2>1. StandsFor(once, toMessages.of, "Transaction")
        /\ HasRelation("Transaction", toMessages.relation) /\ toMessages.as \notin DOMAIN once
    BY <1>1, <1>2, <1>4, TransactionSchema
  <2>2. /\ \A a, e : StandsFor(once, a, e) => StandsFor(twice, a, e)
        /\ StandsFor(twice, toMessages.as, Related("Transaction", toMessages.relation))
    BY <2>1, JoinedStandsFor
  <2> QED BY <1>1, <2>2, TransactionSchema
<1> HIDE DEF twice
<1>6. CASE q.joins = WithBlock
  <2>1. Aliases(q) = once
    BY <1>3, <1>6, AliasesOnce DEF once
  <2>2. q.joins[1].as = "block" /\ DOMAIN q.joins = {1} /\ q.joins # WithBlockAndMessages
    BY <1>1, <1>3, <1>6
  <2> QED BY <1>2, <1>4, <2>1, <2>2
<1>7. CASE q.joins = WithBlockAndMessages
  <2>1. Aliases(q) = twice
    BY <1>3, <1>7, AliasesTwice DEF once, twice
  <2>2. "block" \in DOMAIN twice /\ "message" \in DOMAIN twice
    BY <1>4, <1>5 DEF StandsFor
  <2>3. q.joins[1].as = "block" /\ q.joins[2].as = "message" /\ DOMAIN q.joins = {1, 2}
    BY <1>1, <1>3, <1>7
  <2> QED BY <1>2, <1>4, <1>5, <2>1, <2>2, <2>3
<1> QED BY <1>6, <1>7 DEF TransactionQuery

LEMMA KnownTransactionColumns ==
    ASSUME NEW q, TransactionQuery(q)
    PROVE  \A column \in TransactionColumns : Known(q, column)
  BY TransactionAliases, KnownColumn, TransactionSchema, BlockSchema, MessageSchema
  DEF TransactionColumns

LEMMA SoundTransactionQuery ==
    ASSUME NEW q, TransactionQuery(q), q.sortable = << >>, q.dates = << >>,
           NEW S, S \in {TransactionColumns, TransactionColumns \cup TypeColumns},
           S # TransactionColumns => "mt" \in DOMAIN q.exists,
           q.equals \cup q.uses \subseteq S,
           \A p \in DOMAIN q.filters : q.filters[p] \subseteq S
    PROVE  Sound(q, {})
<1>1. \A column \in TransactionColumns : Known(q, column)
  BY KnownTransactionColumns
<1>2. "mt" \in DOMAIN q.exists => \A column \in TypeColumns : Known(q, column)
  BY TransactionAliases, KnownColumn, MessageSchema DEF TypeColumns
<1>3. \A column \in S : Known(q, column)
  BY <1>1, <1>2
<1> QED BY <1>3, TransactionAliases DEF Sound

-----------------------------------------------------------------------------
LEMMA SoundMessagesOfTransaction ==
    /\ Sound(MessagesOfTransaction, {}) /\ Sound(MessagesWhenMissing, {})
    /\ Sound([uses |-> {}] ++ MessagesOfTransaction, {})
<1> DEFINE OfMessages(q) ==
        /\ q.exists = << >> /\ q.joins = << >> /\ q.filters = << >> /\ q.sortable = << >>
        /\ q.dates = << >> /\ q.equals = {<<"message", "transaction_hash">>}
        /\ q.uses \subseteq {<<"message", "index">>}
        /\ q.as = "message" /\ q.entity = "Message"
<1>1. \A q : OfMessages(q) => Sound(q, {})
  BY SoundUnjoined, MessageSchema
<1>2. OfMessages(MessagesOfTransaction)
  BY DEF MessagesOfTransaction, From, ++
<1>3. OfMessages(MessagesWhenMissing)
  BY DEF MessagesWhenMissing, MessagesOfTransaction, From, ++
<1>4. OfMessages([uses |-> {}] ++ MessagesOfTransaction)
  BY DEF MessagesOfTransaction, From, ++
<1> QED BY <1>1, <1>2, <1>3, <1>4

\* The parts that the queries of transactions are put together from.
LEMMA SoundParts ==
    /\ InvolvedInTransaction \subseteq TransactionColumns
    /\ \A c \in {"type", "involved_accounts_addresses", "value"} :
          WithMessage(c) \subseteq TransactionColumns
          /\ WithMessageOfPartition(c) \subseteq TransactionColumns
    /\ getSortField \subseteq TransactionColumns
    /\ \A p \in DOMAIN GasColumns : GasColumns[p] \subseteq TransactionColumns
    /\ \A p \in DOMAIN TransactionOrder : TransactionOrder[p] \subseteq TransactionColumns
<1>1. /\ OfTransaction \subseteq TransactionColumns /\ OfPartition \subseteq TransactionColumns
      /\ getSortField \subseteq TransactionColumns
  BY DEF OfTransaction, OfPartition, getSortField, TransactionColumns
<1>2. \A c \in {"type", "involved_accounts_addresses", "value"} :
          <<"m", c>> \in TransactionColumns
  BY DEF TransactionColumns
<1>3. \A p \in DOMAIN GasColumns : GasColumns[p] \subseteq TransactionColumns
  <2> DEFINE gas == [success |-> "success", min_height |-> "height", max_height |-> "height",
                     min_gas_used |-> "gas_used", max_gas_used |-> "gas_used",
                     min_gas_wanted |-> "gas_wanted", max_gas_wanted |-> "gas_wanted",
                     memo |-> "memo"]
             times == [date_from |-> "timestamp", date_to |-> "timestamp"]
  <2>1. \A p \in DOMAIN gas : <<"transaction", gas[p]>> \in TransactionColumns
    BY DEF TransactionColumns
  <2>2. \A p \in DOMAIN times : <<"block", times[p]>> \in TransactionColumns
    BY DEF TransactionColumns
  <2>3. GasColumns = Columns("transaction", gas) ++ Columns("block", times)
    BY DEF GasColumns
  <2> HIDE DEF gas, times
  <2> QED BY <2>1, <2>2, <2>3 DEF Columns, ++
<1> QED BY <1>1, <1>2, <1>3
  DEF InvolvedInTransaction, WithMessage, WithMessageOfPartition, TransactionOrder

LEMMA SoundGetTransactions == SoundMethod(getTransactions)
<1> DEFINE q == [filters |-> [address |-> InvolvedInTransaction,
                              message_type |-> WithMessageOfPartition("type"),
                              success |-> {<<"transaction", "success">>}],
                 paging |-> ByCursor] ++ FromTransaction
<1>1. TransactionQuery(q) /\ q.sortable = << >> /\ q.dates = << >>
  BY DEF FromTransaction, From, ++, TransactionQuery
<1>2. q.equals \cup q.uses \subseteq TransactionColumns
  BY DEF FromTransaction, From, ++, TransactionColumns
<1>3. \A p \in DOMAIN q.filters : q.filters[p] \subseteq TransactionColumns
  BY SoundParts DEF ++, TransactionColumns
<1>4. getTransactions.queries = <<q, preloadMessagesByHash>>
  BY DEF getTransactions, Answering
<1> HIDE DEF q
<1>5. Sound(q, {})
  BY <1>1, <1>2, <1>3, SoundTransactionQuery
<1> QED BY <1>4, <1>5, SoundMessagesOfTransaction, SoundTwo DEF preloadMessagesByHash

LEMMA SoundGetTransactionsAdvanced == SoundMethod(getTransactionsAdvanced)
<1> DEFINE filters == GasColumns ++ TransactionOrder ++
                 [signer |-> {<<"transaction", "signer_infos">>},
                  message_types |-> WithMessage("type"),
                  addresses |-> WithMessage("involved_accounts_addresses"),
                  validator |-> WithMessage("involved_accounts_addresses")]
           q == [paging |-> ByCursorOrOffset] ++ buildTransactionQuery
<1>1. \A p \in DOMAIN filters : filters[p] \subseteq TransactionColumns
  BY SoundParts DEF ++, TransactionColumns
<1>2. q.filters = filters
  BY DEF buildTransactionQuery, ++
<1> HIDE DEF filters
<1>3. TransactionQuery(q) /\ q.sortable = << >> /\ q.dates = << >>
  BY DEF buildTransactionQuery, FromTransaction, From, ++, TransactionQuery
<1>4. q.equals \cup q.uses \subseteq TransactionColumns
  BY DEF buildTransactionQuery, FromTransaction, From, ++, TransactionColumns
<1>5. getTransactionsAdvanced.queries = <<q, preloadMessagesByHash>>
  BY DEF getTransactionsAdvanced, Answering
<1> HIDE DEF q
<1>6. Sound(q, {})
  BY <1>1, <1>2, <1>3, <1>4, SoundTransactionQuery
<1> QED BY <1>5, <1>6, SoundMessagesOfTransaction, SoundTwo DEF preloadMessagesByHash

LEMMA SoundGetAddressTransactionsAdvanced == SoundMethod(getAddressTransactionsAdvanced)
<1> DEFINE S == TransactionColumns \cup TypeColumns
           special == [message_types |-> WithMessageOfPartition("type"),
                  modules |-> WithMessageOfPartition("type")
                              \cup {<<"mt", "type">>, <<"mt", "module">>},
                  direction |-> SentOrReceived, sender_only |-> SentOrReceived,
                  receiver_only |-> SentOrReceived,
                  search |-> SentOrReceived \cup
                             {<<"transaction", "hash">>, <<"transaction", "memo">>}]
           filters == GasColumns ++ TransactionOrder ++ special
           q == [paging |-> ByCursorOrOffset] ++ buildAddressTransactionQuery
<1>1. \A p \in DOMAIN special : special[p] \subseteq S
  <2>1. WithMessageOfPartition("type") \subseteq S /\ SentOrReceived \subseteq S
    BY SoundParts DEF SentOrReceived
  <2>2. {<<"mt", "type">>, <<"mt", "module">>, <<"transaction", "hash">>,
         <<"transaction", "memo">>} \subseteq S
    BY DEF TransactionColumns, TypeColumns
  <2> QED BY <2>1, <2>2
<1>2. q.filters = filters
  BY DEF buildAddressTransactionQuery, ++
<1> HIDE DEF special
<1>3. \A p \in DOMAIN filters : filters[p] \subseteq S
  BY <1>1, SoundParts DEF ++
<1> HIDE DEF filters
<1>4. TransactionQuery(q) /\ q.sortable = << >> /\ q.dates = << >> /\ "mt" \in DOMAIN q.exists
  BY DEF buildAddressTransactionQuery, FromTransaction, From, ++, TransactionQuery
<1>5. q.equals \cup q.uses \subseteq S
  BY SoundParts DEF buildAddressTransactionQuery, FromTransaction, From, ++
<1>6. getAddressTransactionsAdvanced.queries = <<q, MessagesWhenMissing>>
  BY DEF getAddressTransactionsAdvanced, Answering
<1> HIDE DEF q
<1>7. Sound(q, {})
  BY <1>2, <1>3, <1>4, <1>5, SoundTransactionQuery
<1> QED BY <1>6, <1>7, SoundMessagesOfTransaction, SoundTwo

\* The lists of transactions that compare what is in the path, or nothing.
LEMMA SoundSearchTransactions == SoundMethod(searchTransactions)
<1> DEFINE q == [joins |-> WithBlockAndMessages,
                 filters |-> [q |-> {<<"transaction", "hash">>, <<"transaction", "memo">>,
                                     <<"message", "value">>}],
                 paging |-> ByOffset] ++ FromTransaction
<1>1. TransactionQuery(q) /\ q.sortable = << >> /\ q.dates = << >> /\ q.joins = WithBlockAndMessages
  BY DEF FromTransaction, From, ++, TransactionQuery
<1>2. q.equals \cup q.uses \subseteq TransactionColumns
  BY DEF FromTransaction, From, ++, TransactionColumns
<1>3. \A p \in DOMAIN q.filters : q.filters[p] \subseteq TransactionColumns \cup {<<"message", "value">>}
  BY DEF ++, TransactionColumns
<1>4. searchTransactions.queries = <<q, preloadMessagesByHash>>
  BY DEF searchTransactions, Answering
<1> HIDE DEF q
<1>5. \A column \in TransactionColumns : Known(q, column)
  BY <1>1, KnownTransactionColumns
<1>6. Known(q, <<"message", "value">>)
  BY <1>1, TransactionAliases, KnownColumn, MessageSchema
<1>7. Sound(q, {})
  BY <1>1, <1>2, <1>3, <1>5, <1>6, TransactionAliases DEF Sound
<1> QED BY <1>4, <1>7, SoundMessagesOfTransaction, SoundTwo DEF preloadMessagesByHash

LEMMA SoundGetTransactionsByMessageType == SoundMethod(getTransactionsByMessageType)
<1> DEFINE q == [joins |-> WithBlockAndMessages, uses |-> WithMessage("type"),
                 paging |-> ByOffset] ++ FromTransaction
<1>1. TransactionQuery(q) /\ q.sortable = << >> /\ q.dates = << >> /\ q.filters = << >>
  BY DEF FromTransaction, From, ++, TransactionQuery
<1>2. q.equals \cup q.uses \subseteq TransactionColumns
  BY SoundParts DEF FromTransaction, From, ++
<1>3. getTransactionsByMessageType.queries = <<q, preloadMessagesByHash>>
  BY DEF getTransactionsByMessageType, Answering
<1> HIDE DEF q
<1>4. Sound(q, {})
  BY <1>1, <1>2, SoundTransactionQuery
<1> QED BY <1>3, <1>4, SoundMessagesOfTransaction, SoundTwo DEF preloadMessagesByHash

LEMMA SoundGetTransactionsByValidator == SoundMethod(getTransactionsByValidator)
<1> DEFINE q == [joins |-> WithBlockAndMessages,
                 uses |-> WithMessage("involved_accounts_addresses"),
                 paging |-> ByOffset] ++ FromTransaction
<1>1. TransactionQuery(q) /\ q.sortable = << >> /\ q.dates = << >> /\ q.filters = << >>
  BY DEF FromTransaction, From, ++, TransactionQuery
<1>2. q.equals \cup q.uses \subseteq TransactionColumns
  BY SoundParts DEF FromTransaction, From, ++
<1>3. getTransactionsByValidator.queries = <<q, preloadMessagesByHash>>
  BY DEF getTransactionsByValidator, Answering
<1> HIDE DEF q
<1>4. Sound(q, {})
  BY <1>1, <1>2, SoundTransactionQuery
<1> QED BY <1>3, <1>4, SoundMessagesOfTransaction, SoundTwo DEF preloadMessagesByHash

LEMMA SoundGetTransactionsByBlockRange == SoundMethod(getTransactionsByBlockRange)
<1> DEFINE q == [paging |-> ByOffset] ++ FromTransaction
<1>1. TransactionQuery(q) /\ q.sortable = << >> /\ q.dates = << >> /\ q.filters = << >>
  BY DEF FromTransaction, From, ++, TransactionQuery
<1>2. q.equals \cup q.uses \subseteq TransactionColumns
  BY DEF FromTransaction, From, ++, TransactionColumns
<1>3. getTransactionsByBlockRange.queries = <<q, preloadMessagesByHash>>
  BY DEF getTransactionsByBlockRange, Answering
<1> HIDE DEF q
<1>4. Sound(q, {})
  BY <1>1, <1>2, SoundTransactionQuery
<1> QED BY <1>3, <1>4, SoundMessagesOfTransaction, SoundTwo DEF preloadMessagesByHash

LEMMA SoundGetAddressTransactions == SoundMethod(getAddressTransactions)
<1> DEFINE q == [uses |-> InvolvedInTransaction, paging |-> ByCursor] ++ FromTransaction
<1>1. TransactionQuery(q) /\ q.sortable = << >> /\ q.dates = << >> /\ q.filters = << >>
  BY DEF FromTransaction, From, ++, TransactionQuery
<1>2. q.equals \cup q.uses \subseteq TransactionColumns
  BY SoundParts DEF FromTransaction, From, ++
<1>3. getAddressTransactions.queries = <<q>>
  BY DEF getAddressTransactions, Answering
<1> HIDE DEF q
<1>4. Sound(q, {})
  BY <1>1, <1>2, SoundTransactionQuery
<1> QED BY <1>3, <1>4, SoundOne

LEMMA SoundGetRecentTransactions == Sound(getRecentTransactions, {})
<1> DEFINE q == getRecentTransactions
<1>1. TransactionQuery(q) /\ q.sortable = << >> /\ q.dates = << >> /\ q.filters = << >>
  BY DEF getRecentTransactions, FromTransaction, From, ++, TransactionQuery
<1>2. q.equals \cup q.uses \subseteq TransactionColumns
  <2>1. <<"transaction", "height">> \in TransactionColumns
    BY DEF TransactionColumns
  <2> QED BY <2>1, SoundParts DEF getRecentTransactions, FromTransaction, From, ++
<1> QED BY <1>1, <1>2, SoundTransactionQuery

-----------------------------------------------------------------------------
\* A query that joins one relation of its entity and compares columns of its own.
LEMMA SoundJoined ==
    ASSUME NEW q, NEW j, q.joins = <<j>>, q.exists = << >>, q.filters = << >>,
           q.sortable = << >>, q.dates = << >>,
           j.of = q.as, j.as # q.as, HasRelation(q.entity, j.relation),
           \A column \in q.equals \cup q.uses :
              \E c : column = <<q.as, c>> /\ HasColumn(q.entity, c)
    PROVE  /\ Sound(q, {})
           /\ StandsFor(Aliases(q), j.as, Related(q.entity, j.relation))
<1>1. StandsFor(Own(q), q.as, q.entity) /\ DOMAIN Own(q) = {q.as}
  <2>1. DOMAIN q.exists = {}
    OBVIOUS
  <2> QED BY <2>1, OwnStandsFor
<1>2. /\ StandsFor(Joined(Own(q), j), j.as, Related(q.entity, j.relation))
      /\ StandsFor(Joined(Own(q), j), q.as, q.entity)
  BY <1>1, JoinedStandsFor
<1>3. Aliases(q) = Joined(Own(q), j)
  BY AliasesOnce
<1>4. \A i \in DOMAIN q.joins : q.joins[i].as \in DOMAIN Aliases(q)
  BY <1>2, <1>3 DEF StandsFor
<1>5. \A column \in q.equals \cup q.uses : Known(q, column)
  BY <1>2, <1>3, KnownColumn
<1> QED BY <1>2, <1>3, <1>4, <1>5 DEF Sound

\* The row of one key with a relation.
LEMMA SoundFindJoined ==
    ASSUME NEW e, NEW column, HasColumn(e, column), NEW relation, HasRelation(e, relation),
           NEW alias, alias # "one",
           NEW q, q = [joins |-> <<Join("one", relation, alias)>>] ++ FindOne(e, column)
    PROVE  Sound(q, {})
<1> DEFINE j == Join("one", relation, alias)
<1>1. j.of = "one" /\ j.as = alias /\ j.relation = relation
  BY DEF Join
<1> HIDE DEF j
<1>2. /\ q.joins = <<j>> /\ q.exists = << >> /\ q.filters = << >> /\ q.sortable = << >>
      /\ q.dates = << >> /\ q.uses = {} /\ q.equals = {<<"one", column>>}
      /\ q.as = "one" /\ q.entity = e
  BY DEF FindOne, From, ++, j
<1>3. Sound(q, {})
  BY <1>1, <1>2, SoundJoined
<1> QED BY <1>3

LEMMA SoundTransactionByHash == Sound(TransactionByHash, {})
  BY SoundFindJoined, TransactionSchema DEF TransactionByHash

LEMMA SoundOfOneTransaction ==
    /\ SoundMethod(getTransactionByHash) /\ SoundMethod(getTransactionMessages)
    /\ SoundMethod(getTransactionStatistics)
<1>1. SoundMethod(getTransactionByHash)
  <2>1. getTransactionByHash.queries = <<TransactionByHash, MessagesWhenMissing>>
    BY DEF getTransactionByHash, Answering
  <2> QED BY <2>1, SoundTransactionByHash, SoundMessagesOfTransaction, SoundTwo
<1>2. SoundMethod(getTransactionMessages)
  <2>1. getTransactionMessages.queries = <<MessagesOfTransaction>>
    BY DEF getTransactionMessages, Answering
  <2> QED BY <2>1, SoundMessagesOfTransaction, SoundOne
<1>3. SoundMethod(getTransactionStatistics)
  <2>1. getTransactionStatistics.queries =
            <<TransactionByHash, [uses |-> {}] ++ MessagesOfTransaction>>
    BY DEF getTransactionStatistics, Answering
  <2> QED BY <2>1, SoundTransactionByHash, SoundMessagesOfTransaction, SoundTwo
<1> QED BY <1>1, <1>2, <1>3

LEMMA SoundGetTransactionCountsRecent == SoundMethod(getTransactionCountsRecent)
<1> DEFINE q == runCountsQuery
<1>1. /\ q.joins = << >> /\ q.sortable = << >> /\ q.dates = << >> /\ q.equals = {}
      /\ q.uses \subseteq {<<"block", "height">>, <<"block", "timestamp">>}
      /\ \A p \in DOMAIN q.filters : q.filters[p] = {<<"block", "timestamp">>}
      /\ q.as = "transaction" /\ DOMAIN q.exists = {"block"} /\ q.exists["block"] = "Block"
  BY DEF runCountsQuery, From, ++
<1> HIDE DEF q
<1>2. StandsFor(Aliases(q), "block", "Block")
  <2>1. Aliases(q) = Own(q)
    BY <1>1, AliasesUnjoined
  <2>2. \A a \in DOMAIN q.exists : StandsFor(Own(q), a, q.exists[a])
    BY OwnStandsFor
  <2> QED BY <1>1, <2>1, <2>2
<1>3. Known(q, <<"block", "height">>) /\ Known(q, <<"block", "timestamp">>)
  BY <1>2, KnownColumn, BlockSchema
<1>4. Sound(q, {})
  BY <1>1, <1>3 DEF Sound
<1>5. getTransactionCountsRecent.queries = <<q>>
  BY DEF getTransactionCountsRecent, Answering, q
<1> QED BY <1>4, <1>5, SoundOne

-----------------------------------------------------------------------------
LEMMA SoundGetAddressInfo == SoundMethod(getAddressInfo)
<1> DEFINE toVesting == Join("one", "vestingAccounts", "vesting")
           toPeriods == Join("vesting", "vestingPeriods", "periods")
           account == [joins |-> <<toVesting, toPeriods>>] ++ FindOne("Account", "address")
           vesting == [joins |-> <<Join("one", "vestingPeriods", "periods")>>]
                      ++ FindOne("VestingAccount", "address")
<1>1. /\ toVesting.of = "one" /\ toVesting.relation = "vestingAccounts"
      /\ toVesting.as = "vesting"
      /\ toPeriods.of = "vesting" /\ toPeriods.relation = "vestingPeriods"
      /\ toPeriods.as = "periods"
  BY DEF Join
<1>2. getAddressInfo.queries = <<account, vesting, getRecentTransactions>>
  BY DEF getAddressInfo, Answering
<1> HIDE DEF toVesting, toPeriods
<1>3. /\ account.joins = <<toVesting, toPeriods>> /\ account.exists = << >>
      /\ account.filters = << >> /\ account.sortable = << >> /\ account.dates = << >>
      /\ account.uses = {} /\ account.equals = {<<"one", "address">>}
      /\ account.as = "one" /\ account.entity = "Account"
  BY DEF FindOne, From, ++
<1>4. Sound(vesting, {})
  BY SoundFindJoined, AccountSchema
<1> HIDE DEF account, vesting
<1>5. Sound(account, {})
  <2> DEFINE once == Joined(Own(account), toVesting)
             twice == Joined(once, toPeriods)
  <2>1. StandsFor(Own(account), "one", "Account") /\ DOMAIN Own(account) = {"one"}
    <3>1. DOMAIN account.exists = {}
      BY <1>3
    <3> QED BY <1>3, <3>1, OwnStandsFor
  <2> HIDE DEF once, twice
  <2>2. /\ StandsFor(once, "vesting", "VestingAccount") /\ StandsFor(once, "one", "Account")
        /\ DOMAIN once = {"one", "vesting"}
    <3>1. /\ StandsFor(Own(account), toVesting.of, "Account")
          /\ HasRelation("Account", toVesting.relation)
          /\ toVesting.as \notin DOMAIN Own(account)
      BY <1>1, <2>1, AccountSchema
    <3>2. /\ StandsFor(once, toVesting.as, Related("Account", toVesting.relation))
          /\ \A a, e : StandsFor(Own(account), a, e) => StandsFor(once, a, e)
          /\ DOMAIN once = DOMAIN Own(account) \cup {toVesting.as}
      BY <3>1, JoinedStandsFor DEF once
    <3> QED BY <1>1, <2>1, <3>2, AccountSchema
  <2>3. /\ StandsFor(twice, "vesting", "VestingAccount") /\ StandsFor(twice, "one", "Account")
        /\ DOMAIN twice = {"one", "vesting", "periods"}
    <3>1. /\ StandsFor(once, toPeriods.of, "VestingAccount")
          /\ HasRelation("VestingAccount", toPeriods.relation)
          /\ toPeriods.as \notin DOMAIN once
      BY <1>1, <2>2, AccountSchema
    <3> QED BY <1>1, <2>2, <3>1, JoinedStandsFor DEF twice
  <2>4. Aliases(account) = twice
    BY <1>3, AliasesTwice DEF twice, once
  <2>5. \A i \in DOMAIN account.joins : account.joins[i].as \in DOMAIN twice
    BY <1>1, <1>3, <2>3
  <2>6. Known(account, <<"one", "address">>)
    BY <2>3, <2>4, KnownColumn, AccountSchema
  <2> QED BY <1>3, <2>4, <2>5, <2>6 DEF Sound
<1> QED BY <1>2, <1>4, <1>5, SoundGetRecentTransactions, SoundThree

-----------------------------------------------------------------------------
\* Blocks.
LEMMA SoundOfOneBlock == SoundMethod(getBlockByHeight) /\ SoundMethod(getBlockByHash)
<1>1. Sound(getBlockStatistics, {})
  <2> DEFINE q == getBlockStatistics
  <2>1. /\ q.exists = << >> /\ q.joins = << >> /\ q.filters = << >> /\ q.sortable = << >>
        /\ q.dates = << >> /\ q.equals = {<<"one", "height">>} /\ q.uses = {}
        /\ q.as = "one" /\ q.entity = "Transaction"
    BY DEF getBlockStatistics, From, ++
  <2> QED BY <2>1, SoundUnjoined, TransactionSchema
<1>2. Sound(getBlockTransactions, {})
  <2> DEFINE q == getBlockTransactions
  <2>1. /\ q.exists = << >> /\ q.joins = << >> /\ q.filters = << >> /\ q.sortable = << >>
        /\ q.dates = << >> /\ q.equals = {<<"one", "height">>} /\ q.uses = {<<"one", "hash">>}
        /\ q.as = "one" /\ q.entity = "Transaction"
    BY DEF getBlockTransactions, From, ++
  <2> QED BY <2>1, SoundUnjoined, TransactionSchema
<1>3. \A column \in {"height", "hash"} : Sound(WithProposer ++ FindOne("Block", column), {})
  BY SoundFindJoined, BlockSchema DEF WithProposer
<1>4. getBlockByHeight.queries =
          <<WithProposer ++ FindOne("Block", "height"), getBlockStatistics, getBlockTransactions>>
  BY DEF getBlockByHeight, Answering
<1>5. getBlockByHash.queries =
          <<WithProposer ++ FindOne("Block", "hash"), getBlockStatistics, getBlockTransactions>>
  BY DEF getBlockByHash, Answering
<1>6. /\ Sound(WithProposer ++ FindOne("Block", "height"), {})
      /\ Sound(WithProposer ++ FindOne("Block", "hash"), {})
  BY <1>3
<1>7. SoundMethod(getBlockByHeight)
  BY <1>1, <1>2, <1>4, <1>6, SoundThree
<1>8. SoundMethod(getBlockByHash)
  BY <1>1, <1>2, <1>5, <1>6, SoundThree
<1> QED BY <1>7, <1>8

\* The list of blocks, for requests without a time of the day.
LEMMA SoundGetBlocks == \A i \in DOMAIN getBlocks.queries : Sound(getBlocks.queries[i], TimesOfDay)
<1> DEFINE filters == Columns("block", [proposer |-> "proposer_address",
                                        min_txs |-> "num_txs", max_txs |-> "num_txs"])
           q == [uses |-> {<<"block", "height">>}, filters |-> filters,
                 dates |-> <<"block", "timestamp">>, paging |-> ByCursor]
                ++ From("Block", "block")
<1>1. \A p \in DOMAIN filters : filters[p] \subseteq {<<"block", "proposer_address">>,
                                                      <<"block", "num_txs">>}
  BY DEF Columns
<1>2. getBlocks.queries = <<q>>
  BY DEF getBlocks, Answering
<1> HIDE DEF filters
<1>3. /\ q.joins = << >> /\ q.exists = << >> /\ q.sortable = << >> /\ q.equals = {}
      /\ q.dates = <<"block", "timestamp">> /\ q.uses = {<<"block", "height">>}
      /\ q.filters = filters /\ q.as = "block" /\ q.entity = "Block"
  BY DEF From, ++
<1> HIDE DEF q
<1>4. /\ Known(q, <<"block", "height">>) /\ Known(q, <<"block", "proposer_address">>)
      /\ Known(q, <<"block", "num_txs">>) /\ Known(q, <<"block", "timestamp">>)
  BY <1>3, KnownUnjoined, BlockSchema
<1>5. IsTimestamp(Aliases(q)["block"], "timestamp")
  <2>1. Aliases(q) = Own(q) /\ DOMAIN q.exists = {}
    BY <1>3, AliasesUnjoined
  <2>2. Own(q)["block"] = "Block"
    BY <1>3, <2>1, OwnStandsFor DEF StandsFor
  <2> QED BY <2>1, <2>2 DEF IsTimestamp, Timestamps
<1>6. Sound(q, TimesOfDay)
  BY <1>1, <1>3, <1>4, <1>5 DEF Sound
<1> QED BY <1>2, <1>6

-----------------------------------------------------------------------------
\* Validators: the validator, the tables of its own, and its blocks.
LEMMA SoundGetValidatorByAddress == SoundMethod(getValidatorByAddress)
<1> DEFINE queries == getValidatorByAddress.queries
<1>1. /\ Sound(FindOne("Validator", "consensus_address"), {})
      /\ Sound(FindOne("ValidatorInfo", "consensus_address"), {})
      /\ \A e \in {"ValidatorDescription", "ValidatorCommission", "ValidatorVotingPower",
                   "ValidatorStatus"} : Sound(FindOne(e, "validator_address"), {})
  BY SoundFindOne, ValidatorSchema, ValidatorTablesSchema
<1>2. Sound(getRecentActivity, {})
  <2> DEFINE q == getRecentActivity
  <2>1. /\ q.exists = << >> /\ q.joins = << >> /\ q.filters = << >> /\ q.sortable = << >>
        /\ q.dates = << >> /\ q.equals = {} /\ q.as = "one" /\ q.entity = "Block"
        /\ q.uses = {<<"one", "proposer_address">>, <<"one", "height">>}
    BY DEF getRecentActivity, From, ++
  <2> QED BY <2>1, SoundUnjoined, BlockSchema
<1>3. queries = <<FindOne("Validator", "consensus_address"),
                FindOne("ValidatorInfo", "consensus_address"),
                FindOne("ValidatorDescription", "validator_address"),
                FindOne("ValidatorCommission", "validator_address"),
                FindOne("ValidatorVotingPower", "validator_address"),
                FindOne("ValidatorStatus", "validator_address"),
                getRecentActivity>>
  BY DEF getValidatorByAddress, Answering
<1> HIDE DEF queries
<1>4. DOMAIN queries = 1 .. 7
  BY <1>3
<1>5. \A i \in 1 .. 7 : Sound(queries[i], {})
  BY <1>1, <1>2, <1>3
<1> QED BY <1>4, <1>5 DEF SoundMethod, queries

\* The tables that the list of validators joins.
LEMMA JoinedToValidator ==
    ASSUME NEW known, StandsFor(known, "validator", "Validator"), NEW relation,
           HasRelation("Validator", relation), relation \notin DOMAIN known
    PROVE  LET next == Joined(known, Join("validator", relation, relation)) IN
           /\ StandsFor(next, relation, Related("Validator", relation))
           /\ \A a, e : StandsFor(known, a, e) => StandsFor(next, a, e)
           /\ DOMAIN next = DOMAIN known \cup {relation}
<1> DEFINE j == Join("validator", relation, relation)
<1>1. j.of = "validator" /\ j.relation = relation /\ j.as = relation
  BY DEF Join
<1> HIDE DEF j
<1>2. StandsFor(known, j.of, "Validator") /\ HasRelation("Validator", j.relation)
      /\ j.as \notin DOMAIN known
  BY <1>1
<1>3. /\ StandsFor(Joined(known, j), j.as, Related("Validator", j.relation))
      /\ \A a, e : StandsFor(known, a, e) => StandsFor(Joined(known, j), a, e)
      /\ DOMAIN Joined(known, j) = DOMAIN known \cup {j.as}
  BY <1>2, JoinedStandsFor
<1> QED BY <1>1, <1>3 DEF j

LEMMA SoundGetValidators == SoundMethod(getValidators)
<1> DEFINE filters == Columns("status", [status |-> "status", jailed |-> "jailed"]) ++
                      [search |-> {<<"description", "moniker">>,
                                   <<"info", "operator_address">>,
                                   <<"validator", "consensus_address">>}]
           To(relation) == Join("validator", relation, relation)
           q == [joins |-> <<Join("validator", "info", "info"),
                       Join("validator", "description", "description"),
                       Join("validator", "commission", "commission"),
                       Join("validator", "votingPower", "votingPower"),
                       Join("validator", "status", "status")>>,
                 uses |-> {<<"votingPower", "voting_power">>}, filters |-> filters,
                 paging |-> ByPage] ++ From("Validator", "validator")
           a1 == Joined(Own(q), To("info"))
           a2 == Joined(a1, To("description"))
           a3 == Joined(a2, To("commission"))
           a4 == Joined(a3, To("votingPower"))
           a5 == Joined(a4, To("status"))
           compared == {<<"status", "status">>, <<"status", "jailed">>,
                        <<"description", "moniker">>, <<"info", "operator_address">>,
                        <<"validator", "consensus_address">>}
<1>1. \A p \in DOMAIN filters : filters[p] \subseteq compared
  BY DEF Columns, ++
<1>2. getValidators.queries = <<q>>
  BY DEF getValidators, Answering
<1> HIDE DEF filters
<1>3. /\ q.joins = <<To("info"), To("description"), To("commission"), To("votingPower"),
                     To("status")>>
      /\ q.exists = << >> /\ q.sortable = << >> /\ q.dates = << >> /\ q.equals = {}
      /\ q.uses = {<<"votingPower", "voting_power">>} /\ q.filters = filters
      /\ q.as = "validator" /\ q.entity = "Validator"
  BY DEF From, ++
<1>4. \A r : To(r).as = r
  BY DEF Join
<1> HIDE DEF q, To
<1>5. StandsFor(Own(q), "validator", "Validator") /\ DOMAIN Own(q) = {"validator"}
  <2>1. DOMAIN q.exists = {}
    BY <1>3
  <2> QED BY <1>3, <2>1, OwnStandsFor
<1> HIDE DEF a1
<1>6. /\ StandsFor(a1, "validator", "Validator") /\ StandsFor(a1, "info", "ValidatorInfo")
      /\ DOMAIN a1 = {"validator", "info"}
  <2>1. a1 = Joined(Own(q), Join("validator", "info", "info"))
        /\ "info" \notin DOMAIN Own(q) /\ HasRelation("Validator", "info")
    BY <1>5, ValidatorSchema DEF To, a1
  <2>2. /\ StandsFor(a1, "info", Related("Validator", "info"))
        /\ \A a, e : StandsFor(Own(q), a, e) => StandsFor(a1, a, e)
        /\ DOMAIN a1 = DOMAIN Own(q) \cup {"info"}
    BY <1>5, <2>1, JoinedToValidator
  <2> QED BY <1>5, <2>2, ValidatorSchema
<1> HIDE DEF a2
<1>7. /\ StandsFor(a2, "validator", "Validator") /\ StandsFor(a2, "info", "ValidatorInfo")
      /\ StandsFor(a2, "description", "ValidatorDescription")
      /\ DOMAIN a2 = {"validator", "info", "description"}
  <2>1. a2 = Joined(a1, Join("validator", "description", "description"))
        /\ "description" \notin DOMAIN a1 /\ HasRelation("Validator", "description")
    BY <1>6, ValidatorSchema DEF To, a2
  <2>2. /\ StandsFor(a2, "description", Related("Validator", "description"))
        /\ \A a, e : StandsFor(a1, a, e) => StandsFor(a2, a, e)
        /\ DOMAIN a2 = DOMAIN a1 \cup {"description"}
    BY <1>6, <2>1, JoinedToValidator
  <2> QED BY <1>6, <2>2, ValidatorSchema
<1> HIDE DEF a3
<1>8. /\ StandsFor(a3, "validator", "Validator") /\ StandsFor(a3, "info", "ValidatorInfo")
      /\ StandsFor(a3, "description", "ValidatorDescription")
      /\ DOMAIN a3 = {"validator", "info", "description", "commission"}
  <2>1. a3 = Joined(a2, Join("validator", "commission", "commission"))
        /\ "commission" \notin DOMAIN a2 /\ HasRelation("Validator", "commission")
    BY <1>7, ValidatorSchema DEF To, a3
  <2>2. /\ StandsFor(a3, "commission", Related("Validator", "commission"))
        /\ \A a, e : StandsFor(a2, a, e) => StandsFor(a3, a, e)
        /\ DOMAIN a3 = DOMAIN a2 \cup {"commission"}
    BY <1>7, <2>1, JoinedToValidator
  <2> QED BY <1>7, <2>2, ValidatorSchema
<1> HIDE DEF a4
<1>9. /\ StandsFor(a4, "validator", "Validator") /\ StandsFor(a4, "info", "ValidatorInfo")
      /\ StandsFor(a4, "description", "ValidatorDescription")
      /\ StandsFor(a4, "votingPower", "ValidatorVotingPower")
      /\ DOMAIN a4 = {"validator", "info", "description", "commission", "votingPower"}
  <2>1. a4 = Joined(a3, Join("validator", "votingPower", "votingPower"))
        /\ "votingPower" \notin DOMAIN a3 /\ HasRelation("Validator", "votingPower")
    BY <1>8, ValidatorSchema DEF To, a4
  <2>2. /\ StandsFor(a4, "votingPower", Related("Validator", "votingPower"))
        /\ \A a, e : StandsFor(a3, a, e) => StandsFor(a4, a, e)
        /\ DOMAIN a4 = DOMAIN a3 \cup {"votingPower"}
    BY <1>8, <2>1, JoinedToValidator
  <2> QED BY <1>8, <2>2, ValidatorSchema
<1> HIDE DEF a5
<1>10. /\ StandsFor(a5, "validator", "Validator") /\ StandsFor(a5, "info", "ValidatorInfo")
       /\ StandsFor(a5, "description", "ValidatorDescription")
       /\ StandsFor(a5, "votingPower", "ValidatorVotingPower")
       /\ StandsFor(a5, "status", "ValidatorStatus")
       /\ DOMAIN a5 = {"validator", "info", "description", "commission", "votingPower",
                       "status"}
  <2>1. a5 = Joined(a4, Join("validator", "status", "status"))
        /\ "status" \notin DOMAIN a4 /\ HasRelation("Validator", "status")
    BY <1>9, ValidatorSchema DEF To, a5
  <2>2. /\ StandsFor(a5, "status", Related("Validator", "status"))
        /\ \A a, e : StandsFor(a4, a, e) => StandsFor(a5, a, e)
        /\ DOMAIN a5 = DOMAIN a4 \cup {"status"}
    BY <1>9, <2>1, JoinedToValidator
  <2> QED BY <1>9, <2>2, ValidatorSchema
<1>11. Aliases(q) = a5
  BY <1>3, AliasesFiveTimes DEF a1, a2, a3, a4, a5
<1>12. \A i \in DOMAIN q.joins : q.joins[i].as \in DOMAIN a5
  BY <1>3, <1>4, <1>10
<1>13. Known(q, <<"votingPower", "voting_power">>) /\ \A column \in compared : Known(q, column)
  BY <1>10, <1>11, KnownColumn, ValidatorSchema, ValidatorTablesSchema
<1> HIDE DEF compared
<1>14. Sound(q, {})
  BY <1>1, <1>3, <1>11, <1>12, <1>13 DEF Sound
<1> QED BY <1>2, <1>14, SoundOne

-----------------------------------------------------------------------------
\* Messages.
LEMMA SoundMessagesWith ==
    ASSUME NEW columns, columns \subseteq {"type", "value", "involved_accounts_addresses"}
    PROVE  SoundMethod(MessagesWith(columns))
<1> DEFINE q == [uses |-> {<<"message", "height">>} \cup {<<"message", c>> : c \in columns}]
                ++ FromMessage
<1>1. /\ q.exists = << >> /\ q.joins = << >> /\ q.filters = << >> /\ q.sortable = << >>
      /\ q.dates = << >> /\ q.equals = {} /\ q.as = "message" /\ q.entity = "Message"
      /\ q.uses = {<<"message", "height">>} \cup {<<"message", c>> : c \in columns}
  BY DEF FromMessage, From, ++
<1>2. MessagesWith(columns).queries = <<q>>
  BY DEF MessagesWith, Answering
<1> HIDE DEF q
<1>3. Sound(q, {})
  BY <1>1, SoundUnjoined, MessageSchema
<1> QED BY <1>2, <1>3, SoundOne

\* The list of messages, for requests without a date.
LEMMA SoundGetMessages ==
    \A i \in DOMAIN getMessages.queries :
        Sound(getMessages.queries[i], ComparedDates \cup ExtractedDates \cup TimesOfDay)
<1> DEFINE columns == [type |-> "type", types |-> "type", module |-> "type",
                     modules |-> "type", category |-> "type",
                     address |-> "involved_accounts_addresses", height_from |-> "height",
                     height_to |-> "height", denom |-> "value"]
           q == [filters |-> Columns("message", columns),
                 dates |-> <<"message", "timestamp">>] ++ FromMessage
<1>1. getMessages.queries = <<q>>
  BY DEF getMessages, Answering
<1>2. \A p \in DOMAIN columns : HasColumn("Message", columns[p])
  BY MessageSchema
<1> HIDE DEF columns
<1>3. /\ q.joins = << >> /\ q.exists = << >> /\ q.sortable = << >> /\ q.equals = {}
      /\ q.uses = {<<"message", "height">>} /\ q.as = "message" /\ q.entity = "Message"
      /\ q.filters = Columns("message", columns)
  BY DEF FromMessage, From, ++
<1> HIDE DEF q
<1>4. \A c : HasColumn("Message", c) => Known(q, <<"message", c>>)
  BY <1>3, KnownUnjoined
<1>5. \A p \in DOMAIN q.filters : \A column \in q.filters[p] : Known(q, column)
  BY <1>2, <1>3, <1>4 DEF Columns
<1>6. Known(q, <<"message", "height">>)
  BY <1>4, MessageSchema
<1> QED BY <1>1, <1>3, <1>5, <1>6 DEF Sound

-----------------------------------------------------------------------------
\* The messages of one type of transactions, with their block.
LEMMA SoundStakingMessages == SoundMethod(StakingMessages)
<1> DEFINE toTransaction == Join("message", "transaction", "transaction")
           toBlock == Join("transaction", "block", "block")
           q == [joins |-> <<toTransaction, toBlock>>,
                 uses |-> {<<"message", "type">>, <<"message", "height">>,
                           <<"message", "involved_accounts_addresses">>},
                 paging |-> ByPage] ++ From("Message", "message")
           once == Joined(Own(q), toTransaction)
           twice == Joined(once, toBlock)
<1>1. /\ toTransaction.of = "message" /\ toTransaction.relation = "transaction"
      /\ toTransaction.as = "transaction"
      /\ toBlock.of = "transaction" /\ toBlock.relation = "block" /\ toBlock.as = "block"
  BY DEF Join
<1>2. StakingMessages.queries = <<q>>
  BY DEF StakingMessages, Answering
<1> HIDE DEF toTransaction, toBlock
<1>3. /\ q.joins = <<toTransaction, toBlock>> /\ q.exists = << >> /\ q.filters = << >>
      /\ q.sortable = << >> /\ q.dates = << >> /\ q.equals = {}
      /\ q.uses = {<<"message", "type">>, <<"message", "height">>,
                   <<"message", "involved_accounts_addresses">>}
      /\ q.as = "message" /\ q.entity = "Message"
  BY DEF From, ++
<1> HIDE DEF q
<1>4. StandsFor(Own(q), "message", "Message") /\ DOMAIN Own(q) = {"message"}
  <2>1. DOMAIN q.exists = {}
    BY <1>3
  <2> QED BY <1>3, <2>1, OwnStandsFor
<1> HIDE DEF once
<1>5. /\ StandsFor(once, "transaction", "Transaction") /\ StandsFor(once, "message", "Message")
      /\ DOMAIN once = {"message", "transaction"}
  <2>1. /\ StandsFor(Own(q), toTransaction.of, "Message")
        /\ HasRelation("Message", toTransaction.relation)
        /\ toTransaction.as \notin DOMAIN Own(q)
    BY <1>1, <1>4, MessageSchema
  <2>2. /\ StandsFor(once, toTransaction.as, Related("Message", toTransaction.relation))
        /\ \A a, e : StandsFor(Own(q), a, e) => StandsFor(once, a, e)
        /\ DOMAIN once = DOMAIN Own(q) \cup {toTransaction.as}
    BY <2>1, JoinedStandsFor DEF once
  <2> QED BY <1>1, <1>4, <2>2, MessageSchema
<1> HIDE DEF twice
<1>6. StandsFor(twice, "message", "Message") /\ DOMAIN twice = {"message", "transaction", "block"}
  <2>1. /\ StandsFor(once, toBlock.of, "Transaction")
        /\ HasRelation("Transaction", toBlock.relation) /\ toBlock.as \notin DOMAIN once
    BY <1>1, <1>5, TransactionSchema
  <2>2. /\ \A a, e : StandsFor(once, a, e) => StandsFor(twice, a, e)
        /\ DOMAIN twice = DOMAIN once \cup {toBlock.as}
    BY <2>1, JoinedStandsFor DEF twice
  <2> QED BY <1>1, <1>5, <2>2
<1>7. Aliases(q) = twice
  BY <1>3, AliasesTwice DEF once, twice
<1>8. \A i \in DOMAIN q.joins : q.joins[i].as \in DOMAIN twice
  BY <1>1, <1>3, <1>6
<1>9. \A column \in q.uses : Known(q, column)
  BY <1>3, <1>6, <1>7, KnownColumn, MessageSchema
<1>10. Sound(q, {})
  BY <1>3, <1>7, <1>8, <1>9 DEF Sound
<1> QED BY <1>2, <1>10, SoundOne

\* The tables of one row.
LEMMA SoundOneRowOf ==
    ASSUME NEW e, HasColumn(e, "one_row_id"), HasColumn(e, "height")
    PROVE  SoundMethod(OneRowOf(e))
<1> DEFINE q == [uses |-> {<<"one", "height">>}] ++ FindOne(e, "one_row_id")
<1>1. /\ q.exists = << >> /\ q.joins = << >> /\ q.filters = << >> /\ q.sortable = << >>
      /\ q.dates = << >> /\ q.equals = {<<"one", "one_row_id">>}
      /\ q.uses = {<<"one", "height">>} /\ q.as = "one" /\ q.entity = e
  BY DEF FindOne, From, ++
<1>2. OneRowOf(e).queries = <<q>>
  BY DEF OneRowOf, Answering
<1> HIDE DEF q
<1>3. Sound(q, {})
  BY <1>1, SoundUnjoined
<1> QED BY <1>2, <1>3, SoundOne

LEMMA SoundOneRowMethods ==
    /\ SoundMethod(getStakingPool) /\ SoundMethod(getStakingParams)
    /\ SoundMethod(getCommunityPool) /\ SoundMethod(getDistributionParams)
    /\ SoundMethod(getSlashingParams) /\ SoundMethod(getMintParams)
    /\ SoundMethod(getInflation) /\ SoundMethod(getGovParams)
  BY SoundOneRowOf, OneRowSchema DEF getStakingPool, getStakingParams, getCommunityPool,
       getDistributionParams, getSlashingParams, getMintParams, getInflation, getGovParams

LEMMA SoundSigningInfo ==
    SoundMethod(getValidatorSigningInfo) /\ SoundMethod(getAllValidatorSigningInfo)
<1>1. SoundMethod(getValidatorSigningInfo)
  <2>1. Sound(FindOne("ValidatorSigningInfo", "validator_address"), {})
    BY SoundFindOne, ValidatorTablesSchema
  <2>2. getValidatorSigningInfo.queries =
            <<FindOne("ValidatorSigningInfo", "validator_address")>>
    BY DEF getValidatorSigningInfo, Answering
  <2> QED BY <2>1, <2>2, SoundOne
<1>2. SoundMethod(getAllValidatorSigningInfo)
  <2> DEFINE q == [uses |-> {<<"one", "height">>}, paging |-> First(100)]
                  ++ From("ValidatorSigningInfo", "one")
  <2>1. /\ q.exists = << >> /\ q.joins = << >> /\ q.filters = << >> /\ q.sortable = << >>
        /\ q.dates = << >> /\ q.equals = {} /\ q.uses = {<<"one", "height">>}
        /\ q.as = "one" /\ q.entity = "ValidatorSigningInfo"
    BY DEF From, ++
  <2>2. getAllValidatorSigningInfo.queries = <<q>>
    BY DEF getAllValidatorSigningInfo, Answering
  <2> HIDE DEF q
  <2>3. Sound(q, {})
    BY <2>1, SoundUnjoined, ValidatorTablesSchema
  <2> QED BY <2>2, <2>3, SoundOne
<1> QED BY <1>1, <1>2

-----------------------------------------------------------------------------
\* A list that joins one relation of its entity and compares its own columns, for
\* requests without the parameters that are avoided.
LEMMA SoundJoinedList ==
    ASSUME NEW q, NEW j, q.joins = <<j>>, q.exists = << >>, q.sortable = << >>,
           j.of = q.as, j.as # q.as, HasRelation(q.entity, j.relation), q.equals = {},
           NEW avoided, TimesOfDay \subseteq avoided,
           NEW date, q.dates = <<q.as, date>>, HasColumn(q.entity, date),
           ExtractedDates \subseteq avoided \/ IsTimestamp(q.entity, date),
           \A column \in q.uses : \E c : column = <<q.as, c>> /\ HasColumn(q.entity, c),
           \A p \in DOMAIN q.filters \ avoided : \A column \in q.filters[p] :
               \E c : column = <<q.as, c>> /\ HasColumn(q.entity, c)
    PROVE  Sound(q, avoided)
<1>1. StandsFor(Own(q), q.as, q.entity) /\ DOMAIN Own(q) = {q.as}
  <2>1. DOMAIN q.exists = {}
    OBVIOUS
  <2> QED BY <2>1, OwnStandsFor
<1>2. /\ StandsFor(Joined(Own(q), j), j.as, Related(q.entity, j.relation))
      /\ StandsFor(Joined(Own(q), j), q.as, q.entity)
  BY <1>1, JoinedStandsFor
<1>3. Aliases(q) = Joined(Own(q), j)
  BY AliasesOnce
<1>4. \A i \in DOMAIN q.joins : q.joins[i].as \in DOMAIN Aliases(q)
  BY <1>2, <1>3 DEF StandsFor
<1>5. \A c : HasColumn(q.entity, c) => Known(q, <<q.as, c>>)
  BY <1>2, <1>3, KnownColumn
<1>6. Known(q, q.dates) /\ Aliases(q)[q.dates[1]] = q.entity /\ q.dates[2] = date
  BY <1>2, <1>3, <1>5 DEF StandsFor
<1> QED BY <1>4, <1>5, <1>6 DEF Sound

LEMMA SoundGetTokenPriceHistory ==
    \A i \in DOMAIN getTokenPriceHistory.queries :
        Sound(getTokenPriceHistory.queries[i], TimesOfDay \cup {"price_id", "price_ids"})
<1> DEFINE columns == [price_id |-> "price_id", price_ids |-> "price_id",
                       price_min |-> "price", price_max |-> "price"]
           j == Join("history", "tokenUnit", "tokenUnit")
           avoided == TimesOfDay \cup {"price_id", "price_ids"}
           q == [joins |-> <<j>>,
                 uses |-> {<<"history", "timestamp">>}, filters |-> PriceFilters("history"),
                 dates |-> <<"history", "timestamp">>, paging |-> ByPageAsGiven]
                ++ From("TokenPriceHistory", "history")
<1>1. j.of = "history" /\ j.as = "tokenUnit" /\ j.relation = "tokenUnit"
  BY DEF Join
<1>2. \A p \in DOMAIN columns \ avoided : HasColumn("TokenPriceHistory", columns[p])
  BY TokenPriceHistorySchema
<1>3. PriceFilters("history") = Columns("history", columns)
  BY DEF PriceFilters
<1>4. getTokenPriceHistory.queries = <<q>>
  BY DEF getTokenPriceHistory, Answering
<1> HIDE DEF columns, j
<1>5. /\ q.joins = <<j>> /\ q.exists = << >> /\ q.sortable = << >> /\ q.equals = {}
      /\ q.uses = {<<"history", "timestamp">>} /\ q.dates = <<"history", "timestamp">>
      /\ q.filters = Columns("history", columns)
      /\ q.as = "history" /\ q.entity = "TokenPriceHistory"
  BY <1>3 DEF From, ++
<1> HIDE DEF q
<1>6. \A p \in DOMAIN q.filters \ avoided : \A column \in q.filters[p] :
          \E c : column = <<"history", c>> /\ HasColumn("TokenPriceHistory", c)
  BY <1>2, <1>5 DEF Columns
<1>7. IsTimestamp("TokenPriceHistory", "timestamp")
  BY DEF IsTimestamp, Timestamps
<1> HIDE DEF avoided
<1>8. TimesOfDay \subseteq avoided
  BY DEF avoided
<1>9. Sound(q, avoided)
  BY <1>1, <1>5, <1>6, <1>7, <1>8, SoundJoinedList, TokenPriceHistorySchema
<1> QED BY <1>4, <1>9 DEF avoided

LEMMA SoundGetTokenUnits ==
    \A i \in DOMAIN getTokenUnits.queries :
        Sound(getTokenUnits.queries[i], ExtractedDates \cup TimesOfDay)
<1> DEFINE columns == [token_name |-> "token_name", denom |-> "denom", price_id |-> "price_id",
                       denoms |-> "denom", exponent_min |-> "exponent",
                       exponent_max |-> "exponent"]
           j == Join("unit", "token", "token")
           avoided == ExtractedDates \cup TimesOfDay
           q == [joins |-> <<j>>, uses |-> {<<"unit", "denom">>},
                 filters |-> Columns("unit", columns),
                 dates |-> <<"unit", "token_name">>, paging |-> ByPageAsGiven]
                ++ From("TokenUnit", "unit")
<1>1. j.of = "unit" /\ j.as = "token" /\ j.relation = "token"
  BY DEF Join
<1>2. \A p \in DOMAIN columns : HasColumn("TokenUnit", columns[p])
  BY TokenUnitSchema
<1>3. getTokenUnits.queries = <<q>>
  BY DEF getTokenUnits, Answering
<1> HIDE DEF columns, j
<1>4. /\ q.joins = <<j>> /\ q.exists = << >> /\ q.sortable = << >> /\ q.equals = {}
      /\ q.uses = {<<"unit", "denom">>} /\ q.dates = <<"unit", "token_name">>
      /\ q.filters = Columns("unit", columns) /\ q.as = "unit" /\ q.entity = "TokenUnit"
  BY DEF From, ++
<1> HIDE DEF q
<1>5. \A p \in DOMAIN q.filters \ avoided : \A column \in q.filters[p] :
          \E c : column = <<"unit", c>> /\ HasColumn("TokenUnit", c)
  BY <1>2, <1>4 DEF Columns
<1> HIDE DEF avoided
<1>6. TimesOfDay \subseteq avoided /\ ExtractedDates \subseteq avoided
  BY DEF avoided
<1>7. Sound(q, avoided)
  BY <1>1, <1>4, <1>5, <1>6, SoundJoinedList, TokenUnitSchema
<1> QED BY <1>3, <1>7 DEF avoided

-----------------------------------------------------------------------------
\* The fields that have a default: a page and a limit, in the lists that take dates.
Defaulted(dto) == {p \in DOMAIN dto : dto[p].default # NoDefault}

LEMMA DatesWithoutDefault == Defaulted(DateFilterDto) = {}
<1> USE DEF Date, Text, Flag, AnyInt, IntFrom, IntIn, OneOf, Field, NoDefault
<1>1. \A p \in DOMAIN DatePartFields : DatePartFields[p].default = NoDefault
  BY DEF DatePartFields
<1>2. \A p \in DOMAIN DateFormatFields : DateFormatFields[p].default = NoDefault
  BY DEF DateFormatFields
<1>3. \A p \in DOMAIN DateListFields : DateListFields[p].default = NoDefault
  BY DEF DateListFields
<1> QED BY <1>1, <1>2, <1>3 DEF DateFilterDto, ++, Defaulted

LEMMA ListsWithoutDefault ==
    \A dto \in {MessageListDto, BlockListDto, TokenUnitListDto, TokenPriceListDto} :
        Defaulted(dto) \subseteq {"page", "limit"}
<1>1. ASSUME NEW f, Defaulted(f) \subseteq {"page", "limit"}
      PROVE  Defaulted(DateFilterDto ++ f) \subseteq {"page", "limit"}
  BY <1>1, DatesWithoutDefault DEF Defaulted, ++
<1>2. Defaulted(MessageListDto) \subseteq {"page", "limit"}
  <2> DEFINE f == [page |-> Page, limit |-> Limit, cursor |-> Cursor, type |-> Text,
     module |-> Text, category |-> OneOf(MessageCategories), address |-> Text, types |-> List,
     modules |-> List, height_from |-> IntFrom(0), height_to |-> IntFrom(0),
     denom |-> Text, amount_min |-> Text, amount_max |-> Text]
  <2>1. Defaulted(f) \subseteq {"page", "limit"}
    BY DEF Defaulted, Cursor, Text, List, OneOf, IntFrom, IntIn, Field
  <2>2. MessageListDto = DateFilterDto ++ f
    BY DEF MessageListDto
  <2> QED BY <1>1, <2>1, <2>2
<1>3. Defaulted(BlockListDto) \subseteq {"page", "limit"}
  <2> DEFINE f == [page |-> Page, limit |-> IntIn(1, NoMaximum, 20), cursor |-> Cursor,
                   proposer |-> Text, min_txs |-> IntFrom(0), max_txs |-> IntFrom(0)]
  <2>1. Defaulted(f) \subseteq {"page", "limit"}
    BY DEF Defaulted, Cursor, Text, IntFrom, IntIn, Field
  <2>2. BlockListDto = DateFilterDto ++ f
    BY DEF BlockListDto
  <2> QED BY <1>1, <2>1, <2>2
<1>4. Defaulted(TokenUnitListDto) \subseteq {"page", "limit"}
  <2> DEFINE f == [page |-> Page, limit |-> Limit, token_name |-> Text, denom |-> Text,
     price_id |-> Text, exponent_min |-> IntFrom(0), exponent_max |-> IntFrom(0),
     denoms |-> List]
  <2>1. Defaulted(f) \subseteq {"page", "limit"}
    BY DEF Defaulted, Text, List, IntFrom, IntIn, Field
  <2>2. TokenUnitListDto = DateFilterDto ++ f
    BY DEF TokenUnitListDto
  <2> QED BY <1>1, <2>1, <2>2
<1>5. Defaulted(TokenPriceListDto) \subseteq {"page", "limit"}
  <2> DEFINE f == [page |-> Page, limit |-> Limit, price_id |-> Text, price_min |-> IntFrom(0),
     price_max |-> IntFrom(0), price_ids |-> List]
  <2>1. Defaulted(f) \subseteq {"page", "limit"}
    BY DEF Defaulted, Text, List, IntFrom, IntIn, Field
  <2>2. TokenPriceListDto = DateFilterDto ++ f
    BY DEF TokenPriceListDto
  <2> QED BY <1>1, <2>1, <2>2
<1> QED BY <1>2, <1>3, <1>4, <1>5

\* A handler whose queries name what exists, at least for requests without the
\* parameters known to break them.
SoundHandler(h) ==
    \/ h \in Broken
    \/ SoundMethod(Methods[h.service])
    \/ /\ \A i \in DOMAIN Methods[h.service].queries :
             Sound(Methods[h.service].queries[i], Breaking(h))
       /\ Defaulted(h.dto) \cap Breaking(h) = {}

\* What the helpers that build a handler leave of it.
LEMMA SoundGet ==
    ASSUME NEW path, NEW service, SoundMethod(Methods[service])
    PROVE  LET h == Get(path, service) IN
               /\ SoundHandler(h) /\ SoundHandler(NotFoundOnError(h))
               /\ SoundHandler(NotFoundWhenNull(h))
               /\ \A ttl : /\ SoundHandler(CachedFor(ttl, h))
                           /\ SoundHandler(CachedFor(ttl, NotFoundOnError(h)))
  BY DEF Get, SoundHandler, NotFoundOnError, NotFoundWhenNull, CachedFor

LEMMA SoundGetWith ==
    ASSUME NEW path, NEW service, NEW dto, NEW documented, SoundMethod(Methods[service])
    PROVE  LET h == GetWith(path, service, dto, documented) IN
               /\ SoundHandler(h)
               /\ \A ttl : /\ SoundHandler(CachedFor(ttl, h))
                           /\ SoundHandler(CachedFor(ttl, NotFoundOnError(h)))
                           /\ \A p : SoundHandler(Requiring(p, CachedFor(ttl, h)))
  BY DEF Get, GetWith, SoundHandler, NotFoundOnError, CachedFor, Requiring

LEMMA SoundTransactionController == \A h \in ToSet(TransactionController) : SoundHandler(h)
<1> USE SoundOfOneTransaction DEF Methods
<1>0. SoundMethod(getGlobalTransactionStatistics) /\ SoundMethod(getTransactionAnalytics)
  BY SoundNone DEF getGlobalTransactionStatistics, getTransactionAnalytics, Placeholder, Answering
<1>1. /\ SoundHandler(GetTransaction) /\ SoundHandler(GetTransactionMessages)
      /\ SoundHandler(GetTransactionStatistics)
      /\ SoundHandler(GetGlobalTransactionStatistics) /\ SoundHandler(GetTransactionAnalytics)
  BY <1>0, SoundGet DEF GetTransaction, GetTransactionMessages, GetTransactionStatistics,
       GetGlobalTransactionStatistics, GetTransactionAnalytics
<1>2. /\ SoundHandler(GetTransactionCounts) /\ SoundHandler(GetTransactions)
      /\ SoundHandler(GetTransactionsAdvanced) /\ SoundHandler(SearchTransactions)
  BY SoundGetWith, SoundGetTransactionCountsRecent, SoundGetTransactions,
     SoundGetTransactionsAdvanced, SoundSearchTransactions
  DEF GetTransactionCounts, GetTransactions, GetTransactionsAdvanced, SearchTransactions
<1>3. /\ SoundHandler(GetTransactionsByMessageType) /\ SoundHandler(GetTransactionsByValidator)
      /\ SoundHandler(GetTransactionsByBlockRange)
  BY SoundGetWith, SoundGetTransactionsByMessageType, SoundGetTransactionsByValidator,
     SoundGetTransactionsByBlockRange
  DEF GetTransactionsByMessageType, GetTransactionsByValidator, GetTransactionsByBlockRange
<1> QED BY <1>1, <1>2, <1>3 DEF ToSet, TransactionController

LEMMA SoundAddressController == \A h \in ToSet(AddressController) : SoundHandler(h)
<1> USE DEF Methods
<1>0. SoundMethod(getAddressTransactionStatistics)
  BY SoundNone DEF getAddressTransactionStatistics, Placeholder, Answering
<1>1. /\ SoundHandler(GetAddressInfo) /\ SoundHandler(GetAddressBalance)
      /\ SoundHandler(GetAddressVesting) /\ SoundHandler(GetAddressGovernance)
      /\ SoundHandler(GetAddressTransactionStatistics)
  BY <1>0, SoundGet, SoundGetAddressInfo DEF GetAddressInfo, GetAddressBalance,
       GetAddressVesting, GetAddressGovernance, GetAddressTransactionStatistics
<1>2. SoundHandler(GetAddressTransactions) /\ SoundHandler(GetAddressTransactionsAdvanced)
  BY SoundGetWith, SoundGetAddressTransactions, SoundGetAddressTransactionsAdvanced
  DEF GetAddressTransactions, GetAddressTransactionsAdvanced
<1> QED BY <1>1, <1>2 DEF ToSet, AddressController

\* The parameters known to break the handlers that take them.
LEMMA BreakingParameters ==
    /\ Breaking(GetMessages) = ComparedDates \cup ExtractedDates \cup TimesOfDay
    /\ Breaking(GetBlocks) = TimesOfDay
    /\ Breaking(GetTokenPriceHistory) = TimesOfDay \cup {"price_id", "price_ids"}
    /\ Breaking(GetTokenUnits) = ExtractedDates \cup TimesOfDay
<1>1. /\ GetMessages.service = "getMessages" /\ GetBlocks.service = "getBlocks"
      /\ GetTokenPriceHistory.service = "getTokenPriceHistory"
      /\ GetTokenUnits.service = "getTokenUnits"
  BY DEF GetMessages, GetBlocks, GetTokenPriceHistory, GetTokenUnits, Get, GetWith, CachedFor
<1> QED BY <1>1 DEF Breaking

LEMMA SoundMessageController == \A h \in ToSet(MessageController) : SoundHandler(h)
<1> USE DEF Methods
<1>1. /\ SoundMethod(getMessageTypes) /\ SoundMethod(getMessageTypeInfo)
      /\ SoundMethod(getMessageStatistics)
  BY SoundNone DEF getMessageTypes, getMessageTypeInfo, getMessageStatistics, Placeholder,
       Answering
<1>2. /\ SoundHandler(GetMessageTypes) /\ SoundHandler(GetMessageTypeInfo)
      /\ SoundHandler(GetMessageStatistics) /\ SoundHandler(GetMessageModules)
      /\ SoundHandler(GetMessageCategories)
  BY <1>1, SoundGet DEF GetMessageTypes, GetMessageTypeInfo, GetMessageStatistics,
       GetMessageModules, GetMessageCategories
<1>3. /\ SoundMethod(getMessagesByAddress) /\ SoundMethod(getMessagesByType)
      /\ SoundMethod(searchMessages)
  BY SoundMessagesWith DEF getMessagesByAddress, getMessagesByType, searchMessages
<1>4. /\ SoundHandler(GetMessagesByAddress) /\ SoundHandler(GetMessagesByType)
      /\ SoundHandler(SearchMessages)
  BY <1>3, SoundGetWith DEF GetMessagesByAddress, GetMessagesByType, SearchMessages
<1>5. SoundHandler(GetMessages)
  <2>1. GetMessages.service = "getMessages" /\ GetMessages.dto = MessageListDto
    BY DEF GetMessages, Get, GetWith, CachedFor
  <2>2. Defaulted(MessageListDto) \cap Breaking(GetMessages) = {}
    BY BreakingParameters, ListsWithoutDefault DEF ComparedDates, ExtractedDates, TimesOfDay
  <2>3. Methods["getMessages"] = getMessages
    OBVIOUS
  <2>4. \A i \in DOMAIN getMessages.queries : Sound(getMessages.queries[i], Breaking(GetMessages))
    BY BreakingParameters, SoundGetMessages
  <2> QED BY <2>1, <2>2, <2>3, <2>4 DEF SoundHandler
<1> QED BY <1>2, <1>4, <1>5 DEF ToSet, MessageController

LEMMA SoundBlockController == \A h \in ToSet(BlockController) : SoundHandler(h)
<1> USE DEF Methods
<1>1. SoundHandler(GetBlockByHeight) /\ SoundHandler(GetBlockByHash)
  BY SoundGet, SoundOfOneBlock DEF GetBlockByHeight, GetBlockByHash
<1>2. SoundHandler(GetBlocks)
  <2>1. GetBlocks.service = "getBlocks" /\ GetBlocks.dto = BlockListDto
    BY DEF GetBlocks, Get, GetWith, CachedFor
  <2>2. Defaulted(BlockListDto) \cap Breaking(GetBlocks) = {}
    BY BreakingParameters, ListsWithoutDefault DEF TimesOfDay
  <2>3. Methods["getBlocks"] = getBlocks
    OBVIOUS
  <2>4. \A i \in DOMAIN getBlocks.queries : Sound(getBlocks.queries[i], Breaking(GetBlocks))
    BY BreakingParameters, SoundGetBlocks
  <2> QED BY <2>1, <2>2, <2>3, <2>4 DEF SoundHandler
<1> QED BY <1>1, <1>2 DEF ToSet, BlockController

LEMMA SoundSupplyAndGenesisControllers ==
    \A h \in ToSet(SupplyController) \cup ToSet(GenesisController) : SoundHandler(h)
<1> USE DEF Methods
<1>1. SoundMethod(getSupplyStatistics)
  BY SoundNone DEF getSupplyStatistics, Placeholder, Answering
<1>2. SoundHandler(GetSupplyStatistics)
  BY <1>1, SoundGet DEF GetSupplyStatistics
<1>3. /\ SoundHandler(GetSupply) /\ SoundHandler(GetLatestSupply)
      /\ SoundHandler(GetSupplyByDenom) /\ SoundHandler(GetGenesis)
      /\ SoundHandler(GetGenesisByHeight)
  BY DEF SoundHandler, Broken
<1> QED BY <1>2, <1>3 DEF ToSet, SupplyController, GenesisController

LEMMA SoundValidatorController == \A h \in ToSet(ValidatorController) : SoundHandler(h)
<1> USE DEF Methods
<1>1. /\ SoundHandler(GetValidator) /\ SoundHandler(GetValidatorDescription)
      /\ SoundHandler(GetValidatorCommission) /\ SoundHandler(GetValidatorVotingPower)
      /\ SoundHandler(GetValidatorStatus) /\ SoundHandler(GetValidatorStatistics)
      /\ SoundHandler(GetValidatorActivity)
  BY SoundGet, SoundGetValidatorByAddress DEF GetValidator, GetValidatorDescription,
       GetValidatorCommission, GetValidatorVotingPower, GetValidatorStatus,
       GetValidatorStatistics, GetValidatorActivity
<1>2. SoundHandler(GetValidators)
  BY SoundGetWith, SoundGetValidators DEF GetValidators
<1> QED BY <1>1, <1>2 DEF ToSet, ValidatorController

LEMMA SoundStakingController == \A h \in ToSet(StakingController) : SoundHandler(h)
<1> USE DEF Methods
<1>1. SoundMethod(getStakingStatistics)
  BY SoundNone DEF getStakingStatistics, Placeholder, Answering
<1>2. /\ SoundHandler(GetStakingPool) /\ SoundHandler(GetStakingParams)
      /\ SoundHandler(GetCommunityPool) /\ SoundHandler(GetDistributionParams)
      /\ SoundHandler(GetSlashingParams) /\ SoundHandler(GetMintParams)
      /\ SoundHandler(GetInflation) /\ SoundHandler(GetGovParams)
  BY SoundGet, SoundOneRowMethods DEF GetStakingPool, GetStakingParams, GetCommunityPool,
       GetDistributionParams, GetSlashingParams, GetMintParams, GetInflation, GetGovParams
<1>3. /\ SoundHandler(GetValidatorSigningInfo) /\ SoundHandler(GetAllValidatorSigningInfo)
      /\ SoundHandler(GetStakingStatistics)
  BY <1>1, SoundGet, SoundSigningInfo DEF GetValidatorSigningInfo, GetAllValidatorSigningInfo,
       GetStakingStatistics
<1>4. /\ SoundMethod(getDelegationsByAddress) /\ SoundMethod(getDelegationsByValidator)
      /\ SoundMethod(getUndelegationsByAddress) /\ SoundMethod(getUndelegationsByValidator)
      /\ SoundMethod(getRedelegationsByAddress) /\ SoundMethod(getWithdrawalsByAddress)
      /\ SoundMethod(getWithdrawalsByValidator)
  BY SoundStakingMessages DEF getDelegationsByAddress, getDelegationsByValidator,
       getUndelegationsByAddress, getUndelegationsByValidator, getRedelegationsByAddress,
       getWithdrawalsByAddress, getWithdrawalsByValidator
<1>5. /\ SoundHandler(GetDelegationsByAddress) /\ SoundHandler(GetDelegationsByValidator)
      /\ SoundHandler(GetUndelegationsByAddress) /\ SoundHandler(GetUndelegationsByValidator)
      /\ SoundHandler(GetRedelegationsByAddress) /\ SoundHandler(GetWithdrawalsByAddress)
      /\ SoundHandler(GetWithdrawalsByValidator)
  BY <1>4, SoundGetWith DEF GetDelegationsByAddress, GetDelegationsByValidator,
       GetUndelegationsByAddress, GetUndelegationsByValidator, GetRedelegationsByAddress,
       GetWithdrawalsByAddress, GetWithdrawalsByValidator
<1> QED BY <1>2, <1>3, <1>5 DEF ToSet, StakingController

LEMMA SoundGovernanceController == \A h \in ToSet(GovernanceController) : SoundHandler(h)
<1> USE DEF Methods
<1>1. SoundMethod(getGovernanceStatistics)
  BY SoundNone DEF getGovernanceStatistics, Placeholder, Answering
<1>2. SoundHandler(GetGovernanceStatistics)
  BY <1>1, SoundGet DEF GetGovernanceStatistics
<1>3. /\ SoundHandler(GetProposals) /\ SoundHandler(GetProposalById)
      /\ SoundHandler(GetProposalVotes) /\ SoundHandler(GetProposalDeposits)
  BY DEF SoundHandler, Broken
<1> QED BY <1>2, <1>3 DEF ToSet, GovernanceController

LEMMA SoundTokenController == \A h \in ToSet(TokenController) : SoundHandler(h)
<1> USE DEF Methods
<1>1. SoundMethod(getTokenStatistics)
  BY SoundNone DEF getTokenStatistics, Placeholder, Answering
<1>2. SoundHandler(GetTokenStatistics)
  BY <1>1, SoundGet DEF GetTokenStatistics
<1>3. SoundHandler(GetTokens) /\ SoundHandler(GetTokenByName) /\ SoundHandler(GetTokenPrices)
  BY DEF SoundHandler, Broken
<1>4. SoundHandler(GetTokenUnits)
  <2>1. GetTokenUnits.service = "getTokenUnits" /\ GetTokenUnits.dto = TokenUnitListDto
    BY DEF GetTokenUnits, Get, GetWith
  <2>2. Defaulted(TokenUnitListDto) \cap Breaking(GetTokenUnits) = {}
    BY BreakingParameters, ListsWithoutDefault DEF ExtractedDates, TimesOfDay
  <2>3. Methods["getTokenUnits"] = getTokenUnits
    OBVIOUS
  <2>4. \A i \in DOMAIN getTokenUnits.queries : Sound(getTokenUnits.queries[i], Breaking(GetTokenUnits))
    BY BreakingParameters, SoundGetTokenUnits
  <2> QED BY <2>1, <2>2, <2>3, <2>4 DEF SoundHandler
<1>5. SoundHandler(GetTokenPriceHistory)
  <2>1. /\ GetTokenPriceHistory.service = "getTokenPriceHistory"
        /\ GetTokenPriceHistory.dto = TokenPriceListDto
    BY DEF GetTokenPriceHistory, TokenPriceHistoryListDto, Get, GetWith
  <2>2. Defaulted(TokenPriceListDto) \cap Breaking(GetTokenPriceHistory) = {}
    BY BreakingParameters, ListsWithoutDefault DEF TimesOfDay
  <2>3. Methods["getTokenPriceHistory"] = getTokenPriceHistory
    OBVIOUS
  <2>4. \A i \in DOMAIN getTokenPriceHistory.queries : Sound(getTokenPriceHistory.queries[i], Breaking(GetTokenPriceHistory))
    BY BreakingParameters, SoundGetTokenPriceHistory
  <2> QED BY <2>1, <2>2, <2>3, <2>4 DEF SoundHandler
<1> QED BY <1>2, <1>3, <1>4, <1>5 DEF ToSet, TokenController

LEMMA SoundHandlers == \A i \in DOMAIN Handlers : SoundHandler(Handlers[i])
<1>1. \A h \in ToSet(Handlers) : SoundHandler(h)
  BY HandlersOfControllers, SoundTransactionController, SoundAddressController,
     SoundMessageController, SoundBlockController, SoundSupplyAndGenesisControllers,
     SoundValidatorController, SoundStakingController, SoundGovernanceController,
     SoundTokenController
<1> QED BY <1>1 DEF ToSet

\* Whatever its client sends, a request that reaches a handler runs queries that name
\* tables, columns and functions of the database, unless the handler or one of the
\* parameters given is among those known to break them.
THEOREM QueriesNameWhatExists == Spec => []QueriesExecutable
<1>1. ASSUME IInv, stage = "querying", left # << >>, Documented \notin Broken,
             handler = request.serving, Given \cap Breaking(Documented) = {}
      PROVE  Executable(Head(left), params)
  <2> DEFINE h == Handlers[handler]
             queries == Methods[h.service].queries
  <2>1. /\ h = Documented /\ handler \in DOMAIN Handlers
        /\ params = ParamsOf(h, request.given)
    BY <1>1, RequestsAssumption DEF IInv, Served, Documented
  <2>2. /\ IsSuffix(left, queries) /\ queries \in Seq(QueriesOf(h))
        /\ left \in Seq(QueriesOf(h))
    BY <1>1, <2>1, HandlerAt DEF IInv, TypeOK, Served
  <2>3. PICK i \in DOMAIN queries : Head(left) = queries[i]
    BY <1>1, <2>2, SuffixTail
  <2>4. SoundHandler(h)
    BY <2>1, SoundHandlers
  <2>5. CASE SoundMethod(Methods[h.service])
    BY <2>3, <2>5, SoundIsExecutable DEF SoundMethod
  <2>6. CASE /\ \A k \in DOMAIN queries : Sound(queries[k], Breaking(h))
             /\ Defaulted(h.dto) \cap Breaking(h) = {}
    <3>1. DOMAIN params \subseteq Given \cup Defaulted(h.dto)
      BY <2>1 DEF ParamsOf, Transformed, Given, Defaulted
    <3>2. Heeded(params) \cap Breaking(h) = {}
      BY <1>1, <2>1, <2>6, <3>1 DEF Heeded
    <3> QED BY <2>3, <2>6, <3>2, SoundIsExecutable
  <2> QED BY <1>1, <2>1, <2>4, <2>5, <2>6 DEF SoundHandler
<1>2. IInv => QueriesExecutable
  BY <1>1 DEF QueriesExecutable
<1> QED BY <1>2, IInvInit, IInvStep, PTL DEF Spec

-----------------------------------------------------------------------------
\* The parameters of a handler that nothing is known to use.
LEMMA UnusedParameters ==
    /\ Unused(GetTransactionCounts) = {} /\ Unused(SearchTransactions) = {}
    /\ Unused(GetTransactionsByMessageType) = {} /\ Unused(GetTransactionsByValidator) = {}
    /\ Unused(GetTransactionsByBlockRange) = {} /\ Unused(GetValidators) = {}
    /\ Unused(GetTransactions) = {"page"} /\ Unused(GetAddressTransactions) = {"page"}
    /\ Unused(GetMessagesByAddress) = {"page"} /\ Unused(GetMessagesByType) = {"page"}
    /\ Unused(SearchMessages) = {"page"}
    /\ Unused(GetTransactionsAdvanced) = Fees
    /\ Unused(GetAddressTransactionsAdvanced) =
           Fees \cup {"min_amount", "max_amount", "denom", "include_failed",
                      "group_by_type", "include_messages", "include_logs"}
    /\ Unused(GetBlocks) = Presentation \cup {"page"}
    /\ Unused(GetMessages) = Presentation \cup {"page", "amount_min", "amount_max"}
    /\ Unused(GetProposals) = Presentation /\ Unused(GetProposalVotes) = Presentation
    /\ Unused(GetTokenUnits) = Presentation /\ Unused(GetTokenPrices) = Presentation
    /\ Unused(GetTokenPriceHistory) = Presentation /\ Unused(GetSupply) = Presentation
    /\ Unused(GetProposalDeposits) = Presentation \cup {"amount_min", "amount_max"}
    /\ Unused(GetTokens) =
           Presentation \cup {"denom", "price_id", "price_min", "price_max", "denoms"}
    /\ \A h : h.service \in OfStaking => Unused(h) = {"cursor"}
<1> USE DEF Get, GetWith, CachedFor, NotFoundOnError, Requiring
<1>1. /\ GetTransactionCounts.service = "getTransactionCountsRecent"
      /\ SearchTransactions.service = "searchTransactions"
      /\ GetTransactionsByMessageType.service = "getTransactionsByMessageType"
      /\ GetTransactionsByValidator.service = "getTransactionsByValidator"
      /\ GetTransactionsByBlockRange.service = "getTransactionsByBlockRange"
      /\ GetTransactions.service = "getTransactions"
      /\ GetTransactionsAdvanced.service = "getTransactionsAdvanced"
  BY DEF GetTransactionCounts, SearchTransactions, GetTransactionsByMessageType,
       GetTransactionsByValidator, GetTransactionsByBlockRange, GetTransactions,
       GetTransactionsAdvanced
<1>2. /\ GetValidators.service = "getValidators"
      /\ GetAddressTransactions.service = "getAddressTransactions"
      /\ GetAddressTransactionsAdvanced.service = "getAddressTransactionsAdvanced"
      /\ GetMessagesByAddress.service = "getMessagesByAddress"
      /\ GetMessagesByType.service = "getMessagesByType"
      /\ SearchMessages.service = "searchMessages"
      /\ GetMessages.service = "getMessages" /\ GetBlocks.service = "getBlocks"
  BY DEF GetValidators, GetAddressTransactions, GetAddressTransactionsAdvanced,
       GetMessagesByAddress, GetMessagesByType, SearchMessages, GetMessages, GetBlocks
<1>3. /\ GetProposals.service = "getProposals" /\ GetProposalVotes.service = "getProposalVotes"
      /\ GetProposalDeposits.service = "getProposalDeposits"
      /\ GetTokens.service = "getTokens" /\ GetTokenUnits.service = "getTokenUnits"
      /\ GetTokenPrices.service = "getTokenPrices"
      /\ GetTokenPriceHistory.service = "getTokenPriceHistory"
      /\ GetSupply.service = "getSupply"
  BY DEF GetProposals, GetProposalVotes, GetProposalDeposits, GetTokens, GetTokenUnits,
       GetTokenPrices, GetTokenPriceHistory, GetSupply
<1> USE <1>1, <1>2, <1>3 DEF OfStaking
<1>4. /\ Unused(GetTransactionCounts) = {} /\ Unused(SearchTransactions) = {}
      /\ Unused(GetTransactionsByMessageType) = {} /\ Unused(GetTransactionsByValidator) = {}
      /\ Unused(GetTransactionsByBlockRange) = {} /\ Unused(GetValidators) = {}
  BY DEF Unused
<1>5. /\ Unused(GetTransactions) = {"page"} /\ Unused(GetAddressTransactions) = {"page"}
      /\ Unused(GetMessagesByAddress) = {"page"} /\ Unused(GetMessagesByType) = {"page"}
      /\ Unused(SearchMessages) = {"page"}
  BY DEF Unused
<1>6. /\ Unused(GetTransactionsAdvanced) = Fees
      /\ Unused(GetAddressTransactionsAdvanced) =
           Fees \cup {"min_amount", "max_amount", "denom", "include_failed",
                      "group_by_type", "include_messages", "include_logs"}
  BY DEF Unused
<1>7. /\ Unused(GetBlocks) = Presentation \cup {"page"}
      /\ Unused(GetMessages) = Presentation \cup {"page", "amount_min", "amount_max"}
  BY DEF Unused
<1>8. /\ Unused(GetProposals) = Presentation /\ Unused(GetProposalVotes) = Presentation
      /\ Unused(GetTokenUnits) = Presentation /\ Unused(GetTokenPrices) = Presentation
      /\ Unused(GetTokenPriceHistory) = Presentation /\ Unused(GetSupply) = Presentation
  BY DEF Unused
<1>9. /\ Unused(GetProposalDeposits) = Presentation \cup {"amount_min", "amount_max"}
      /\ Unused(GetTokens) =
           Presentation \cup {"denom", "price_id", "price_min", "price_max", "denoms"}
  BY DEF Unused
<1>10. \A h : h.service \in OfStaking => Unused(h) = {"cursor"}
  BY DEF Unused
<1> QED BY <1>4, <1>5, <1>6, <1>7, <1>8, <1>9, <1>10

-----------------------------------------------------------------------------
\* The query has a use for the parameter.
Takes(q, p) ==
    \/ p \in DOMAIN q.filters
    \/ p \in ComparedDates \cup ExtractedDates \cup TimesOfDay /\ q.dates # << >>
    \/ p \in {"sort_by", "sort_order"} /\ q.sortable # << >>
    \/ p = "limit" /\ q.paging.by # "nothing"
    \/ p = "page" /\ q.paging.by = "page"
    \/ p = "offset" /\ q.paging.by \in {"offset", "either"}
    \/ p = "cursor" /\ q.paging.by \in {"cursor", "either"}

\* What decides between parameters is read as it was written, and is not made up.
WordsKept(dto) ==
    /\ {"cursor", "sort_by"} \cap Defaulted(dto) = {}
    /\ \A p \in {"sort_by", "module", "direction", "category"} \cap DOMAIN dto :
          dto[p].check \notin {"boolean", "flag"}
    /\ "category" \in DOMAIN dto => dto["category"] = OneOf(MessageCategories)
    /\ "relative_value" \in DOMAIN dto <=> "relative_unit" \in DOMAIN dto

\* A handler that has a use for every parameter it lets through.
UsesAll(h) ==
    /\ WordsKept(h.dto)
    /\ \A p \in DOMAIN h.dto \ Unused(h) :
          \E i \in DOMAIN Methods[h.service].queries : Takes(Methods[h.service].queries[i], p)

\* A value is heeded when it is written as documented and is not one of those dropped.
LEMMA ValueHeeded ==
    ASSUME NEW h, NEW given, WordsKept(h.dto), Validated(h.dto, given),
           NEW p, p \in DOMAIN h.dto \cap DOMAIN given, ~FiltersNothing(p, given[p]),
           p = "module" => given[p].word \in ParsedModules,
           p = "direction" => given[p].word \in {"sent", "received", "both"}
    PROVE  p \in Heeded(Transformed(h.dto, given))
<1> DEFINE params_ == Transformed(h.dto, given)
<1>1. p \in DOMAIN params_ /\ params_[p] = Converted(h.dto[p], given[p])
  BY DEF Transformed
<1>2. ASSUME p \in TestedForTruth PROVE params_[p] # WrittenNumber(0)
  <2>1. given[p].number # 0
    BY <1>2 DEF FiltersNothing
  <2>2. WrittenNumber(0).number = 0 /\ WrittenNumber(0).kind = "number"
    BY DEF WrittenNumber, Written
  <2>3. WrittenWord("true").kind = "word"
    BY DEF WrittenWord, Written
  <2>4. params_[p] = WrittenWord("true") \/ params_[p] = given[p]
    BY <1>1 DEF Converted
  <2> QED BY <2>1, <2>2, <2>3, <2>4
<1>3. ASSUME p \in DOMAIN SelectingWords PROVE params_[p].word \in SelectingWords[p]
  <2>1. p \in {"direction", "module", "category"}
    BY <1>3 DEF SelectingWords
  <2>2. params_[p] = given[p]
    BY <1>1, <2>1 DEF WordsKept, Converted
  <2>3. CASE p = "direction"
    BY <2>2, <2>3 DEF SelectingWords, FiltersNothing
  <2>4. CASE p = "module"
    BY <2>2, <2>4 DEF SelectingWords
  <2>5. CASE p = "category"
    <3>1. h.dto[p] = OneOf(MessageCategories) /\ Accepts(h.dto[p], given[p])
      BY <2>5 DEF WordsKept, Validated
    <3>2. given[p].word \in MessageCategories
      BY <3>1 DEF OneOf, Field, Accepts
    <3>3. given[p].word \notin {"mint", "other"}
      BY <2>5 DEF FiltersNothing
    <3>4. given[p].word \in ParsedCategories
      BY <3>2, <3>3 DEF MessageCategories, ParsedCategories
    <3> QED BY <2>2, <2>5, <3>4 DEF SelectingWords
  <2> QED BY <2>1, <2>3, <2>4, <2>5
<1> QED BY <1>1, <1>2, <1>3 DEF Heeded

\* The cursor and the offset: the one that is not set aside is used.
LEMMA CursorUsed ==
    ASSUME NEW h, NEW given, WordsKept(h.dto), NEW q,
           "cursor" \in DOMAIN h.dto \cap DOMAIN given,
           "sort_by" \in DOMAIN given => given["sort_by"].word = "height",
           q.paging.by \in {"cursor", "either"}
    PROVE  UsesCursor(q.paging, Transformed(h.dto, given))
<1> DEFINE params_ == Transformed(h.dto, given)
<1>1. "cursor" \in DOMAIN params_
  BY DEF Transformed
<1>2. ASSUME "sort_by" \in DOMAIN params_ PROVE params_["sort_by"].word = "height"
  <2>1. "sort_by" \in DOMAIN h.dto \cap DOMAIN given
    BY <1>2 DEF Transformed, WordsKept, Defaulted
  <2>2. params_["sort_by"] = given["sort_by"]
    BY <2>1 DEF Transformed, WordsKept, Converted
  <2> QED BY <2>1, <2>2
<1> QED BY <1>1, <1>2 DEF UsesCursor

LEMMA OffsetUsed ==
    ASSUME NEW h, NEW given, WordsKept(h.dto), NEW q,
           \/ "cursor" \notin DOMAIN given
           \/ "sort_by" \in DOMAIN given /\ given["sort_by"].word # "height",
           "sort_by" \in DOMAIN given => "sort_by" \in DOMAIN h.dto,
           q.paging.by \in {"offset", "either"}
    PROVE  ~UsesCursor(q.paging, Transformed(h.dto, given))
<1> DEFINE params_ == Transformed(h.dto, given)
<1>1. CASE "cursor" \notin DOMAIN given
  <2>1. "cursor" \notin DOMAIN params_
    BY <1>1 DEF Transformed, WordsKept, Defaulted
  <2> QED BY <2>1 DEF UsesCursor
<1>2. CASE "sort_by" \in DOMAIN given /\ given["sort_by"].word # "height"
  <2>1. "sort_by" \in DOMAIN params_ /\ params_["sort_by"] = given["sort_by"]
    BY <1>2 DEF Transformed, WordsKept, Converted
  <2> QED BY <1>2, <2>1 DEF UsesCursor
<1> QED BY <1>1, <1>2

\* Every parameter let through is used by a query, but for those set aside or dropped,
\* with the value it was given.
LEMMA ParametersUsed ==
    ASSUME NEW h, NEW given, UsesAll(h), Validated(h.dto, given),
           NEW p, p \in (DOMAIN h.dto \cap DOMAIN given) \ Unused(h),
           \A r \in {p, "relative_value", "relative_unit"} \cap DOMAIN given :
               ~FiltersNothing(r, given[r]),
           p = "module" => given[p].word \in ParsedModules,
           p = "direction" => given[p].word \in {"sent", "received", "both"},
           p = "cursor" => ("sort_by" \in DOMAIN given => given["sort_by"].word = "height"),
           p = "offset" =>
               /\ \/ "cursor" \notin DOMAIN given
                  \/ "sort_by" \in DOMAIN given /\ given["sort_by"].word # "height"
               /\ "sort_by" \in DOMAIN given => "sort_by" \in DOMAIN h.dto,
           p \in {"relative_value", "relative_unit"} =>
               {"relative_value", "relative_unit"} \subseteq DOMAIN given
    PROVE  \E i \in DOMAIN Methods[h.service].queries :
               p \in Effective(Methods[h.service].queries[i], Transformed(h.dto, given))
<1> DEFINE params_ == Transformed(h.dto, given)
           relative == {"relative_value", "relative_unit"}
<1>1. PICK i \in DOMAIN Methods[h.service].queries : Takes(Methods[h.service].queries[i], p)
  BY DEF UsesAll
<1> DEFINE q == Methods[h.service].queries[i]
<1>2. WordsKept(h.dto)
  BY DEF UsesAll
<1>3. p \in Heeded(params_)
  BY <1>2, ValueHeeded
<1>4. ASSUME p \in relative PROVE relative \subseteq Heeded(params_)
  <2>1. relative \subseteq DOMAIN h.dto \cap DOMAIN given
    BY <1>2, <1>4 DEF WordsKept
  <2>2. "relative_value" \in Heeded(params_)
    BY <1>2, <2>1, ValueHeeded
  <2>3. "relative_unit" \in Heeded(params_)
    BY <1>2, <2>1, ValueHeeded
  <2> QED BY <2>2, <2>3
<1> HIDE DEF q
<1> SUFFICES p \in Effective(q, params_)
  BY DEF q
<1>5. CASE p \in DOMAIN q.filters
  BY <1>3, <1>5 DEF Effective
<1>6. CASE p \in ComparedDates \cup ExtractedDates \cup TimesOfDay /\ q.dates # << >>
  <2>1. p \in DateConditions(q, Heeded(params_))
    BY <1>3, <1>4, <1>6 DEF DateConditions
  <2> QED BY <1>3, <2>1 DEF Effective
<1>7. CASE p \in {"sort_by", "sort_order"} /\ q.sortable # << >>
  BY <1>3, <1>7 DEF Effective
<1>8. CASE p = "limit" /\ q.paging.by # "nothing"
  BY <1>3, <1>8 DEF Effective
<1>9. CASE p = "page" /\ q.paging.by = "page"
  BY <1>3, <1>9 DEF Effective
<1>10. CASE p = "offset" /\ q.paging.by \in {"offset", "either"}
  <2>1. ~UsesCursor(q.paging, params_)
    BY <1>2, <1>10, OffsetUsed
  <2> QED BY <1>3, <1>10, <2>1 DEF Effective
<1>11. CASE p = "cursor" /\ q.paging.by \in {"cursor", "either"}
  <2>1. UsesCursor(q.paging, params_)
    BY <1>2, <1>11, CursorUsed
  <2> QED BY <1>3, <1>11, <2>1 DEF Effective
<1> QED BY <1>1, <1>5, <1>6, <1>7, <1>8, <1>9, <1>10, <1>11 DEF Takes, q

-----------------------------------------------------------------------------
\* What the DTOs of dates have, and what is made of it.
LEMMA DateFields ==
    /\ DOMAIN DateFilterDto \cap {"cursor", "sort_by", "module", "direction", "category"} = {}
    /\ {"relative_value", "relative_unit"} \subseteq DOMAIN DateFilterDto
    /\ DOMAIN DateFilterDto \subseteq
           ComparedDates \cup ExtractedDates \cup TimesOfDay \cup Presentation
<1>1. /\ DOMAIN DatePartFields \cap
             {"cursor", "sort_by", "module", "direction", "category"} = {}
      /\ DOMAIN DatePartFields \subseteq ComparedDates \cup ExtractedDates
  BY DEF DatePartFields, ComparedDates, ExtractedDates
<1>2. /\ DOMAIN DateFormatFields \cap
             {"cursor", "sort_by", "module", "direction", "category"} = {}
      /\ {"relative_value", "relative_unit"} \subseteq DOMAIN DateFormatFields
      /\ DOMAIN DateFormatFields \subseteq
             ComparedDates \cup ExtractedDates \cup TimesOfDay \cup Presentation
  BY DEF DateFormatFields, ComparedDates, ExtractedDates, TimesOfDay, Presentation
<1>3. /\ DOMAIN DateListFields \cap
             {"cursor", "sort_by", "module", "direction", "category"} = {}
      /\ DOMAIN DateListFields \subseteq ComparedDates \cup ExtractedDates \cup Presentation
  BY DEF DateListFields, ComparedDates, ExtractedDates, Presentation
<1> QED BY <1>1, <1>2, <1>3 DEF DateFilterDto, ++

LEMMA WordsOfTransactions ==
    /\ WordsKept(PaginationDto) /\ WordsKept(OffsetPaginationDto)
    /\ WordsKept(TransactionCountsQueryDto) /\ WordsKept(TransactionListDto)
    /\ WordsKept(TransactionSearchDto) /\ WordsKept(ValidatorListDto)
    /\ WordsKept(TransactionFilterDto) /\ WordsKept(AddressTransactionFilterDto)
<1> DEFINE others == {"module", "category", "relative_value", "relative_unit"}
<1> USE DEF WordsKept, Defaulted, Cursor, IntFrom, IntIn, Text, OneOf, Field, NoDefault
<1>1. /\ WordsKept(PaginationDto) /\ WordsKept(OffsetPaginationDto)
      /\ WordsKept(TransactionCountsQueryDto)
  BY DEF PaginationDto, OffsetPaginationDto, TransactionCountsQueryDto
<1>2. /\ WordsKept(TransactionListDto) /\ WordsKept(TransactionSearchDto)
      /\ WordsKept(ValidatorListDto)
  BY DEF TransactionListDto, TransactionSearchDto, ValidatorListDto
<1>3. WordsKept(TransactionFilterDto)
  <2>1. /\ (others \cup {"direction"}) \cap DOMAIN TransactionFilterDto = {}
        /\ TransactionFilterDto["cursor"] = Cursor
        /\ TransactionFilterDto["sort_by"] = OneOf(TransactionSortFields)
    BY DEF TransactionFilterDto, GasFilters, ++
  <2> QED BY <2>1
<1>4. WordsKept(AddressTransactionFilterDto)
  <2>1. /\ others \cap DOMAIN AddressTransactionFilters = {}
        /\ {"cursor", "sort_by"} \cap DOMAIN AddressTransactionFilters = {}
        /\ AddressTransactionFilters["direction"] = Text
        /\ "direction" \in DOMAIN AddressTransactionFilters
    BY DEF AddressTransactionFilters, GasFilters, ++
  <2>2. /\ others \cap DOMAIN AddressTransactionPage = {}
        /\ AddressTransactionPage["cursor"] = Cursor
        /\ AddressTransactionPage["sort_by"] = OneOf(TransactionSortFields)
    BY DEF AddressTransactionPage
  <2>3. /\ others \cap DOMAIN AddressTransactionFilterDto = {}
        /\ AddressTransactionFilterDto["direction"] = Text
        /\ "cursor" \in DOMAIN AddressTransactionFilterDto =>
               AddressTransactionFilterDto["cursor"] = Cursor
        /\ "sort_by" \in DOMAIN AddressTransactionFilterDto =>
               AddressTransactionFilterDto["sort_by"] = OneOf(TransactionSortFields)
    BY <2>1, <2>2 DEF AddressTransactionFilterDto, ++
  <2> QED BY <2>3
<1> QED BY <1>1, <1>2, <1>3, <1>4

LEMMA WordsOfLists ==
    /\ WordsKept(MessageListDto) /\ WordsKept(BlockListDto)
    /\ WordsKept(ProposalListDto) /\ WordsKept(ProposalVoteListDto)
    /\ WordsKept(ProposalDepositListDto) /\ WordsKept(TokenListDto)
    /\ WordsKept(TokenUnitListDto) /\ WordsKept(TokenPriceListDto)
    /\ WordsKept(SupplyListDto)
<1> DEFINE Kept(f) == /\ {"cursor", "sort_by"} \cap Defaulted(f) = {}
                      /\ \A p \in {"sort_by", "module", "direction"} \cap DOMAIN f :
                            f[p].check \notin {"boolean", "flag"}
                      /\ "category" \in DOMAIN f => f["category"] = OneOf(MessageCategories)
<1>1. ASSUME NEW f, Kept(f) PROVE WordsKept(DateFilterDto ++ f)
  <2>1. OneOf(MessageCategories).check = "word"
    BY DEF OneOf, Field
  <2>2. \A p \in {"cursor", "sort_by", "module", "direction", "category"} :
            /\ p \in DOMAIN (DateFilterDto ++ f) <=> p \in DOMAIN f
            /\ p \in DOMAIN f => (DateFilterDto ++ f)[p] = f[p]
    BY DateFields DEF ++
  <2>3. {"relative_value", "relative_unit"} \subseteq DOMAIN (DateFilterDto ++ f)
    BY DateFields DEF ++
  <2> QED BY <1>1, <2>1, <2>2, <2>3 DEF WordsKept, Defaulted
<1> USE DEF Defaulted, Cursor, IntFrom, IntIn, Text, OneOf, Unchecked, Field, NoDefault
<1>2. WordsKept(MessageListDto)
  <2> DEFINE f == [page |-> Page, limit |-> Limit, cursor |-> Cursor, type |-> Text,
     module |-> Text, category |-> OneOf(MessageCategories), address |-> Text, types |-> List,
     modules |-> List, height_from |-> IntFrom(0), height_to |-> IntFrom(0),
     denom |-> Text, amount_min |-> Text, amount_max |-> Text]
  <2>1. Kept(f)
    OBVIOUS
  <2> QED BY <1>1, <2>1 DEF MessageListDto
<1>3. WordsKept(BlockListDto)
  <2> DEFINE f == [page |-> Page, limit |-> IntIn(1, NoMaximum, 20), cursor |-> Cursor,
                   proposer |-> Text, min_txs |-> IntFrom(0), max_txs |-> IntFrom(0)]
  <2>1. Kept(f)
    OBVIOUS
  <2> QED BY <1>1, <2>1 DEF BlockListDto
<1>4. WordsKept(ProposalListDto)
  <2> DEFINE f == [page |-> Page, limit |-> Limit,
     status |-> OneOf({"PROPOSAL_STATUS_DEPOSIT_PERIOD", "PROPOSAL_STATUS_VOTING_PERIOD",
                       "PROPOSAL_STATUS_PASSED", "PROPOSAL_STATUS_REJECTED",
                       "PROPOSAL_STATUS_FAILED"}),
     proposer |-> Text, search |-> Text, ids |-> List,
     sort_by |-> OneOf({"id", "submit_time", "deposit_end_time", "voting_start_time",
                        "voting_end_time"}),
     sort_order |-> SortOrder]
  <2>1. Kept(f)
    OBVIOUS
  <2> QED BY <1>1, <2>1 DEF ProposalListDto
<1>5. WordsKept(ProposalVoteListDto)
  <2> DEFINE f == [page |-> Page, limit |-> Limit, proposal_id |-> AnyInt, voter |-> Text,
     option |-> OneOf({"VOTE_OPTION_YES", "VOTE_OPTION_ABSTAIN", "VOTE_OPTION_NO",
                       "VOTE_OPTION_NO_WITH_VETO"}),
     voters |-> List]
  <2>1. Kept(f)
    OBVIOUS
  <2> QED BY <1>1, <2>1 DEF ProposalVoteListDto
<1>6. WordsKept(ProposalDepositListDto)
  <2> DEFINE f == [page |-> Page, limit |-> Limit, proposal_id |-> AnyInt, depositor |-> Text,
     depositors |-> List, amount_min |-> Text, amount_max |-> Text, denom |-> Text]
  <2>1. Kept(f)
    OBVIOUS
  <2> QED BY <1>1, <2>1 DEF ProposalDepositListDto
<1>7. WordsKept(TokenListDto)
  <2> DEFINE f == [page |-> Page, limit |-> Limit, name |-> Text, denom |-> Text, price_id |-> Text,
     price_min |-> IntFrom(0), price_max |-> IntFrom(0), names |-> List, denoms |-> List,
     sort_by |-> Unchecked, sort_order |-> Unchecked]
  <2>1. Kept(f)
    OBVIOUS
  <2> QED BY <1>1, <2>1 DEF TokenListDto
<1>8. WordsKept(TokenUnitListDto)
  <2> DEFINE f == [page |-> Page, limit |-> Limit, token_name |-> Text, denom |-> Text,
     price_id |-> Text, exponent_min |-> IntFrom(0), exponent_max |-> IntFrom(0),
     denoms |-> List]
  <2>1. Kept(f)
    OBVIOUS
  <2> QED BY <1>1, <2>1 DEF TokenUnitListDto
<1>9. WordsKept(TokenPriceListDto)
  <2> DEFINE f == [page |-> Page, limit |-> Limit, price_id |-> Text, price_min |-> IntFrom(0),
     price_max |-> IntFrom(0), price_ids |-> List]
  <2>1. Kept(f)
    OBVIOUS
  <2> QED BY <1>1, <2>1 DEF TokenPriceListDto
<1>10. WordsKept(SupplyListDto)
  <2> DEFINE f == [page |-> Page, limit |-> Limit, denom |-> Text, denoms |-> List, amount_min |-> Text,
     amount_max |-> Text, height_min |-> IntFrom(1), height_max |-> IntFrom(1),
     sort_by |-> Unchecked, sort_order |-> Unchecked]
  <2>1. Kept(f)
    OBVIOUS
  <2> QED BY <1>1, <2>1 DEF SupplyListDto
<1> QED BY <1>2, <1>3, <1>4, <1>5, <1>6, <1>7, <1>8, <1>9, <1>10

-----------------------------------------------------------------------------
\* The first query of the method has a use for the parameters.
Asks(m, names) == 1 \in DOMAIN m.queries /\ \A p \in names : Takes(m.queries[1], p)
Dates == ComparedDates \cup ExtractedDates \cup TimesOfDay

LEMMA UsedByFirst ==
    ASSUME NEW h, WordsKept(h.dto), NEW names, Asks(Methods[h.service], names),
           DOMAIN h.dto \subseteq names \cup Unused(h)
    PROVE  UsesAll(h)
  BY DEF UsesAll, Asks

LEMMA AsksOfTransactions ==
    /\ Asks(getTransactionCountsRecent, {"period"})
    /\ Asks(getTransactions, {"address", "message_type", "success", "limit", "cursor"})
    /\ Asks(searchTransactions, {"q", "limit", "offset"})
    /\ Asks(getTransactionsByMessageType, {"limit", "offset"})
    /\ Asks(getTransactionsByValidator, {"limit", "offset"})
    /\ Asks(getTransactionsByBlockRange, {"limit", "offset"})
    /\ Asks(getAddressTransactions, {"limit", "cursor"})
<1> USE DEF Asks, Takes, Answering, Paging, ++
<1>1. Asks(getTransactionCountsRecent, {"period"})
  BY DEF getTransactionCountsRecent, runCountsQuery
<1>2. Asks(getTransactions, {"address", "message_type", "success", "limit", "cursor"})
  BY DEF getTransactions, ByCursor
<1>3. Asks(searchTransactions, {"q", "limit", "offset"})
  BY DEF searchTransactions, ByOffset
<1>4. /\ Asks(getTransactionsByMessageType, {"limit", "offset"})
      /\ Asks(getTransactionsByValidator, {"limit", "offset"})
      /\ Asks(getTransactionsByBlockRange, {"limit", "offset"})
  BY DEF getTransactionsByMessageType, getTransactionsByValidator,
         getTransactionsByBlockRange, ByOffset
<1>5. Asks(getAddressTransactions, {"limit", "cursor"})
  BY DEF getAddressTransactions, ByCursor
<1> QED BY <1>1, <1>2, <1>3, <1>4, <1>5

\* The filters that two lists of transactions share.
LEMMA FiltersOfTransactions ==
    DOMAIN (GasColumns ++ TransactionOrder) =
        {"success", "min_height", "max_height", "min_gas_used", "max_gas_used",
         "min_gas_wanted", "max_gas_wanted", "memo", "date_from", "date_to", "sort_by",
         "sort_order"}
  BY DEF GasColumns, TransactionOrder, Columns, ++

LEMMA AsksAdvanced ==
    /\ Asks(getTransactionsAdvanced,
            DOMAIN (GasColumns ++ TransactionOrder) \cup
            {"signer", "message_types", "addresses", "validator", "limit", "offset", "cursor"})
    /\ Asks(getAddressTransactionsAdvanced,
            DOMAIN (GasColumns ++ TransactionOrder) \cup
            {"message_types", "modules", "direction", "sender_only", "receiver_only", "search",
             "limit", "offset", "cursor"})
<1> DEFINE shared == GasColumns ++ TransactionOrder
           advanced == [signer |-> {<<"transaction", "signer_infos">>},
                        message_types |-> WithMessage("type"),
                        addresses |-> WithMessage("involved_accounts_addresses"),
                        validator |-> WithMessage("involved_accounts_addresses")]
           special == [message_types |-> WithMessageOfPartition("type"),
                  modules |-> WithMessageOfPartition("type")
                              \cup {<<"mt", "type">>, <<"mt", "module">>},
                  direction |-> SentOrReceived, sender_only |-> SentOrReceived,
                  receiver_only |-> SentOrReceived,
                  search |-> SentOrReceived \cup
                             {<<"transaction", "hash">>, <<"transaction", "memo">>}]
           q == [paging |-> ByCursorOrOffset] ++ buildTransactionQuery
           r == [paging |-> ByCursorOrOffset] ++ buildAddressTransactionQuery
<1>1. DOMAIN advanced = {"signer", "message_types", "addresses", "validator"}
  OBVIOUS
<1>2. DOMAIN special = {"message_types", "modules", "direction", "sender_only",
                        "receiver_only", "search"}
  OBVIOUS
<1>3. q.filters = shared ++ advanced /\ q.paging = ByCursorOrOffset
  BY DEF buildTransactionQuery, ++
<1>4. r.filters = shared ++ special /\ r.paging = ByCursorOrOffset
  BY DEF buildAddressTransactionQuery, ++
<1>5. getTransactionsAdvanced.queries[1] = q /\ 1 \in DOMAIN getTransactionsAdvanced.queries
  BY DEF getTransactionsAdvanced, Answering
<1>6. /\ getAddressTransactionsAdvanced.queries[1] = r
      /\ 1 \in DOMAIN getAddressTransactionsAdvanced.queries
  BY DEF getAddressTransactionsAdvanced, Answering
<1> HIDE DEF shared, advanced, special, q, r
<1>7. /\ DOMAIN q.filters = DOMAIN shared \cup DOMAIN advanced
      /\ DOMAIN r.filters = DOMAIN shared \cup DOMAIN special
  BY <1>3, <1>4 DEF ++
<1>8. ByCursorOrOffset.by = "either"
  BY DEF ByCursorOrOffset, Paging
<1>9. Asks(getTransactionsAdvanced, DOMAIN shared \cup
            {"signer", "message_types", "addresses", "validator", "limit", "offset", "cursor"})
  BY <1>1, <1>3, <1>5, <1>7, <1>8 DEF Asks, Takes
<1>10. Asks(getAddressTransactionsAdvanced, DOMAIN shared \cup
            {"message_types", "modules", "direction", "sender_only", "receiver_only", "search",
             "limit", "offset", "cursor"})
  BY <1>2, <1>4, <1>6, <1>7, <1>8 DEF Asks, Takes
<1> QED BY <1>9, <1>10 DEF shared

LEMMA AsksOfLists ==
    /\ Asks(getBlocks, Dates \cup {"proposer", "min_txs", "max_txs", "limit", "cursor"})
    /\ Asks(getValidators, {"status", "jailed", "search", "page", "limit"})
    /\ Asks(getMessages, Dates \cup {"type", "types", "module", "modules", "category",
                "address", "height_from", "height_to", "denom", "limit", "cursor"})
    /\ Asks(StakingMessages, {"page", "limit"})
<1> USE DEF Asks, Takes, Answering, Paging, Columns, Dates, ++
<1>1. Asks(getBlocks, Dates \cup {"proposer", "min_txs", "max_txs", "limit", "cursor"})
  BY DEF getBlocks, ByCursor
<1>2. Asks(getValidators, {"status", "jailed", "search", "page", "limit"})
  BY DEF getValidators, ByPage
<1>3. Asks(getMessages, Dates \cup {"type", "types", "module", "modules", "category",
                "address", "height_from", "height_to", "denom", "limit", "cursor"})
  BY DEF getMessages, FromMessage, ByCursor
<1>4. Asks(StakingMessages, {"page", "limit"})
  BY DEF StakingMessages, ByPage
<1> QED BY <1>1, <1>2, <1>3, <1>4

LEMMA AsksMessagesWith == \A columns : Asks(MessagesWith(columns), {"limit", "cursor"})
  BY DEF MessagesWith, FromMessage, ByCursor, Asks, Takes, Answering, Paging, ++

LEMMA AsksOfChain ==
    /\ Asks(getProposals, Dates \cup {"status", "proposer", "ids", "search", "sort_by",
                                      "sort_order", "page", "limit"})
    /\ Asks(getProposalVotes, Dates \cup {"proposal_id", "voter", "voters", "option", "page",
                                          "limit"})
    /\ Asks(getProposalDeposits, Dates \cup {"proposal_id", "depositor", "depositors", "denom",
                                             "page", "limit"})
    /\ Asks(getTokens, Dates \cup {"name", "names", "sort_by", "sort_order", "page", "limit"})
    /\ Asks(getTokenUnits, Dates \cup {"token_name", "denom", "price_id", "denoms",
                                       "exponent_min", "exponent_max", "page", "limit"})
    /\ Asks(getTokenPrices, Dates \cup {"price_id", "price_ids", "price_min", "price_max",
                                        "page", "limit"})
    /\ Asks(getTokenPriceHistory, Dates \cup {"price_id", "price_ids", "price_min", "price_max",
                                              "page", "limit"})
    /\ Asks(getSupply, Dates \cup {"denom", "denoms", "amount_min", "amount_max", "height_min",
                                   "height_max", "sort_by", "sort_order", "page", "limit"})
<1> USE DEF Asks, Takes, Answering, Paging, ByPageAsGiven, Columns, Dates, ++
<1>1. Asks(getProposals, Dates \cup {"status", "proposer", "ids", "search", "sort_by",
                                      "sort_order", "page", "limit"})
  BY DEF getProposals
<1>2. Asks(getProposalVotes, Dates \cup {"proposal_id", "voter", "voters", "option", "page",
                                          "limit"})
  BY DEF getProposalVotes
<1>3. Asks(getProposalDeposits, Dates \cup {"proposal_id", "depositor", "depositors", "denom",
                                             "page", "limit"})
  BY DEF getProposalDeposits
<1>4. Asks(getTokens, Dates \cup {"name", "names", "sort_by", "sort_order", "page", "limit"})
  BY DEF getTokens
<1>5. Asks(getTokenUnits, Dates \cup {"token_name", "denom", "price_id", "denoms",
                                       "exponent_min", "exponent_max", "page", "limit"})
  BY DEF getTokenUnits
<1>6. /\ Asks(getTokenPrices, Dates \cup {"price_id", "price_ids", "price_min", "price_max",
                                        "page", "limit"})
      /\ Asks(getTokenPriceHistory, Dates \cup {"price_id", "price_ids", "price_min",
                                                "price_max", "page", "limit"})
  BY DEF getTokenPrices, getTokenPriceHistory, PriceFilters
<1>7. Asks(getSupply, Dates \cup {"denom", "denoms", "amount_min", "amount_max", "height_min",
                                   "height_max", "sort_by", "sort_order", "page", "limit"})
  BY DEF getSupply, FromSupply
<1> QED BY <1>1, <1>2, <1>3, <1>4, <1>5, <1>6, <1>7

-----------------------------------------------------------------------------
\* A handler without a query string has no parameters to use.
Uses(h) == h.checked => UsesAll(h)

LEMMA UsesGet ==
    ASSUME NEW path, NEW service
    PROVE  LET h == Get(path, service) IN
               /\ Uses(h) /\ Uses(NotFoundOnError(h)) /\ Uses(NotFoundWhenNull(h))
               /\ \A k : Uses(IntegerAt(k, NotFoundWhenNull(h)))
               /\ \A ttl : /\ Uses(CachedFor(ttl, h)) /\ Uses(CachedFor(ttl, NotFoundOnError(h)))
  BY DEF Get, Uses, NotFoundOnError, NotFoundWhenNull, IntegerAt, CachedFor

\* What the helpers leave of a handler with one.
LEMMA UsesGetWith ==
    ASSUME NEW path, NEW service, NEW dto, NEW documented, NEW h,
           LET plain == GetWith(path, service, dto, documented) IN
               \/ h = plain
               \/ \E ttl : \/ h = CachedFor(ttl, plain)
                           \/ h = CachedFor(ttl, NotFoundOnError(plain))
                           \/ \E p : h = Requiring(p, CachedFor(ttl, plain)),
           WordsKept(dto), NEW names, Asks(Methods[service], names),
           DOMAIN dto \subseteq names \cup Unused(h)
    PROVE  Uses(h)
<1> DEFINE plain == GetWith(path, service, dto, documented)
           Kept(g) == g.service = service /\ g.dto = dto
<1>1. Kept(plain)
  BY DEF Get, GetWith
<1>2. Kept(NotFoundOnError(plain))
  BY <1>1 DEF Get, GetWith, NotFoundOnError
<1>3. \A ttl : Kept(CachedFor(ttl, plain))
  BY <1>1 DEF Get, GetWith, CachedFor
<1>4. \A ttl : Kept(CachedFor(ttl, NotFoundOnError(plain)))
  BY <1>2 DEF Get, GetWith, NotFoundOnError, CachedFor
<1>5. \A ttl, p : Kept(Requiring(p, CachedFor(ttl, plain)))
  BY <1>3 DEF Get, GetWith, CachedFor, Requiring
<1> HIDE DEF plain
<1>6. Kept(h)
  BY <1>1, <1>2, <1>3, <1>4, <1>5 DEF plain
<1> QED BY <1>6, UsedByFirst DEF Uses

LEMMA UsesTransactionController == \A h \in ToSet(TransactionController) : Uses(h)
<1>1. /\ Uses(GetTransaction) /\ Uses(GetTransactionMessages)
      /\ Uses(GetTransactionStatistics)
      /\ Uses(GetGlobalTransactionStatistics) /\ Uses(GetTransactionAnalytics)
  BY UsesGet DEF GetTransaction, GetTransactionMessages, GetTransactionStatistics,
       GetGlobalTransactionStatistics, GetTransactionAnalytics
<1>2. Uses(GetTransactionCounts)
  <2>1. Methods["getTransactionCountsRecent"] = getTransactionCountsRecent
    BY DEF Methods
  <2>2. DOMAIN TransactionCountsQueryDto \subseteq {"period"} \cup Unused(GetTransactionCounts)
    BY UnusedParameters DEF TransactionCountsQueryDto
  <2> QED BY <2>1, <2>2, AsksOfTransactions, WordsOfTransactions, UsesGetWith DEF GetTransactionCounts
<1>3. Uses(GetTransactions)
  <2>1. Methods["getTransactions"] = getTransactions
    BY DEF Methods
  <2>2. DOMAIN TransactionListDto \subseteq {"address", "message_type", "success", "limit", "cursor"} \cup Unused(GetTransactions)
    BY UnusedParameters DEF TransactionListDto
  <2> QED BY <2>1, <2>2, AsksOfTransactions, WordsOfTransactions, UsesGetWith DEF GetTransactions
<1>4. Uses(SearchTransactions)
  <2>1. Methods["searchTransactions"] = searchTransactions
    BY DEF Methods
  <2>2. DOMAIN TransactionSearchDto \subseteq {"q", "limit", "offset"} \cup Unused(SearchTransactions)
    BY UnusedParameters DEF TransactionSearchDto
  <2> QED BY <2>1, <2>2, AsksOfTransactions, WordsOfTransactions, UsesGetWith DEF SearchTransactions
<1>5. Uses(GetTransactionsByMessageType)
  <2>1. Methods["getTransactionsByMessageType"] = getTransactionsByMessageType
    BY DEF Methods
  <2>2. DOMAIN OffsetPaginationDto \subseteq {"limit", "offset"} \cup Unused(GetTransactionsByMessageType)
    BY UnusedParameters DEF OffsetPaginationDto
  <2> QED BY <2>1, <2>2, AsksOfTransactions, WordsOfTransactions, UsesGetWith DEF GetTransactionsByMessageType
<1>6. Uses(GetTransactionsByValidator)
  <2>1. Methods["getTransactionsByValidator"] = getTransactionsByValidator
    BY DEF Methods
  <2>2. DOMAIN OffsetPaginationDto \subseteq {"limit", "offset"} \cup Unused(GetTransactionsByValidator)
    BY UnusedParameters DEF OffsetPaginationDto
  <2> QED BY <2>1, <2>2, AsksOfTransactions, WordsOfTransactions, UsesGetWith DEF GetTransactionsByValidator
<1>7. Uses(GetTransactionsByBlockRange)
  <2>1. Methods["getTransactionsByBlockRange"] = getTransactionsByBlockRange
    BY DEF Methods
  <2>2. DOMAIN OffsetPaginationDto \subseteq {"limit", "offset"} \cup Unused(GetTransactionsByBlockRange)
    BY UnusedParameters DEF OffsetPaginationDto
  <2> QED BY <2>1, <2>2, AsksOfTransactions, WordsOfTransactions, UsesGetWith DEF GetTransactionsByBlockRange
<1>8. Uses(GetTransactionsAdvanced)
  <2>1. Methods["getTransactionsAdvanced"] = getTransactionsAdvanced
    BY DEF Methods
  <2>2. DOMAIN TransactionFilterDto \subseteq
            DOMAIN (GasColumns ++ TransactionOrder)
            \cup {"signer", "message_types", "addresses", "validator", "limit", "offset",
                  "cursor"} \cup Unused(GetTransactionsAdvanced)
    BY UnusedParameters, FiltersOfTransactions DEF TransactionFilterDto, GasFilters, Fees, ++
  <2> QED BY <2>1, <2>2, AsksAdvanced, WordsOfTransactions, UsesGetWith DEF GetTransactionsAdvanced
<1> QED BY <1>1, <1>2, <1>3, <1>4, <1>5, <1>6, <1>7, <1>8
  DEF ToSet, TransactionController

LEMMA UsesAddressController == \A h \in ToSet(AddressController) : Uses(h)
<1>1. /\ Uses(GetAddressInfo) /\ Uses(GetAddressBalance)
      /\ Uses(GetAddressVesting) /\ Uses(GetAddressGovernance)
      /\ Uses(GetAddressTransactionStatistics)
  BY UsesGet DEF GetAddressInfo, GetAddressBalance, GetAddressVesting,
       GetAddressGovernance, GetAddressTransactionStatistics
<1>2. Uses(GetAddressTransactions)
  <2>1. Methods["getAddressTransactions"] = getAddressTransactions
    BY DEF Methods
  <2>2. DOMAIN PaginationDto \subseteq {"limit", "cursor"} \cup Unused(GetAddressTransactions)
    BY UnusedParameters DEF PaginationDto
  <2> QED BY <2>1, <2>2, AsksOfTransactions, WordsOfTransactions, UsesGetWith DEF GetAddressTransactions
<1>3. Uses(GetAddressTransactionsAdvanced)
  <2>1. Methods["getAddressTransactionsAdvanced"] = getAddressTransactionsAdvanced
    BY DEF Methods
  <2>2. DOMAIN AddressTransactionFilterDto \subseteq
            DOMAIN (GasColumns ++ TransactionOrder) \cup {"message_types", "modules",
            "direction", "sender_only", "receiver_only", "search", "limit", "offset",
            "cursor"} \cup Unused(GetAddressTransactionsAdvanced)
    BY UnusedParameters, FiltersOfTransactions DEF AddressTransactionFilterDto, AddressTransactionFilters, AddressTransactionPage, GasFilters, Fees, ++
  <2> QED BY <2>1, <2>2, AsksAdvanced, WordsOfTransactions, UsesGetWith DEF GetAddressTransactionsAdvanced
<1> QED BY <1>1, <1>2, <1>3 DEF ToSet, AddressController

LEMMA UsesMessageController == \A h \in ToSet(MessageController) : Uses(h)
<1>1. /\ Uses(GetMessageTypes) /\ Uses(GetMessageTypeInfo)
      /\ Uses(GetMessageStatistics) /\ Uses(GetMessageModules)
      /\ Uses(GetMessageCategories)
  BY UsesGet DEF GetMessageTypes, GetMessageTypeInfo, GetMessageStatistics,
       GetMessageModules, GetMessageCategories
<1>2. Uses(GetMessages)
  <2>1. Methods["getMessages"] = getMessages
    BY DEF Methods
  <2>2. DOMAIN MessageListDto \subseteq
            (Dates \cup {"type", "types", "module", "modules", "category", "address",
            "height_from", "height_to", "denom", "limit", "cursor"}) \cup
            Unused(GetMessages)
    BY UnusedParameters, ListNames, DateFields DEF Dates
  <2> QED BY <2>1, <2>2, AsksOfLists, WordsOfLists, UsesGetWith DEF GetMessages
<1>3. Uses(GetMessagesByAddress)
  <2>1. Methods["getMessagesByAddress"] = getMessagesByAddress
    BY DEF Methods
  <2>2. DOMAIN PaginationDto \subseteq {"limit", "cursor"} \cup Unused(GetMessagesByAddress)
    BY UnusedParameters DEF PaginationDto
  <2> QED BY <2>1, <2>2, AsksMessagesWith, WordsOfTransactions, UsesGetWith DEF GetMessagesByAddress, getMessagesByAddress
<1>4. Uses(GetMessagesByType)
  <2>1. Methods["getMessagesByType"] = getMessagesByType
    BY DEF Methods
  <2>2. DOMAIN PaginationDto \subseteq {"limit", "cursor"} \cup Unused(GetMessagesByType)
    BY UnusedParameters DEF PaginationDto
  <2> QED BY <2>1, <2>2, AsksMessagesWith, WordsOfTransactions, UsesGetWith DEF GetMessagesByType, getMessagesByType
<1>5. Uses(SearchMessages)
  <2>1. Methods["searchMessages"] = searchMessages
    BY DEF Methods
  <2>2. DOMAIN PaginationDto \subseteq {"limit", "cursor"} \cup Unused(SearchMessages)
    BY UnusedParameters DEF PaginationDto
  <2> QED BY <2>1, <2>2, AsksMessagesWith, WordsOfTransactions, UsesGetWith DEF SearchMessages, searchMessages
<1> QED BY <1>1, <1>2, <1>3, <1>4, <1>5 DEF ToSet, MessageController

LEMMA UsesBlockController == \A h \in ToSet(BlockController) : Uses(h)
<1>1. /\ Uses(GetBlockByHeight) /\ Uses(GetBlockByHash)
  BY UsesGet DEF GetBlockByHeight, GetBlockByHash
<1>2. Uses(GetBlocks)
  <2>1. Methods["getBlocks"] = getBlocks
    BY DEF Methods
  <2>2. DOMAIN BlockListDto \subseteq
            (Dates \cup {"proposer", "min_txs", "max_txs", "limit", "cursor"}) \cup
            Unused(GetBlocks)
    BY UnusedParameters, ListNames, DateFields DEF Dates
  <2> QED BY <2>1, <2>2, AsksOfLists, WordsOfLists, UsesGetWith DEF GetBlocks
<1> QED BY <1>1, <1>2 DEF ToSet, BlockController

LEMMA UsesSupplyAndGenesisControllers ==
    \A h \in ToSet(SupplyController) \cup ToSet(GenesisController) : Uses(h)
<1>1. /\ Uses(GetLatestSupply) /\ Uses(GetSupplyByDenom)
      /\ Uses(GetSupplyStatistics) /\ Uses(GetGenesis)
      /\ Uses(GetGenesisByHeight)
  BY UsesGet DEF GetLatestSupply, GetSupplyByDenom, GetSupplyStatistics, GetGenesis,
       GetGenesisByHeight
<1>2. Uses(GetSupply)
  <2>1. Methods["getSupply"] = getSupply
    BY DEF Methods
  <2>2. DOMAIN SupplyListDto \subseteq
            (Dates \cup {"denom", "denoms", "amount_min", "amount_max", "height_min",
            "height_max", "sort_by", "sort_order", "page", "limit"}) \cup
            Unused(GetSupply)
    BY UnusedParameters, ListNames, DateFields DEF Dates
  <2> QED BY <2>1, <2>2, AsksOfChain, WordsOfLists, UsesGetWith DEF GetSupply
<1> QED BY <1>1, <1>2 DEF ToSet, SupplyController, GenesisController

LEMMA UsesValidatorController == \A h \in ToSet(ValidatorController) : Uses(h)
<1>1. /\ Uses(GetValidator) /\ Uses(GetValidatorDescription)
      /\ Uses(GetValidatorCommission) /\ Uses(GetValidatorVotingPower)
      /\ Uses(GetValidatorStatus) /\ Uses(GetValidatorStatistics)
      /\ Uses(GetValidatorActivity)
  BY UsesGet DEF GetValidator, GetValidatorDescription, GetValidatorCommission,
       GetValidatorVotingPower, GetValidatorStatus, GetValidatorStatistics,
       GetValidatorActivity
<1>2. Uses(GetValidators)
  <2>1. Methods["getValidators"] = getValidators
    BY DEF Methods
  <2>2. DOMAIN ValidatorListDto \subseteq
            {"status", "jailed", "search", "page", "limit"} \cup Unused(GetValidators)
    BY UnusedParameters DEF ValidatorListDto
  <2> QED BY <2>1, <2>2, AsksOfLists, WordsOfTransactions, UsesGetWith DEF GetValidators
<1> QED BY <1>1, <1>2 DEF ToSet, ValidatorController

LEMMA UsesStakingController == \A h \in ToSet(StakingController) : Uses(h)
<1>1. /\ Uses(GetStakingPool) /\ Uses(GetStakingParams)
      /\ Uses(GetValidatorSigningInfo) /\ Uses(GetAllValidatorSigningInfo)
      /\ Uses(GetCommunityPool) /\ Uses(GetDistributionParams)
      /\ Uses(GetSlashingParams) /\ Uses(GetMintParams)
      /\ Uses(GetInflation) /\ Uses(GetGovParams)
      /\ Uses(GetStakingStatistics)
  BY UsesGet DEF GetStakingPool, GetStakingParams, GetValidatorSigningInfo,
       GetAllValidatorSigningInfo, GetCommunityPool, GetDistributionParams,
       GetSlashingParams, GetMintParams, GetInflation, GetGovParams, GetStakingStatistics
<1>2. \A s \in OfStaking : Methods[s] = StakingMessages
  BY DEF OfStaking, Methods, getDelegationsByAddress, getDelegationsByValidator,
       getUndelegationsByAddress, getUndelegationsByValidator, getRedelegationsByAddress,
       getWithdrawalsByAddress, getWithdrawalsByValidator
<1>3. ASSUME NEW path, NEW s \in OfStaking
      PROVE  Uses(GetWith(path, s, PaginationDto, {"limit", "offset"}))
  <2> DEFINE h == GetWith(path, s, PaginationDto, {"limit", "offset"})
  <2>1. h.service = s
    BY DEF Get, GetWith
  <2>2. Unused(h) = {"cursor"}
    BY <1>3, <2>1, UnusedParameters
  <2> HIDE DEF h
  <2>3. DOMAIN PaginationDto \subseteq {"page", "limit"} \cup Unused(h)
    BY <2>2 DEF PaginationDto
  <2> QED BY <1>2, <1>3, <2>3, AsksOfLists, WordsOfTransactions, UsesGetWith DEF h
<1>4. /\ Uses(GetDelegationsByAddress) /\ Uses(GetDelegationsByValidator)
      /\ Uses(GetUndelegationsByAddress) /\ Uses(GetUndelegationsByValidator)
      /\ Uses(GetRedelegationsByAddress) /\ Uses(GetWithdrawalsByAddress)
      /\ Uses(GetWithdrawalsByValidator)
  BY <1>3 DEF OfStaking, GetDelegationsByAddress, GetDelegationsByValidator,
       GetUndelegationsByAddress, GetUndelegationsByValidator, GetRedelegationsByAddress,
       GetWithdrawalsByAddress, GetWithdrawalsByValidator
<1> QED BY <1>1, <1>4 DEF ToSet, StakingController

LEMMA UsesGovernanceController == \A h \in ToSet(GovernanceController) : Uses(h)
<1>1. /\ Uses(GetProposalById) /\ Uses(GetGovernanceStatistics)
  BY UsesGet DEF GetProposalById, GetGovernanceStatistics
<1>2. Uses(GetProposals)
  <2>1. Methods["getProposals"] = getProposals
    BY DEF Methods
  <2>2. DOMAIN ProposalListDto \subseteq
            (Dates \cup {"status", "proposer", "ids", "search", "sort_by", "sort_order",
            "page", "limit"}) \cup Unused(GetProposals)
    BY UnusedParameters, ListNames, DateFields DEF Dates
  <2> QED BY <2>1, <2>2, AsksOfChain, WordsOfLists, UsesGetWith DEF GetProposals
<1>3. Uses(GetProposalVotes)
  <2>1. Methods["getProposalVotes"] = getProposalVotes
    BY DEF Methods
  <2>2. DOMAIN ProposalVoteListDto \subseteq
            (Dates \cup {"proposal_id", "voter", "voters", "option", "page", "limit"})
            \cup Unused(GetProposalVotes)
    BY UnusedParameters, ListNames, DateFields DEF Dates
  <2> QED BY <2>1, <2>2, AsksOfChain, WordsOfLists, UsesGetWith DEF GetProposalVotes
<1>4. Uses(GetProposalDeposits)
  <2>1. Methods["getProposalDeposits"] = getProposalDeposits
    BY DEF Methods
  <2>2. DOMAIN ProposalDepositListDto \subseteq
            (Dates \cup {"proposal_id", "depositor", "depositors", "denom", "page",
            "limit"}) \cup Unused(GetProposalDeposits)
    BY UnusedParameters, ListNames, DateFields DEF Dates
  <2> QED BY <2>1, <2>2, AsksOfChain, WordsOfLists, UsesGetWith DEF GetProposalDeposits
<1> QED BY <1>1, <1>2, <1>3, <1>4 DEF ToSet, GovernanceController

LEMMA UsesTokenController == \A h \in ToSet(TokenController) : Uses(h)
<1>1. /\ Uses(GetTokenByName) /\ Uses(GetTokenStatistics)
  BY UsesGet DEF GetTokenByName, GetTokenStatistics
<1>2. Uses(GetTokens)
  <2>1. Methods["getTokens"] = getTokens
    BY DEF Methods
  <2>2. DOMAIN TokenListDto \subseteq
            (Dates \cup {"name", "names", "sort_by", "sort_order", "page", "limit"}) \cup
            Unused(GetTokens)
    BY UnusedParameters, ListNames, DateFields DEF Dates
  <2> QED BY <2>1, <2>2, AsksOfChain, WordsOfLists, UsesGetWith DEF GetTokens
<1>3. Uses(GetTokenUnits)
  <2>1. Methods["getTokenUnits"] = getTokenUnits
    BY DEF Methods
  <2>2. DOMAIN TokenUnitListDto \subseteq
            (Dates \cup {"token_name", "denom", "price_id", "denoms", "exponent_min",
            "exponent_max", "page", "limit"}) \cup Unused(GetTokenUnits)
    BY UnusedParameters, ListNames, DateFields DEF Dates
  <2> QED BY <2>1, <2>2, AsksOfChain, WordsOfLists, UsesGetWith DEF GetTokenUnits
<1>4. Uses(GetTokenPrices)
  <2>1. Methods["getTokenPrices"] = getTokenPrices
    BY DEF Methods
  <2>2. DOMAIN TokenPriceListDto \subseteq
            (Dates \cup {"price_id", "price_ids", "price_min", "price_max", "page",
            "limit"}) \cup Unused(GetTokenPrices)
    BY UnusedParameters, ListNames, DateFields DEF Dates
  <2> QED BY <2>1, <2>2, AsksOfChain, WordsOfLists, UsesGetWith DEF GetTokenPrices
<1>5. Uses(GetTokenPriceHistory)
  <2>1. Methods["getTokenPriceHistory"] = getTokenPriceHistory
    BY DEF Methods
  <2>2. DOMAIN TokenPriceHistoryListDto \subseteq
            (Dates \cup {"price_id", "price_ids", "price_min", "price_max", "page",
            "limit"}) \cup Unused(GetTokenPriceHistory)
    BY UnusedParameters, ListNames, DateFields DEF Dates, TokenPriceHistoryListDto
  <2> QED BY <2>1, <2>2, AsksOfChain, WordsOfLists, UsesGetWith DEF GetTokenPriceHistory, TokenPriceHistoryListDto
<1> QED BY <1>1, <1>2, <1>3, <1>4, <1>5 DEF ToSet, TokenController

\* Every handler has a use for all it takes, but for what Unused lists.
LEMMA HandlersUse == \A i \in DOMAIN Handlers : Uses(Handlers[i])
<1>1. \A h \in ToSet(Handlers) : Uses(h)
  BY HandlersOfControllers, UsesTransactionController, UsesAddressController,
     UsesMessageController, UsesBlockController, UsesSupplyAndGenesisControllers,
     UsesValidatorController, UsesStakingController, UsesGovernanceController,
     UsesTokenController
<1> QED BY <1>1 DEF ToSet

-----------------------------------------------------------------------------
\* What a request that a handler serves was given, and what the handler sees of it.
LEMMA LetThrough ==
    ASSUME IInv, stage = "querying", handler = request.serving, params # << >>
    PROVE  /\ Documented.checked /\ Validated(Documented.dto, request.given)
           /\ params = Transformed(Documented.dto, request.given)
  BY DEF IInv, Served, ParamsOf, Documented

\* A parameter that is not set aside decides by itself, or with those given beside it.
LEMMA NotOverridden ==
    ASSUME NEW p, p \in Given, p \notin Overridden
    PROVE  /\ p = "cursor" /\ "sort_by" \in Given => request.given["sort_by"].word = "height"
           /\ p = "offset" =>
                  \/ "cursor" \notin Given
                  \/ "sort_by" \in Given /\ request.given["sort_by"].word # "height"
           /\ p \in {"relative_value", "relative_unit"} =>
                  {"relative_value", "relative_unit"} \subseteq Given
<1>1. CASE p = "cursor"
  BY <1>1 DEF Overridden
<1>2. CASE p = "offset"
  BY <1>2 DEF Overridden
<1>3. CASE p \in {"relative_value", "relative_unit"}
  BY <1>3 DEF Overridden
<1> QED BY <1>1, <1>2, <1>3

\* A handler that is reached as documented has a use for every parameter it lets
\* through, but for those the README lists: some query of its method filters, orders or
\* cuts by the parameter, and with the value that was given unless that is "false".
\* The request may give any number of parameters, with any values that the DTO accepts,
\* once a truth value, a module and a direction are written as documented.
THEOREM ParametersApply == ValuesAsDocumented => (Spec => []AcceptedParametersApply)
<1> SUFFICES ASSUME ValuesAsDocumented PROVE Spec => []AcceptedParametersApply
  OBVIOUS
<1>1. ASSUME IInv, stage = "querying", handler = request.serving,
             NEW p \in (DOMAIN params \cap Given)
                       \ (Unused(Documented) \cup Overridden \cup Dropped)
      PROVE  /\ \E i \in DOMAIN Methods[Documented.service].queries :
                    p \in Effective(Methods[Documented.service].queries[i], params)
             /\ params[p] = request.given[p] \/ request.given[p] = WrittenWord("false")
  <2>1. /\ Documented.checked /\ Validated(Documented.dto, request.given)
        /\ params = Transformed(Documented.dto, request.given)
    BY <1>1, LetThrough
  <2>2. p \in DOMAIN Documented.dto
    BY <1>1, <2>1 DEF Transformed
  <2>3. "sort_by" \in Given => "sort_by" \in DOMAIN Documented.dto
    BY <2>1 DEF Validated, Getters, Given
  <2>4. /\ request \in Requests /\ Documented = Handlers[request.serving]
        /\ request.serving \in DOMAIN Handlers
    BY <1>1, RequestsAssumption DEF IInv, Served, Documented
  <2>5. /\ Documented.dto[p].check \in {"boolean", "flag"} =>
               request.given[p] \in {WrittenWord("true"), WrittenWord("false")}
        /\ p = "module" => request.given[p].word \in ParsedModules
        /\ p = "direction" => request.given[p].word \in {"sent", "received", "both"}
    BY <1>1, <2>2, <2>4 DEF ValuesAsDocumented, Given
  <2>6. UsesAll(Documented)
    BY <2>1, <2>4, HandlersUse DEF Uses
  <2>7. \A r \in {p, "relative_value", "relative_unit"} \cap Given :
            ~FiltersNothing(r, request.given[r])
    BY <1>1 DEF Dropped, FiltersNothing, TestedForTruth
  <2>8. \E i \in DOMAIN Methods[Documented.service].queries :
            p \in Effective(Methods[Documented.service].queries[i], params)
    BY <1>1, <2>1, <2>2, <2>3, <2>5, <2>6, <2>7, NotOverridden, ParametersUsed DEF Given
  <2>9. params[p] = request.given[p] \/ request.given[p] = WrittenWord("false")
    BY <1>1, <2>1, <2>5 DEF Transformed, Converted, Given
  <2> QED BY <2>8, <2>9
<1>2. IInv => AcceptedParametersApply
  BY <1>1 DEF AcceptedParametersApply
<1> QED BY <1>2, IInvInit, IInvStep, PTL DEF Spec
=============================================================================
