------------------------- MODULE KaipanlaEndpoints -------------------------
(***************************************************************************)
(* What the features of kaipanla_crawler.py give back, by what the requests *)
(* they send are answered with.  The data are left out; what matters to the *)
(* callers is whether a failure can be seen in the result.  Each feature is *)
(* an operator on the answer of its request, or on a function of answers    *)
(* where it sends several.                                                 *)
(***************************************************************************)
EXTENDS Naturals, FiniteSets

\* Data; a well-formed answer without data; an error code; no usable answer
\* (connection, HTTP status, text that is not JSON).
Answers == {"rows", "bare", "refused", "failed"}

\* Data; an empty table, list or record; a record of zeros; a record that says
\* success: False; an exception.
Results == {"rows", "blank", "zeros", "marked", "raises"}

-----------------------------------------------------------------------------
(* The ways of dealing with an answer *)

Quiet(a)  == IF a = "rows" THEN "rows" ELSE "blank"
Zeroed(a) == IF a = "rows" THEN "rows" ELSE "zeros"
\* Numbers are read from a well-formed answer whatever it holds.
Counted(a) == CASE a = "rows" -> "rows" [] a = "bare" -> "zeros" [] OTHER -> "blank"
Marked(a) == IF a = "rows" THEN "rows" ELSE "marked"
Loud(a)   == IF a = "rows" THEN "rows" ELSE "raises"

\* _request swallows every exception and does not look at the error code, so
\* an error is to its callers an answer without the fields they look for.
Received(a) == CASE a = "failed" -> "nothing" [] a = "rows" -> "rows" [] OTHER -> "fields"

\* Some parts answered, the others silently left out.
AnyRows(answers, quiet) ==
  IF \E i \in DOMAIN answers : answers[i] = "rows" THEN "rows" ELSE quiet

\* Pages are asked for until one is not full, is empty or fails: the pages
\* before that one, and its own rows.
PagesRead(page, most) ==
  CHOOSE n \in 0 .. most :
    /\ \A k \in 1 .. n : page[k] \in {"full", "short"}
    /\ \A k \in 1 .. n : k < n => page[k] = "full"
    /\ n = most \/ (n > 0 /\ page[n] = "short") \/ page[n + 1] \in {"empty", "failed"}

-----------------------------------------------------------------------------
(* Historical figures *)

DailyPart(a) == IF Received(a) = "rows" THEN "rows" ELSE "zeros"

\* Four requests, one record: each part stands for itself.
DailyData(parts) == AnyRows([i \in DOMAIN parts |-> DailyPart(parts[i])], "zeros")

\* A range of days keeps the days with limit-ups only, so a day that failed is
\* dropped like a holiday.
DailyRange(days) == {d \in DOMAIN days : DailyPart(days[d]) = "rows"}

\* The figure of the day asked for, which the series may not have.
NewHighData(a, hasDay) == IF a = "rows" /\ ~hasDay THEN "blank" ELSE Quiet(a)

MarketSentiment(a) ==
  CASE Received(a) = "rows" -> "rows" [] Received(a) = "nothing" -> "blank" [] OTHER -> "zeros"
MarketIndex(a)     == Quiet(a)
LimitUpLadder(a)   == Quiet(a)
SharpWithdrawal(a) == Quiet(a)

\* The summary of an answer without sectors is kept.
SectorRanking(a) == Counted(a)

\* One request per height, from the highest down; a height whose request fails
\* is passed over, and the highest of the others is the day's.
ConsecutiveLimitUp(answered, occupied) ==
  LET seen == answered \cap occupied IN
  IF seen = {} THEN 0 ELSE CHOOSE h \in seen : \A g \in seen : g <= h

SectorLimitUpLadder(a)    == Quiet(a)
MarketLimitUpLadder(a)    == Zeroed(a)
HistoricalBroken(a)       == Quiet(a)
SectorCapitalData(a)      == Quiet(a)

\* Twice as many days are looked at as asked for; days without data count as
\* holidays, so a day that fails is replaced by an older one.
StrengthNDays(day, num) ==
  LET good == {i \in DOMAIN day : SectorRanking(day[i]) = "rows"} IN
  {i \in good : Cardinality({j \in good : j < i}) < num}

-----------------------------------------------------------------------------
(* Live figures *)

MarketMood(a)        == Counted(a)
ActualLimitUpDown(a) == Counted(a)
BoardStocks(a)       == Quiet(a)
\* Five boards; one that fails counts as empty.
AllBoards(boards)    == AnyRows(boards, "zeros")
CountAndList(a)      == BoardStocks(a)
IndexTrend(a)        == Counted(a)
IndexList(a)         == CASE a = "rows" -> "rows" [] a = "bare" -> "blank" [] OTHER -> "raises"
RealtimeWithdrawal(a) == Counted(a)
\* The two trends added to it count as 0 where they fail.
RiseFallAnalysis(a)  == Quiet(a)

-----------------------------------------------------------------------------
(* Figures of a day by the minute *)

SectorIntraday(a)   == Quiet(a)
VolumeTurnover(a)   == Quiet(a)
StockIntraday(a)    == Quiet(a)
BigOrderIntraday(a) == Quiet(a)
IndexIntraday(a)    == Quiet(a)

-----------------------------------------------------------------------------
(* News, strength, lists *)

PlateNews(a)              == Quiet(a)
\* A page that is not full does not end it.
PlateNewsPages(page, most) ==
  PagesRead([k \in DOMAIN page |-> IF page[k] = "short" THEN "full" ELSE page[k]], most)
ThsHotRank(found)         == IF found = {} THEN "raises" ELSE "rows"
SectorStrength(a)         == Marked(a)
MultipleStrength(sectors) == [s \in DOMAIN sectors |-> SectorStrength(sectors[s])]

\* Successful if one day of the range is; the others are listed as errors.
StrengthHistory(day) ==
  [days   |-> {d \in DOMAIN day : SectorStrength(day[d]) = "rows"},
   errors |-> {d \in DOMAIN day : SectorStrength(day[d]) = "marked"}]
StrengthTable(day) == IF StrengthHistory(day).days = {} THEN "blank" ELSE "rows"

LonghubangList(a)    == Quiet(a)
LonghubangDetail(a)  == Counted(a)
LonghubangTable(a)   == LonghubangList(a)
Constituents(a)      == Quiet(a)
AllStocksPages(page, most) == PagesRead(page, most)
BiddingAnomaly(a)    == Quiet(a)
EtfRanking(a)        == Quiet(a)
AllEtfPages(page, most) == PagesRead(page, most)

\* A second try after a failed connection, and an exception for everything but
\* ticks of the auction.
CallAuctionTick(first, second) == Loud(IF first = "failed" THEN second ELSE first)

\* The features with a request of their own, and those among them whose failure
\* a caller notices.
Single(f, a) ==
  CASE f = "new_high_data"            -> NewHighData(a, TRUE)
    [] f = "market_sentiment"         -> MarketSentiment(a)
    [] f = "market_index"             -> MarketIndex(a)
    [] f = "limit_up_ladder"          -> LimitUpLadder(a)
    [] f = "sharp_withdrawal"         -> SharpWithdrawal(a)
    [] f = "sector_ranking"           -> SectorRanking(a)
    [] f = "sector_limit_up_ladder"   -> SectorLimitUpLadder(a)
    [] f = "market_limit_up_ladder"   -> MarketLimitUpLadder(a)
    [] f = "historical_broken_limit_up" -> HistoricalBroken(a)
    [] f = "sector_capital_data"      -> SectorCapitalData(a)
    [] f = "realtime_market_mood"     -> MarketMood(a)
    [] f = "realtime_actual_limit_up_down" -> ActualLimitUpDown(a)
    [] f = "realtime_board_stocks"    -> BoardStocks(a)
    [] f = "board_stocks_count_and_list" -> CountAndList(a)
    [] f = "realtime_index_trend"     -> IndexTrend(a)
    [] f = "realtime_index_list"      -> IndexList(a)
    [] f = "realtime_sharp_withdrawal" -> RealtimeWithdrawal(a)
    [] f = "realtime_rise_fall_analysis" -> RiseFallAnalysis(a)
    [] f = "sector_intraday"          -> SectorIntraday(a)
    [] f = "sector_volume_turnover"   -> VolumeTurnover(a)
    [] f = "stock_intraday"           -> StockIntraday(a)
    [] f = "stock_big_order_intraday" -> BigOrderIntraday(a)
    [] f = "index_intraday"           -> IndexIntraday(a)
    [] f = "plate_news"               -> PlateNews(a)
    [] f = "sector_strength"          -> SectorStrength(a)
    [] f = "longhubang_stock_list"    -> LonghubangList(a)
    [] f = "longhubang_stock_detail"  -> LonghubangDetail(a)
    [] f = "longhubang_dataframe"     -> LonghubangTable(a)
    [] f = "sector_constituent_stocks" -> Constituents(a)
    [] f = "sector_bidding_anomaly"   -> BiddingAnomaly(a)
    [] f = "etf_ranking"              -> EtfRanking(a)
    [] f = "stock_call_auction_tick"  -> CallAuctionTick(a, a)

SingleFeatures ==
  {"new_high_data", "market_sentiment", "market_index", "limit_up_ladder",
   "sharp_withdrawal", "sector_ranking", "sector_limit_up_ladder",
   "market_limit_up_ladder", "historical_broken_limit_up", "sector_capital_data",
   "realtime_market_mood", "realtime_actual_limit_up_down", "realtime_board_stocks",
   "board_stocks_count_and_list", "realtime_index_trend", "realtime_index_list",
   "realtime_sharp_withdrawal", "realtime_rise_fall_analysis", "sector_intraday",
   "sector_volume_turnover", "stock_intraday", "stock_big_order_intraday",
   "index_intraday", "plate_news", "sector_strength", "longhubang_stock_list",
   "longhubang_stock_detail", "longhubang_dataframe", "sector_constituent_stocks",
   "sector_bidding_anomaly", "etf_ranking", "stock_call_auction_tick"}

Raising == {"realtime_index_list", "stock_call_auction_tick"}

=============================================================================
