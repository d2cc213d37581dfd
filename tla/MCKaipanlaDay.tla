--------------------------- MODULE MCKaipanlaDay ---------------------------
EXTENDS KaipanlaDay
Lists == {<<"daily_data", "stock_call_auction_tick">>,
          <<"consecutive_limit_up">>}
=============================================================================
