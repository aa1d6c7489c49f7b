---------------------------- MODULE MCNewsPipeline ----------------------------
(* Small instances of NewsPipeline for TLC: keywords and weights of          *)
(* rss_news_pipeline.py.                                                     *)
EXTENDS NewsPipeline

CONSTANTS btc, eth, coindesk, decrypt

TwoSymbols == <<btc, eth>>

TwoFeeds == <<coindesk, decrypt>>

Weights == [hack |-> 18, bankruptcy |-> 20, approval |-> -8, inflow |-> -4]

\* A disaster named for both symbols, and good news on the market that has no
\* date: it is stored again every hour.
TwoArticles ==
  {[feed |-> coindesk, published |-> 0, symbols |-> {btc, eth}, market |-> TRUE,
    keywords |-> {"hack", "bankruptcy"}],
   [feed |-> decrypt, published |-> Undated, symbols |-> {}, market |-> TRUE,
    keywords |-> {"approval", "inflow"}]}

=============================================================================
