--------------------------- MODULE MCMarketPages ----------------------------
(* Constants for model checking MarketPages. *)
EXTENDS MarketPages, TLC

MCSymmetry ==
  Permutations(User) \cup Permutations(BetId) \cup Permutations(ListingId)
  \cup Permutations(Reader)

\* Bounds on what goes on at one time.  Pages do not read the cache and the calls
\* that fill it do not read pages: while a page is open, those calls are all lost and
\* nothing is ever cached.  Two calls fill the cache only while bets are taken: later
\* the pools stay as they are.
MCBusy == {r \in Reader : slot[r].kind # "free"}
MCOneSort ==
  \/ /\ \A r \in MCBusy : slot[r].kind = "odds"
     /\ Cardinality(MCBusy) > 1 => \A m \in Market : status[m] = "OPEN"
  \/ /\ Cardinality(MCBusy) = 1
     /\ disturbed = Created /\ odds = [m \in Market |-> NoOdds]
=============================================================================
