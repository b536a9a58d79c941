---------------------------- MODULE MarketPages -----------------------------
(***************************************************************************)
(* What is read of the betting engine while it works on.  Nothing is read   *)
(* in a transaction: bet-backend reads a market's row and its pools in two   *)
(* queries, and a page of general-backend is put together from the answers   *)
(* to several requests, so commits come between any two of them.             *)
(*                                                                          *)
(* Two sorts of calls read.  CreateMarket, PlaceBet and BuyListedBet read    *)
(* the market back after their commit and cache its odds in Redis; browsers  *)
(* open pages.  Each has a slot of Reader while it lasts, a page until the   *)
(* browser leaves it.  The odds stand for the pools they are computed from.  *)
(***************************************************************************)
EXTENDS BetEngine, Sequences

CONSTANTS
  Reader,    \* bound on the calls that read at one time
  NoOdds     \* no such key in Redis

VARIABLES
  seedOf,    \* markets.seed
  slot,      \* the call or page of each reader
  odds,      \* Redis, market:<id>:odds
  disturbed  \* history: markets whose odds overlapping or lost calls have left

pageVars == <<seedOf, slot, odds, disturbed>>
allVars == <<vars, seedOf, slot, odds, disturbed>>

NoItem == "none"

ASSUME ItemAssumption == NoItem \notin Market \cup BetId

Blank == [x \in {} |-> NoItem]
With(f, x, y) == [z \in {x} \cup DOMAIN f |-> IF z = x THEN y ELSE f[z]]

\* The items it still asks for, the one it asks for, the queries that are left and
\* their answers so far, and what it keeps of each item.
Slot(kind, items) == [kind |-> kind, left |-> items, item |-> NoItem, todo |-> <<>>,
                      got |-> Blank, read |-> Blank]
Free == Slot("free", {})
Put(r, s) == slot' = [slot EXCEPT ![r] = s]

PageInit ==
  /\ Init
  /\ seedOf = [m \in Market |-> 0]
  /\ slot = [r \in Reader |-> Free]
  /\ odds = [m \in Market |-> NoOdds]
  /\ disturbed = {}

-----------------------------------------------------------------------------
(* Queries *)

\* Mutant: GetMarketDetails reads the pools before the market's row.
PoolsFirst == <<"pools", "market">>
DetailsQueries == <<"market", "pools">>

\* Mutant: the page reads the bets before it reads the market.
BetsFirst == <<"bets", "market", "pools">>
DetailPageQueries == <<"market", "pools", "bets">>

Queries(kind) == IF kind = "detail" THEN DetailPageQueries ELSE DetailsQueries

\* What a query returns; of the bets, what the page makes of them: who has bet,
\* the house apart, and the stakes that its sparkline adds up.
ResultOf(m, query) ==
  CASE query = "market" -> 
         [status |-> status[m], outcomes |-> outcomes[m], seed |-> seedOf[m]]
    [] query = "pools"  -> pool[m]
    [] query = "bets"   ->
         [bettors |-> {bet[b].owner : b \in BetsOf(m)} \ {House},
          plotted |-> [o \in Outcome |-> StakeSum({b \in BetsOf(m) : bet[b].outcome = o})]]

\* The details d are the answers by their queries.
Volume(d) == SumFunctionOnSet(d.pools, d.market.outcomes)

SeedTotal(d) == d.market.seed * Cardinality(d.market.outcomes)

\* Mutant: a market with nothing but its seeds counts as one with bets.
AnyBets(d) == Volume(d) >= SeedTotal(d)
HasRealBets(d) == Volume(d) > SeedTotal(d)
IsLive(d) == d.market.status = "OPEN" /\ HasRealBets(d)

-----------------------------------------------------------------------------
(* Calls that read: the details of one item after the other *)

Reads(s, i) == [s EXCEPT !.item = i, !.todo = Queries(s.kind), !.left = @ \ {i}]
Begins(r, s) == slot[r] = Free /\ Put(r, s)

MarketOf(s) == IF s.kind = "profile" THEN bet[s.item].market ELSE s.item

\* Mutant: the profile asks for the market of every bet anew.
NeverFetched(s, b) == {}
\* The bets of the history whose market has been asked for.
Fetched(s, b) == {k \in DOMAIN s.read : bet[k].market = bet[b].market}

Fetch(r) ==
  LET s == slot[r] IN
  /\ s.kind # "free" /\ s.item = NoItem
  /\ \E i \in s.left :
       LET memo == IF s.kind = "profile" THEN Fetched(s, i) ELSE {}
       IN IF memo = {}
          THEN Put(r, Reads(s, i))
          ELSE \E k \in memo :
                 Put(r, [s EXCEPT !.left = @ \ {i}, !.read = With(@, i, s.read[k])])
  /\ UNCHANGED <<vars, seedOf, odds, disturbed>>

\* What a call keeps of the details: home shows cards of open markets only, and a
\* history the status.
Kept(s, d) ==
  CASE s.kind = "odds"    -> [pools |-> d.pools]
    [] s.kind = "profile" -> [status |-> d.market.status]
    [] s.kind = "admin"   -> [status |-> d.market.status, pools |-> d.pools]
    [] s.kind = "home"    -> [live |-> IsLive(d)]
    [] s.kind = "detail"  ->
         [status |-> d.market.status, pools |-> d.pools, live |-> IsLive(d),
          bettors |-> d.bets.bettors, plotted |-> d.bets.plotted]
Keeps(s, d) == s.kind = "home" => d.market.status = "OPEN"

Request(r) ==
  LET s == slot[r] IN
  /\ s.kind # "free" /\ s.item # NoItem
  /\ LET d == With(s.got, Head(s.todo), ResultOf(MarketOf(s), Head(s.todo))) IN
       IF Len(s.todo) > 1
       THEN Put(r, [s EXCEPT !.todo = Tail(@), !.got = d])
       ELSE Put(r, [s EXCEPT !.todo = <<>>, !.got = Blank, !.item = NoItem, !.read =
                      IF Keeps(s, d) THEN With(@, s.item, Kept(s, d)) ELSE @])
  /\ UNCHANGED <<vars, seedOf, odds, disturbed>>

Done(s) == s.item = NoItem /\ s.left = {}

-----------------------------------------------------------------------------
(* Odds *)

Caches(s, m) == s.kind = "odds" /\ m \in {s.item} \cup DOMAIN s.read
Caching(m) == {r \in Reader : Caches(slot[r], m)}

\* Mutant: the odds are computed from what was read before the commit.
CacheEarlier(r, m) ==
  /\ Begins(r, [Slot("odds", {}) EXCEPT !.read = With(@, m, [pools |-> pool[m]])])
  /\ disturbed' = IF Caching(m) = {} THEN disturbed \ {m} ELSE disturbed \cup {m}
  /\ UNCHANGED odds

\* After its commit the call goes on to CalculateAndCacheOdds, or fails at its first
\* query.
ThenCache(r, m) ==
  \/ /\ Begins(r, Reads(Slot("odds", {}), m))
     /\ disturbed' = IF Caching(m) = {} THEN disturbed \ {m} ELSE disturbed \cup {m}
     /\ UNCHANGED odds
  \/ /\ disturbed' = disturbed \cup {m}
     /\ UNCHANGED <<slot, odds>>

CacheOdds(r) ==
  /\ slot[r].kind = "odds" /\ Done(slot[r])
  /\ odds' = [m \in Market |-> IF m \in DOMAIN slot[r].read
                               THEN slot[r].read[m].pools ELSE odds[m]]
  /\ Put(r, Free)
  /\ UNCHANGED <<vars, seedOf, disturbed>>

\* A query fails, Redis does, or the process stops: the bet stands all the same.
OddsLost(r) ==
  /\ slot[r].kind = "odds"
  /\ disturbed' = disturbed \cup {m \in Market : r \in Caching(m)}
  /\ Put(r, Free)
  /\ UNCHANGED <<vars, seedOf, odds>>

\* The key lives for 24 hours.
Expire(m) ==
  /\ odds[m] # NoOdds
  /\ odds' = [odds EXCEPT ![m] = NoOdds]
  /\ UNCHANGED <<vars, seedOf, slot, disturbed>>

-----------------------------------------------------------------------------
(* Pages *)

Created == {m \in Market : status[m] # "NONE"}

OpenDetail(r, m) ==
  /\ m \in Created
  /\ Begins(r, Reads(Slot("detail", {}), m))
  /\ UNCHANGED <<vars, seedOf, odds, disturbed>>
OpenHome(r) == Begins(r, Slot("home", Created)) /\ UNCHANGED <<vars, seedOf, odds, disturbed>>
OpenAdmin(r) == Begins(r, Slot("admin", Created)) /\ UNCHANGED <<vars, seedOf, odds, disturbed>>
OpenProfile(r, u) ==
  /\ Begins(r, Slot("profile", {b \in Bets : bet[b].owner = u}))
  /\ UNCHANGED <<vars, seedOf, odds, disturbed>>

\* The profile goes on without the details that it could not get.
Unknown(r) ==
  LET s == slot[r] IN
  /\ s.kind = "profile" /\ s.item # NoItem
  /\ Put(r, [s EXCEPT !.todo = <<>>, !.got = Blank, !.item = NoItem,
                      !.read = With(@, s.item, [status |-> ""])])
  /\ UNCHANGED <<vars, seedOf, odds, disturbed>>

\* Another page fails with its query, and a browser leaves a page.
Leave(r) ==
  /\ slot[r].kind \notin {"free", "odds"}
  /\ Put(r, Free)
  /\ UNCHANGED <<vars, seedOf, odds, disturbed>>

-----------------------------------------------------------------------------
CreateThenCache(r) ==
  \E m \in Market, outs \in SUBSET Outcome, seed \in Seeds :
    \E ids \in SeedIds(outs, seed) :
      /\ CreateMarket(m, outs, seed, ids)
      /\ seedOf' = [seedOf EXCEPT ![m] = seed]
      /\ ThenCache(r, m)
BetThenCache(r) ==
  \E u \in Account, m \in Market, o \in Outcome, s \in Stakes, b \in BetId :
    PlaceBet(u, m, o, s, b) /\ ThenCache(r, m) /\ UNCHANGED seedOf
BuyThenCache(r) ==
  \E l \in Listings, u \in Account :
    BuyListedBet(l, u) /\ ThenCache(r, listing[l].market) /\ UNCHANGED seedOf

\* The other operations, which cache nothing.
EngineStep ==
  /\ \/ \E u \in Account, b \in SyncBalances : SyncUser(u, b)
     \/ \E u \in Account, d \in Deltas : AdjustBalance(u, d)
     \/ \E m \in Market : LockMarket(m) \/ CancelMarket(m) \/ RefundAfterRollback(m)
     \/ \E m \in Market, w \in Outcome : ResolveMarket(m, w) \/ ResolveEmptyPool(m, w)
     \/ \E b \in BetId, a \in Account, p \in Prices, l \in ListingId :
          ListBetForSale(b, a, p, l)
     \/ \E l \in ListingId, u \in Account : CancelListing(l, u)
     \/ \E l \in ListingId : BuyOnClosedMarket(l) \/ InvalidateStaleListing(l)
     \/ CallsLost
  /\ UNCHANGED pageVars

PageNext ==
  \/ EngineStep
  \/ \E r \in Reader :
       \/ CreateThenCache(r) \/ BetThenCache(r) \/ BuyThenCache(r)
       \/ CacheOdds(r) \/ OddsLost(r)
       \/ OpenHome(r) \/ OpenAdmin(r)
       \/ \E m \in Market : OpenDetail(r, m)
       \/ \E u \in Account : OpenProfile(r, u)
       \/ Fetch(r) \/ Request(r) \/ Unknown(r) \/ Leave(r)
  \/ \E m \in Market : Expire(m)

PageSpec == PageInit /\ [][PageNext]_allVars

-----------------------------------------------------------------------------
(* Properties *)

\* The cached odds of a market, if there are any, are those of its pools, unless
\* calls that cached them overlapped or did not finish since a call last had the
\* market to itself: the comment "Update Live Odds cache" (market_service.go:225).
OddsFollowBets ==
  \A m \in Market \ disturbed :
    Caching(m) = {} => odds[m] \in {NoOdds, pool[m]}

Shows(r, kinds, m) == slot[r].kind \in kinds /\ m \in DOMAIN slot[r].read
Shown(r, m) == slot[r].read[m]

\* A page that says a market is no longer open shows the pools it is settled with,
\* although it read its status and its pools one after the other.
ClosedPageIsFinal ==
  \A r \in Reader, m \in Market :
    Shows(r, {"detail", "admin"}, m) /\ Shown(r, m).status # "OPEN" =>
      Shown(r, m).pools = pool[m]

\* The sparkline of a page is drawn from all the bets behind the volume next to it,
\* and once the market is closed from no others.
VolumeIsBacked ==
  \A r \in Reader, m \in Market : Shows(r, {"detail"}, m) => \A o \in Outcome :
    LET v == Shown(r, m) IN
    /\ v.pools[o] <= v.plotted[o]
    /\ v.status # "OPEN" => v.pools[o] = v.plotted[o]

SeedBets(m) == IF seedOf[m] > 0 THEN Cardinality(outcomes[m]) ELSE 0

\* A market shown as live ("AO VIVO") has a bet that is none of its seeds: "anything
\* above that means a real bet landed" (viewbuild.go, hasRealBets).  The bettor count
\* leaves the house out, and where it is zero on such a page it is the house that has
\* bet, or bought the bets, and has them still.
LiveMeansBets ==
  \A r \in Reader, m \in Market : Shows(r, {"detail", "home"}, m) /\ Shown(r, m).live =>
    /\ Cardinality(BetsOf(m)) > SeedBets(m)
    /\ Shows(r, {"detail"}, m) /\ Shown(r, m).bettors = {} =>
         Cardinality({b \in BetsOf(m) : bet[b].owner = House}) > SeedBets(m)

\* The rows of a betting history agree on the status of a market, also when the
\* market is locked or settled while the page is put together.
HistoryAgrees ==
  \A r \in Reader : slot[r].kind = "profile" =>
    \A b, k \in DOMAIN slot[r].read :
      bet[b].market = bet[k].market => slot[r].read[b] = slot[r].read[k]
=============================================================================
