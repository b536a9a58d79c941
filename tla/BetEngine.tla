----------------------------- MODULE BetEngine -----------------------------
(***************************************************************************)
(* The betting engine of bet-backend: the PostgreSQL tables users, markets, *)
(* pools, bets and bet_listings, and the service functions that change      *)
(* them, one action per database transaction.  Every service function takes *)
(* row locks that serialise it with the functions it conflicts with, so a   *)
(* whole transaction is one step here.  Two functions are made of two       *)
(* transactions: ResolveMarket on an empty winning pool rolls back and then *)
(* calls RefundMarketInternal, and BuyListedBet on a market that is no      *)
(* longer open rolls back and then calls invalidateStaleListing.  What can  *)
(* happen in between is explored: the variables refunding and stale hold    *)
(* the calls that are between their two transactions.                       *)
(*                                                                          *)
(* A call that the code rejects changes nothing, so it is not a step.       *)
(***************************************************************************)
EXTENDS Integers, FiniteSets, FiniteSetsExt

CONSTANTS
  User,          \* accounts of bettors (UUIDs)
  House,         \* HouseUserID, the system account
  Market,        \* market ids, fresh UUIDs on creation
  Outcome,       \* outcome labels
  BetId,         \* bet ids, fresh UUIDs on insertion; bounds the bets placed
  ListingId,     \* listing ids, likewise
  NoBet,         \* "no such row" in bets
  NoListing,     \* "no such row" in bet_listings
  NoOutcome,     \* SQL NULL in markets.winning_outcome
  NoUser,        \* SQL NULL in bet_listings.buyer_id
  HouseFunds,    \* the balance the migration gives the house row
  Stakes,        \* stakes a caller may ask for
  Seeds,         \* seeds an administrator may ask for
  Prices,        \* asking prices a seller may ask for
  SyncBalances,  \* balances POST /users may write
  Deltas,        \* amounts AdjustBalance may be called with
  MaxBalance,    \* bound on what comes in from outside; the code has none
  MaxInt64       \* 2^63 - 1 in the code, the largest integer Go computes with

Account == User \cup {House}

ASSUME AccountAssumption == House \notin User /\ NoUser \notin Account

ASSUME OutcomeAssumption == NoOutcome \notin Outcome /\ IsFiniteSet(Outcome)

\* Ids are UUIDs, of which there are finitely many.
ASSUME IdAssumption == IsFiniteSet(User) /\ IsFiniteSet(BetId) /\ IsFiniteSet(ListingId)

ASSUME AmountAssumption ==
  /\ HouseFunds \in Nat /\ MaxBalance \in Nat /\ MaxInt64 \in Nat
  /\ Stakes \subseteq Int /\ Seeds \subseteq Int /\ Prices \subseteq Int
  /\ SyncBalances \subseteq Int /\ Deltas \subseteq Int

VARIABLES
  users,      \* the accounts that have a users row
  balance,    \* users.balance
  status,     \* markets.status, "NONE" before the row exists
  outcomes,   \* markets.outcomes
  winning,    \* markets.winning_outcome
  pool,       \* pools.total
  bet,        \* the bets table
  listing,    \* the bet_listings table
  refunding,  \* markets a ResolveMarket call has rolled back on, to refund
  stale       \* listings a BuyListedBet call has rolled back on, to cancel

marketVars == <<status, outcomes, winning>>
userVars == <<users, balance>>
vars == <<users, balance, status, outcomes, winning, pool, bet, listing,
          refunding, stale>>

MarketStatus == {"OPEN", "LOCKED", "RESOLVED", "CANCELLED"}
Settled == {"RESOLVED", "CANCELLED"}
ListingStatus == {"LISTED", "SOLD", "CANCELLED"}

BetRow == [market : Market, owner : Account, original : Account,
           outcome : Outcome, stake : Nat \ {0}]
ListingRow == [bet : BetId, market : Market, seller : Account,
               buyer : Account \cup {NoUser}, price : Nat \ {0},
               status : ListingStatus]

ASSUME SentinelAssumption == NoBet \notin BetRow /\ NoListing \notin ListingRow

Bets == {b \in BetId : bet[b] # NoBet}
BetsOf(m) == {b \in Bets : bet[b].market = m}
Listings == {l \in ListingId : listing[l] # NoListing}
Listed == {l \in Listings : listing[l].status = "LISTED"}

(***************************************************************************)
(* The schema's constraint on users: balance BIGINT CHECK (balance >= 0).   *)
(* A transaction whose UPDATE breaks it fails and is rolled back.           *)
(***************************************************************************)
CheckBalance(bal) == bal \in [Account -> Nat]

-----------------------------------------------------------------------------
Init ==
  /\ users = {House}
  /\ balance = [a \in Account |-> IF a = House THEN HouseFunds ELSE 0]
  /\ status = [m \in Market |-> "NONE"]
  /\ outcomes = [m \in Market |-> {}]
  /\ winning = [m \in Market |-> NoOutcome]
  /\ pool = [m \in Market |-> [o \in Outcome |-> 0]]
  /\ bet = [b \in BetId |-> NoBet]
  /\ listing = [l \in ListingId |-> NoListing]
  /\ refunding = {}
  /\ stale = {}

-----------------------------------------------------------------------------
(* Accounts *)

\* POST /users: an upsert that overwrites the balance of a row that exists.
SyncUser(u, b) ==
  /\ 0 <= b
  /\ users' = users \cup {u}
  /\ balance' = [balance EXCEPT ![u] = b]
  /\ UNCHANGED <<marketVars, pool, bet, listing, refunding, stale>>

\* Mutant: the overdraft check is dropped.
AdjustBalanceUnchecked(u, delta) ==
  /\ u \in users
  /\ balance[u] + delta <= MaxBalance
  /\ balance' = [balance EXCEPT ![u] = @ + delta]
  /\ UNCHANGED <<users, marketVars, pool, bet, listing, refunding, stale>>

AdjustBalance(u, delta) ==
  LET newBalance == balance[u] + delta IN
  /\ u \in users
  /\ 0 <= newBalance /\ newBalance <= MaxBalance
  /\ balance' = [balance EXCEPT ![u] = newBalance]
  /\ UNCHANGED <<users, marketVars, pool, bet, listing, refunding, stale>>

-----------------------------------------------------------------------------
(* Markets *)

\* The bets rows a new market may get: a fresh id for each outcome's seed bet.
SeedIds(outs, seed) ==
  IF seed > 0 THEN Injection(outs, BetId \ Bets) ELSE {<<>>}

\* CreateMarket with its pools and, when seeded, one house bet per outcome.
CreateMarket(m, outs, seed, ids) ==
  LET totalSeed == seed * Cardinality(outs) IN
  /\ status[m] = "NONE"
  /\ Cardinality(outs) >= 2
  /\ seed >= 0
  /\ balance[House] >= totalSeed
  /\ balance' = [balance EXCEPT ![House] = @ - totalSeed]
  /\ status' = [status EXCEPT ![m] = "OPEN"]
  /\ outcomes' = [outcomes EXCEPT ![m] = outs]
  /\ pool' = [pool EXCEPT ![m] =
                [o \in Outcome |-> IF o \in outs THEN seed ELSE 0]]
  /\ bet' = [b \in BetId |->
               IF seed > 0 /\ \E o \in outs : ids[o] = b
               THEN [market |-> m, owner |-> House, original |-> House,
                     outcome |-> CHOOSE o \in outs : ids[o] = b,
                     stake |-> seed]
               ELSE bet[b]]
  /\ UNCHANGED <<users, winning, listing, refunding, stale>>

\* Mutant: bets are taken until the market is settled.
TakesBetsUntilSettled(m) == status[m] \in {"OPEN", "LOCKED"}

TakesBets(m) == status[m] = "OPEN"

\* Mutant: the WHERE clause of the pool update forgets the outcome.
AddToEveryPool(m, o, stake) ==
  [pool EXCEPT ![m] = [k \in Outcome |-> @[k] + stake]]

AddToPool(m, o, stake) == [pool EXCEPT ![m][o] = @ + stake]

PlaceBet(u, m, o, stake, b) ==
  /\ stake > 0
  /\ TakesBets(m)
  /\ o \in outcomes[m]
  /\ u \in users
  /\ balance[u] >= stake
  /\ b \in BetId \ Bets
  /\ balance' = [balance EXCEPT ![u] = @ - stake]
  /\ pool' = AddToPool(m, o, stake)
  /\ bet' = [bet EXCEPT ![b] = [market |-> m, owner |-> u, original |-> u,
                                outcome |-> o, stake |-> stake]]
  /\ UNCHANGED <<users, marketVars, listing, refunding, stale>>

\* Mutant: the bulk invalidation of listings is forgotten.
CancelNoListings(m) == listing

\* The bulk UPDATE bet_listings that locking, resolving and refunding all run.
CancelListingsOf(m) ==
  [l \in ListingId |->
     IF l \in Listed /\ listing[l].market = m
     THEN [listing[l] EXCEPT !.status = "CANCELLED"]
     ELSE listing[l]]

LockMarket(m) ==
  /\ status[m] = "OPEN"
  /\ listing' = CancelListingsOf(m)
  /\ status' = [status EXCEPT ![m] = "LOCKED"]
  /\ UNCHANGED <<userVars, outcomes, winning, pool, bet, refunding, stale>>

TotalPool(m) == SumFunctionOnSet(pool[m], outcomes[m])

\* Go's integers: a product wraps, a quotient is rounded toward zero.
Int64(n) == ((n + MaxInt64 + 1) % (2 * (MaxInt64 + 1))) - (MaxInt64 + 1)
Quotient(a, b) == IF a >= 0 THEN a \div b ELSE -((-a) \div b)

Commission(total) == Quotient(Int64(total * 3), 100)

\* Mutant: the share is taken of the distributable pool, not the winning one.
PayoutOfWholePool(stake, distributable, poolVencedor) ==
  (stake * distributable) \div (distributable + poolVencedor)

Payout(stake, distributable, poolVencedor) ==
  Quotient(Int64(stake * distributable), poolVencedor)

\* Balances after the winning bets of m are paid to their current owners and
\* the commission and the rounding dust to the house.
Distributable(m) == TotalPool(m) - Commission(TotalPool(m))
WinningBets(m, w) == {b \in BetsOf(m) : bet[b].outcome = w}
PayoutsTo(B, m, w) ==
  SumFunctionOnSet(
    [b \in B |-> Payout(bet[b].stake, Distributable(m), pool[m][w])], B)
Remainder(m, w) == Distributable(m) - PayoutsTo(WinningBets(m, w), m, w)

BalancesAfterPayout(m, w) ==
  LET houseGain == Commission(TotalPool(m)) + Remainder(m, w)
      won(a) == {b \in WinningBets(m, w) : bet[b].owner = a}
  IN [a \in Account |->
        balance[a] + PayoutsTo(won(a), m, w)
        + IF a = House /\ houseGain > 0 THEN houseGain ELSE 0]

ResolveMarket(m, w) ==
  /\ status[m] = "LOCKED"
  /\ w \in outcomes[m]
  /\ pool[m][w] # 0
  /\ CheckBalance(BalancesAfterPayout(m, w))
  /\ balance' = BalancesAfterPayout(m, w)
  /\ listing' = CancelListingsOf(m)
  /\ status' = [status EXCEPT ![m] = "RESOLVED"]
  /\ winning' = [winning EXCEPT ![m] = w]
  /\ UNCHANGED <<users, outcomes, pool, bet, refunding, stale>>

\* ResolveMarket on an outcome nobody staked on: the transaction is rolled
\* back, and the call goes on to RefundMarketInternal.
ResolveEmptyPool(m, w) ==
  /\ status[m] = "LOCKED"
  /\ w \in outcomes[m]
  /\ pool[m][w] = 0
  /\ refunding' = refunding \cup {m}
  /\ UNCHANGED <<userVars, marketVars, pool, bet, listing, stale>>

StakeSum(B) == SumFunctionOnSet([b \in B |-> bet[b].stake], B)

BalancesAfterRefund(m) ==
  [a \in Account |->
     balance[a] + StakeSum({b \in BetsOf(m) : bet[b].owner = a})]

\* Mutant: only the double cancellation is rejected.
RefundableUnlessCancelled(m) == status[m] \notin {"NONE", "CANCELLED"}

\* Mutant: only a market that is still open can be refunded.
RefundableWhileOpen(m) == status[m] = "OPEN"

Refundable(m) == status[m] \notin {"NONE"} \cup Settled

RefundMarketInternal(m) ==
  /\ Refundable(m)
  /\ CheckBalance(BalancesAfterRefund(m))
  /\ balance' = BalancesAfterRefund(m)
  /\ listing' = CancelListingsOf(m)
  /\ status' = [status EXCEPT ![m] = "CANCELLED"]
  /\ UNCHANGED <<users, outcomes, winning, pool, bet, stale>>

CancelMarket(m) ==
  /\ RefundMarketInternal(m)
  /\ UNCHANGED refunding

\* The second transaction of a ResolveMarket call that found an empty pool: a
\* refund, or an error when another call has settled the market meanwhile.
RefundAfterRollback(m) ==
  /\ m \in refunding
  /\ refunding' = refunding \ {m}
  /\ \/ RefundMarketInternal(m)
     \/ /\ status[m] \in Settled
        /\ UNCHANGED <<userVars, marketVars, pool, bet, listing, stale>>

-----------------------------------------------------------------------------
(* The secondary market for bets *)

\* Mutant: the house's seed bets may be listed.
AnyoneMayList(b, seller) == bet[b].owner = seller

MayList(b, seller) == bet[b].owner = seller /\ seller # House

ListBetForSale(b, seller, price, l) ==
  /\ price > 0
  /\ b \in Bets
  /\ status[bet[b].market] = "OPEN"
  /\ MayList(b, seller)
  /\ \A k \in Listed : listing[k].bet # b     \* the partial unique index
  /\ l \in ListingId \ Listings
  /\ listing' = [listing EXCEPT ![l] =
                   [bet |-> b, market |-> bet[b].market, seller |-> seller,
                    buyer |-> NoUser, price |-> price, status |-> "LISTED"]]
  /\ UNCHANGED <<userVars, marketVars, pool, bet, refunding, stale>>

\* Mutant: the status of the listing is not checked.
CancelAnyListing(l, seller) ==
  /\ l \in Listings
  /\ listing[l].seller = seller
  /\ listing' = [listing EXCEPT ![l].status = "CANCELLED"]
  /\ UNCHANGED <<userVars, marketVars, pool, bet, refunding, stale>>

CancelListing(l, seller) ==
  /\ l \in Listed
  /\ listing[l].seller = seller
  /\ listing' = [listing EXCEPT ![l].status = "CANCELLED"]
  /\ UNCHANGED <<userVars, marketVars, pool, bet, refunding, stale>>

\* Mutant: the price goes to whoever placed the bet, not to its seller.
PriceToOriginalBettor(l, buyer) ==
  [balance EXCEPT ![buyer] = @ - listing[l].price,
                  ![bet[listing[l].bet].original] = @ + listing[l].price]

BalancesAfterSale(l, buyer) ==
  [balance EXCEPT ![buyer] = @ - listing[l].price,
                  ![listing[l].seller] = @ + listing[l].price]

BuyListedBet(l, buyer) ==
  /\ l \in Listed
  /\ status[listing[l].market] = "OPEN"
  /\ listing[l].seller # buyer
  /\ listing[l].bet \in Bets
  /\ bet[listing[l].bet].owner = listing[l].seller
  /\ buyer \in users
  /\ balance[buyer] >= listing[l].price
  /\ balance' = BalancesAfterSale(l, buyer)
  /\ bet' = [bet EXCEPT ![listing[l].bet].owner = buyer]
  /\ listing' = [listing EXCEPT ![l].status = "SOLD", ![l].buyer = buyer]
  /\ UNCHANGED <<users, marketVars, pool, refunding, stale>>

\* BuyListedBet on a market that is no longer open: rolled back, and the call
\* goes on to invalidateStaleListing whatever the listing's own status is.
BuyOnClosedMarket(l) ==
  /\ l \in Listings
  /\ status[listing[l].market] # "OPEN"
  /\ stale' = stale \cup {l}
  /\ UNCHANGED <<userVars, marketVars, pool, bet, listing, refunding>>

InvalidateStaleListing(l) ==
  /\ l \in stale
  /\ stale' = stale \ {l}
  /\ listing' = IF l \in Listed
                THEN [listing EXCEPT ![l].status = "CANCELLED"]
                ELSE listing
  /\ UNCHANGED <<userVars, marketVars, pool, bet, refunding>>

-----------------------------------------------------------------------------
\* Calls end between their two transactions: all of them when the process stops,
\* any of them when the second one is aborted, as the victim of a deadlock or
\* with its connection.  The migrations of a new start create only what is
\* missing (ON CONFLICT DO NOTHING).
CallsLost ==
  /\ refunding' \in SUBSET refunding /\ stale' \in SUBSET stale
  /\ UNCHANGED <<userVars, marketVars, pool, bet, listing>>

-----------------------------------------------------------------------------
Operation ==
  \/ \E u \in Account, b \in SyncBalances : SyncUser(u, b)
  \/ \E u \in Account, d \in Deltas : AdjustBalance(u, d)
  \/ \E m \in Market, outs \in SUBSET Outcome, seed \in Seeds :
       \E ids \in SeedIds(outs, seed) : CreateMarket(m, outs, seed, ids)
  \/ \E u \in Account, m \in Market, o \in Outcome, s \in Stakes, b \in BetId :
       PlaceBet(u, m, o, s, b)
  \/ \E m \in Market : LockMarket(m)
  \/ \E m \in Market, w \in Outcome : ResolveMarket(m, w)
  \/ \E m \in Market, w \in Outcome : ResolveEmptyPool(m, w)
  \/ \E m \in Market : CancelMarket(m)
  \/ \E m \in Market : RefundAfterRollback(m)
  \/ \E b \in BetId, a \in Account, p \in Prices, l \in ListingId :
       ListBetForSale(b, a, p, l)
  \/ \E l \in ListingId, u \in Account : CancelListing(l, u)
  \/ \E l \in ListingId, u \in Account : BuyListedBet(l, u)
  \/ \E l \in ListingId : BuyOnClosedMarket(l)
  \/ \E l \in ListingId : InvalidateStaleListing(l)

Next == Operation \/ CallsLost

Spec == Init /\ [][Next]_vars

\* A server that stays up finishes the calls it has begun, unless PostgreSQL
\* aborts them.
FairSpec ==
  /\ Init /\ [][Operation]_vars
  /\ \A m \in Market : WF_vars(RefundAfterRollback(m))

-----------------------------------------------------------------------------
(* Properties *)

\* Every table keeps the types its schema declares (db.go); in particular no
\* balance is ever negative.
TypeOK ==
  /\ users \subseteq Account
  /\ balance \in [Account -> Nat]
  /\ status \in [Market -> MarketStatus \cup {"NONE"}]
  /\ outcomes \in [Market -> SUBSET Outcome]
  /\ winning \in [Market -> Outcome \cup {NoOutcome}]
  /\ pool \in [Market -> [Outcome -> Nat]]
  /\ bet \in [BetId -> BetRow \cup {NoBet}]
  /\ listing \in [ListingId -> ListingRow \cup {NoListing}]
  /\ refunding \subseteq Market
  /\ stale \subseteq ListingId

\* A pool's total, which PlaceBet increments and ResolveMarket divides by, is
\* the sum of the stakes of the bets it stands for, seed bets included.
PoolsMatchBets ==
  \A m \in Market, o \in Outcome :
    pool[m][o] = StakeSum({b \in BetsOf(m) : bet[b].outcome = o})

\* Whatever outcome ResolveMarket is asked for, the payouts never exceed the
\* distributable pool, and what rounding leaves to the house is less than one
\* unit per winning bet: a payout is floor(stake * poolDistributable /
\* poolVencedor), as the comment in ResolveMarket says, in its machine integers.
PayoutsCovered ==
  \A m \in Market : \A w \in outcomes[m] :
    status[m] = "LOCKED" /\ pool[m][w] # 0 =>
      0 <= Remainder(m, w) /\ Remainder(m, w) < Cardinality(WinningBets(m, w))

\* A listing that can be bought is for a bet its seller owns, on a market that
\* still takes bets, and no other listing offers that bet: BuyListedBet's
\* internal-consistency error and its double sale are unreachable.
ListingsBacked ==
  \A l \in Listed :
    LET row == listing[l] IN
    /\ row.bet \in Bets
    /\ bet[row.bet].owner = row.seller
    /\ bet[row.bet].market = row.market
    /\ status[row.market] = "OPEN"
    /\ \A k \in Listed : listing[k].bet = row.bet => k = l

\* bet_listings is a complete audit trail: the SOLD rows of a bet lead from the
\* account that placed it to the one that owns it, so each account has sold it
\* as often as it came to own it, less the current ownership.
SalesLeadToOwner ==
  \A b \in Bets, a \in Account :
    LET sold == {l \in Listings : listing[l].bet = b /\ listing[l].status = "SOLD"}
        one(P) == IF P THEN 1 ELSE 0
    IN Cardinality({l \in sold : listing[l].seller = a}) + one(bet[b].owner = a)
       = Cardinality({l \in sold : listing[l].buyer = a}) + one(bet[b].original = a)

LifecycleStep ==
  \A m \in Market :
    /\ status'[m] # status[m] =>
         <<status[m], status'[m]>> \in
           {<<"NONE", "OPEN">>, <<"OPEN", "LOCKED">>, <<"OPEN", "CANCELLED">>,
            <<"LOCKED", "RESOLVED">>, <<"LOCKED", "CANCELLED">>}
    /\ winning'[m] # winning[m] =>
         status[m] = "LOCKED" /\ status'[m] = "RESOLVED"

\* A market goes from OPEN to LOCKED, and from there, or by a cancellation, to a
\* state it never leaves; the winning outcome is set by the step that resolves it.
StatusLifecycle == [][LifecycleStep]_vars

FrozenStep ==
  \A m \in Market : status[m] \notin {"NONE", "OPEN"} =>
    /\ pool'[m] = pool[m]
    /\ BetsOf(m)' = BetsOf(m)
    /\ \A b \in BetsOf(m) : bet'[b] = bet[b]

\* Once a market has left OPEN its pools and its bets, their owners included,
\* stay as they are: what a resolution pays is fixed when the market is locked.
FrozenOnceClosed == [][FrozenStep]_vars

SaleStep ==
  \A b \in Bets : bet'[b] # bet[b] =>
    \E l \in Listed :
      LET row == listing[l]
          buyer == bet'[b].owner IN
      /\ row.bet = b
      /\ listing'[l] = [row EXCEPT !.status = "SOLD", !.buyer = buyer]
      /\ bet'[b] = [bet[b] EXCEPT !.owner = buyer]
      /\ balance' = [balance EXCEPT ![buyer] = @ - row.price,
                                    ![row.seller] = @ + row.price]

\* A bet changes hands only against a listing: the seller, and nobody else, gets
\* the asking price from the buyer, and stake, outcome and bettor of record stay.
SaleIsPeerToPeer == [][SaleStep]_vars

KeepStep ==
  \A b \in Bets : bet[b].owner = House =>
    /\ b \in Bets' /\ bet'[b].owner = House
    /\ \A l \in Listed' : listing'[l].bet # b

\* What the house owns it keeps, its seed bets and whatever it has bet or bought
\* like anybody else (BuyListedBet and PlaceBet take any user id): such a bet is
\* never for sale, so a seed is refunded or paid to the account that funded it.
HouseKeepsItsBets == [][KeepStep]_vars

TerminalStep ==
  \A l \in Listings : listing[l].status # "LISTED" => listing'[l] = listing[l]

\* A listing that was sold or cancelled is never edited again (db.go, comment on
\* bet_listings), whatever late invalidation or cancellation still arrives.
ListingTerminal == [][TerminalStep]_vars

Abstract == INSTANCE Escrow WITH
  cash <- balance,
  pot <- [m \in Market |-> IF status[m] \in Settled THEN 0
                           ELSE StakeSum(BetsOf(m))],
  phase <- [m \in Market |->
              CASE status[m] = "NONE" -> "new"
                [] status[m] = "OPEN" -> "open"
                [] status[m] = "LOCKED" -> "closed"
                [] status[m] \in Settled -> "settled"]

\* The engine keeps money the way Escrow says: a bet moves money into its
\* market's pot, a sale moves it between users, a market's pot is paid out to
\* the last unit exactly once, and only SyncUser and AdjustBalance change the
\* total, one user's balance at a time.
ImplementsEscrow == Abstract!Spec

\* A ResolveMarket call that found nobody on the winning side ends with the
\* market settled, by its own refund or by another call.
RefundCompletes ==
  \A m \in Market : m \in refunding ~> status[m] \in Settled
=============================================================================
