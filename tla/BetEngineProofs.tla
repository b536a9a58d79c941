-------------------------- MODULE BetEngineProofs --------------------------
(***************************************************************************)
(* What holds of the betting engine for any number of users, markets, bets  *)
(* and listings: its types, the listings and the owners of bets, what a     *)
(* step may never do, pools as sums of stakes, the audit trail of sales,    *)
(* what a resolution pays, and the refinement of Escrow.                    *)
(***************************************************************************)
EXTENDS BetEngine, FiniteSums

-----------------------------------------------------------------------------
(* Types *)

\* Creating a market reserves the house's seeds and inserts well-formed rows.
LEMMA CreateMarketType ==
  ASSUME TypeOK, NEW m \in Market, NEW outs \in SUBSET Outcome,
         NEW seed \in Seeds, NEW ids \in SeedIds(outs, seed),
         CreateMarket(m, outs, seed, ids)
  PROVE  TypeOK'
<1> DEFINE total == seed * Cardinality(outs)
<1>1. seed \in Nat /\ Cardinality(outs) \in Nat
  BY FS_Subset, FS_CardinalityType, OutcomeAssumption, AmountAssumption
     DEF CreateMarket
<1>2. total \in Int
  BY <1>1
<1>3. balance' \in [Account -> Nat]
  <2> HIDE DEF total
  <2>1. balance[House] >= total /\ balance' = [balance EXCEPT ![House] = @ - total]
    BY DEF CreateMarket, total
  <2> QED BY <1>2, <2>1 DEF TypeOK, Account
<1>4. pool' \in [Market -> [Outcome -> Nat]]
  BY <1>1 DEF CreateMarket, TypeOK
<1>5. bet' \in [BetId -> BetRow \cup {NoBet}]
  <2>1. \A b \in BetId : bet[b] \in BetRow \cup {NoBet}
    BY DEF TypeOK
  <2>2. ASSUME NEW b \in BetId, seed > 0, \E o \in outs : ids[o] = b
        PROVE  [market |-> m, owner |-> House, original |-> House,
                outcome |-> CHOOSE o \in outs : ids[o] = b,
                stake |-> seed] \in BetRow
    <3>1. (CHOOSE o \in outs : ids[o] = b) \in Outcome
      BY <2>2
    <3> QED BY <1>1, <2>2, <3>1 DEF BetRow, Account
  <2> QED BY <2>1, <2>2 DEF CreateMarket
<1> QED BY <1>3, <1>4, <1>5
           DEF CreateMarket, TypeOK, MarketStatus, marketVars, userVars

\* A bet is debited from a balance that covers it.
LEMMA PlaceBetType ==
  ASSUME TypeOK, NEW u \in Account, NEW m \in Market, NEW o \in Outcome,
         NEW stake \in Stakes, NEW b \in BetId, PlaceBet(u, m, o, stake, b)
  PROVE  TypeOK'
<1>1. stake \in Nat \ {0}
  BY AmountAssumption DEF PlaceBet
<1>2. balance' \in [Account -> Nat]
  BY <1>1 DEF PlaceBet, TypeOK, Account
<1>3. pool' \in [Market -> [Outcome -> Nat]]
  BY <1>1 DEF PlaceBet, AddToPool, TypeOK
<1>4. bet' \in [BetId -> BetRow \cup {NoBet}]
  BY <1>1 DEF PlaceBet, TypeOK, BetRow, Account
<1> QED BY <1>2, <1>3, <1>4 DEF PlaceBet, TypeOK, marketVars

\* Cancelling a market's listings changes nothing but their status.
LEMMA CancelListingsOfType ==
  ASSUME TypeOK, NEW m \in Market
  PROVE  CancelListingsOf(m) \in [ListingId -> ListingRow \cup {NoListing}]
<1>1. \A l \in ListingId : listing[l] \in ListingRow \cup {NoListing}
  BY DEF TypeOK
<1>2. ASSUME NEW l \in ListingId, listing[l] \in ListingRow
      PROVE  [listing[l] EXCEPT !.status = "CANCELLED"] \in ListingRow
  BY <1>2 DEF ListingRow, ListingStatus
<1> QED BY <1>1, <1>2 DEF CancelListingsOf, Listed, Listings

\* A refund credits only balances the schema accepts.
LEMMA RefundType ==
  ASSUME TypeOK, NEW m \in Market, RefundMarketInternal(m), refunding' \subseteq Market
  PROVE  TypeOK'
BY CancelListingsOfType
   DEF RefundMarketInternal, TypeOK, CheckBalance, MarketStatus

\* A sale moves the price between two balances and the bet to its buyer.
LEMMA BuyListedBetType ==
  ASSUME TypeOK, NEW l \in ListingId, NEW buyer \in Account, BuyListedBet(l, buyer)
  PROVE  TypeOK'
<1> DEFINE row == listing[l]
<1>1. row \in ListingRow
  BY DEF BuyListedBet, Listed, Listings, TypeOK
<1>2. /\ row.price \in Nat /\ row.seller \in Account /\ row.bet \in BetId
      /\ row.seller # buyer
  BY <1>1 DEF BuyListedBet, ListingRow
<1>3. balance' \in [Account -> Nat]
  <2>1. balance[buyer] - row.price \in Nat /\ balance[row.seller] + row.price \in Nat
    BY <1>2 DEF BuyListedBet, TypeOK, Account
  <2>2. balance' = [[balance EXCEPT ![buyer] = balance[buyer] - row.price]
                      EXCEPT ![row.seller] = balance[row.seller] + row.price]
    BY <1>2 DEF BuyListedBet, BalancesAfterSale, TypeOK, Account
  <2> QED BY <2>1, <2>2 DEF TypeOK, Account
<1>4. bet' \in [BetId -> BetRow \cup {NoBet}]
  <2>1. bet[row.bet] \in BetRow
    BY DEF BuyListedBet, Bets, TypeOK
  <2>2. [bet[row.bet] EXCEPT !.owner = buyer] \in BetRow
    BY <2>1 DEF BetRow, Account
  <2>3. bet' = [bet EXCEPT ![row.bet] = [bet[row.bet] EXCEPT !.owner = buyer]]
    BY DEF BuyListedBet
  <2> QED BY <1>2, <2>2, <2>3 DEF TypeOK
<1>5. listing' \in [ListingId -> ListingRow \cup {NoListing}]
  BY <1>1 DEF BuyListedBet, TypeOK, ListingRow, ListingStatus, Account
<1> QED BY <1>3, <1>4, <1>5 DEF BuyListedBet, TypeOK, marketVars

\* Every operation, and a restart, keeps the tables well typed.
LEMMA TypeStep == TypeOK /\ [Next]_vars => TypeOK'
<1> SUFFICES ASSUME TypeOK, [Next]_vars PROVE TypeOK'
  OBVIOUS
<1>1. ASSUME NEW u \in Account, NEW b \in SyncBalances, SyncUser(u, b)
      PROVE  TypeOK'
  BY <1>1, AmountAssumption DEF SyncUser, TypeOK, marketVars, Account
<1>2. ASSUME NEW u \in Account, NEW d \in Deltas, AdjustBalance(u, d)
      PROVE  TypeOK'
  BY <1>2, AmountAssumption DEF AdjustBalance, TypeOK, marketVars, Account
<1>3. ASSUME NEW m \in Market, NEW outs \in SUBSET Outcome, NEW seed \in Seeds,
             NEW ids \in SeedIds(outs, seed), CreateMarket(m, outs, seed, ids)
      PROVE  TypeOK'
  BY <1>3, CreateMarketType
<1>4. ASSUME NEW u \in Account, NEW m \in Market, NEW o \in Outcome,
             NEW s \in Stakes, NEW b \in BetId, PlaceBet(u, m, o, s, b)
      PROVE  TypeOK'
  BY <1>4, PlaceBetType
<1>5. ASSUME NEW m \in Market, LockMarket(m)
      PROVE  TypeOK'
  BY <1>5, CancelListingsOfType
     DEF LockMarket, TypeOK, userVars, MarketStatus
<1>6. ASSUME NEW m \in Market, NEW w \in Outcome, ResolveMarket(m, w)
      PROVE  TypeOK'
  BY <1>6, CancelListingsOfType
     DEF ResolveMarket, CheckBalance, TypeOK, MarketStatus
<1>7. ASSUME NEW m \in Market, NEW w \in Outcome, ResolveEmptyPool(m, w)
      PROVE  TypeOK'
  BY <1>7 DEF ResolveEmptyPool, TypeOK, userVars, marketVars
<1>8. ASSUME NEW m \in Market, CancelMarket(m)
      PROVE  TypeOK'
  <2>1. RefundMarketInternal(m) /\ refunding' \subseteq Market
    BY <1>8 DEF CancelMarket, TypeOK
  <2> QED BY <2>1, RefundType
<1>9. ASSUME NEW m \in Market, RefundAfterRollback(m)
      PROVE  TypeOK'
  <2>1. refunding' \subseteq Market
    BY <1>9 DEF RefundAfterRollback, TypeOK
  <2>2. CASE RefundMarketInternal(m)
    BY <2>1, <2>2, RefundType
  <2>3. CASE UNCHANGED <<userVars, marketVars, pool, bet, listing, stale>>
    BY <2>1, <2>3 DEF TypeOK, userVars, marketVars
  <2> QED BY <1>9, <2>2, <2>3 DEF RefundAfterRollback
<1>10. ASSUME NEW b \in BetId, NEW a \in Account, NEW p \in Prices,
              NEW l \in ListingId, ListBetForSale(b, a, p, l)
       PROVE  TypeOK'
  <2>1. p \in Nat \ {0} /\ bet[b] \in BetRow
    BY <1>10, AmountAssumption DEF ListBetForSale, Bets, TypeOK
  <2>2. [bet |-> b, market |-> bet[b].market, seller |-> a, buyer |-> NoUser,
         price |-> p, status |-> "LISTED"] \in ListingRow
    BY <2>1 DEF ListingRow, ListingStatus, BetRow
  <2> QED BY <1>10, <2>2 DEF ListBetForSale, TypeOK, userVars, marketVars
<1>11. ASSUME NEW l \in ListingId, NEW u \in Account, CancelListing(l, u)
       PROVE  TypeOK'
  BY <1>11 DEF CancelListing, Listed, Listings, TypeOK, ListingRow,
               ListingStatus, userVars, marketVars
<1>12. ASSUME NEW l \in ListingId, NEW u \in Account, BuyListedBet(l, u)
       PROVE  TypeOK'
  BY <1>12, BuyListedBetType
<1>13. ASSUME NEW l \in ListingId, BuyOnClosedMarket(l)
       PROVE  TypeOK'
  BY <1>13 DEF BuyOnClosedMarket, TypeOK, userVars, marketVars
<1>14. ASSUME NEW l \in ListingId, InvalidateStaleListing(l)
       PROVE  TypeOK'
  BY <1>14 DEF InvalidateStaleListing, Listed, Listings, TypeOK, ListingRow,
               ListingStatus, userVars, marketVars
<1>15. CASE CallsLost
  BY <1>15 DEF CallsLost, TypeOK, userVars, marketVars
<1>16. CASE UNCHANGED vars
  BY <1>16 DEF TypeOK, vars
<1> QED BY <1>1, <1>2, <1>3, <1>4, <1>5, <1>6, <1>7, <1>8, <1>9, <1>10, <1>11,
           <1>12, <1>13, <1>14, <1>15, <1>16 DEF Next, Operation

\* Every reachable state is well typed: no sequence of operations, refunds and
\* payouts included, leaves a negative balance or a malformed row.
THEOREM TypeCorrect == Spec => []TypeOK
<1>1. Init => TypeOK
  BY AmountAssumption DEF Init, TypeOK, Account
<1> QED BY <1>1, TypeStep, PTL DEF Spec

-----------------------------------------------------------------------------
(* Listings and ownership *)

\* ListBetForSale refuses the house, so no row of bet_listings has it as seller.
SellersAreUsers == \A l \in Listings : listing[l].seller # House

\* ListingsBacked is inductive with types alone.  That the house keeps its bets
\* needs SellersAreUsers, which the code never reads again after the insert.
IInv == TypeOK /\ ListingsBacked /\ SellersAreUsers

\* A step that neither touches bet_listings, nor changes a bet that exists, nor
\* closes a market leaves every listing backed.
LEMMA BackedWhenUntouched ==
  ASSUME TypeOK, ListingsBacked, listing' = listing,
         \A b \in Bets : bet'[b] = bet[b],
         \A m \in Market : status[m] = "OPEN" => status'[m] = "OPEN"
  PROVE  ListingsBacked'
<1> SUFFICES ASSUME NEW l \in Listed
             PROVE  /\ listing[l].bet \in Bets'
                    /\ bet'[listing[l].bet].owner = listing[l].seller
                    /\ bet'[listing[l].bet].market = listing[l].market
                    /\ status'[listing[l].market] = "OPEN"
                    /\ \A k \in Listed : listing[k].bet = listing[l].bet => k = l
  BY DEF ListingsBacked, Listed, Listings
<1>1. listing[l].bet \in Bets /\ listing[l].bet \in BetId
  BY DEF ListingsBacked, Bets
<1>2. listing[l].bet \in Bets'
  BY <1>1 DEF Bets
<1>3. listing[l].market \in Market
  BY DEF Listed, Listings, TypeOK, ListingRow
<1> QED BY <1>1, <1>2, <1>3 DEF ListingsBacked

\* Closing a market cancels exactly the listings that would lose their backing.
LEMMA BackedWhenMarketCloses ==
  ASSUME TypeOK, ListingsBacked, NEW m \in Market,
         listing' = CancelListingsOf(m), bet' = bet,
         \A k \in Market \ {m} : status'[k] = status[k]
  PROVE  ListingsBacked'
<1>1. ASSUME NEW l \in Listed'
      PROVE  /\ l \in Listed /\ listing'[l] = listing[l]
             /\ listing[l].market \in Market \ {m}
  <2>1. l \in ListingId /\ listing'[l] # NoListing /\ listing'[l].status = "LISTED"
    BY <1>1 DEF Listed, Listings
  <2>2. ~(l \in Listed /\ listing[l].market = m)
    <3>1. SUFFICES ASSUME l \in Listed, listing[l].market = m PROVE FALSE
      OBVIOUS
    <3>2. listing[l] \in ListingRow
      BY <3>1 DEF Listed, Listings, TypeOK
    <3>3. [listing[l] EXCEPT !.status = "CANCELLED"].status = "CANCELLED"
      BY <3>2 DEF ListingRow
    <3> QED BY <2>1, <3>1, <3>3 DEF CancelListingsOf
  <2>3. listing'[l] = listing[l]
    BY <2>1, <2>2 DEF CancelListingsOf
  <2> QED BY <2>1, <2>2, <2>3 DEF Listed, Listings, TypeOK, ListingRow
<1>2. Bets' = Bets
  BY DEF Bets
<1> QED BY <1>1, <1>2 DEF ListingsBacked

\* Withdrawing one listing leaves the others backed.
LEMMA BackedWhenOneCancelled ==
  ASSUME TypeOK, ListingsBacked, NEW l \in Listed,
         listing' = [listing EXCEPT ![l].status = "CANCELLED"],
         bet' = bet, status' = status
  PROVE  ListingsBacked'
<1>1. listing[l] \in ListingRow /\ l \in ListingId
  BY DEF Listed, Listings, TypeOK
<1>2. \A k \in Listed' : k \in Listed /\ listing'[k] = listing[k]
  BY <1>1 DEF Listed, Listings, TypeOK, ListingRow
<1>3. Bets' = Bets
  BY DEF Bets
<1> QED BY <1>2, <1>3 DEF ListingsBacked

\* ListBetForSale adds a listing that is backed, and the unique index makes it
\* the only one for its bet.
LEMMA BackedWhenListed ==
  ASSUME TypeOK, ListingsBacked, NEW b \in BetId, NEW a \in Account,
         NEW p \in Prices, NEW l \in ListingId, ListBetForSale(b, a, p, l)
  PROVE  ListingsBacked'
<1> DEFINE row == [bet |-> b, market |-> bet[b].market, seller |-> a,
                   buyer |-> NoUser, price |-> p, status |-> "LISTED"]
<1>1. /\ listing' = [listing EXCEPT ![l] = row] /\ l \in ListingId \ Listings
      /\ b \in Bets /\ bet[b].owner = a /\ status[bet[b].market] = "OPEN"
      /\ \A k \in Listed : listing[k].bet # b
      /\ bet' = bet /\ status' = status
  BY DEF ListBetForSale, MayList, marketVars
<1>2. listing'[l] = row /\ \A k \in ListingId \ {l} : listing'[k] = listing[k]
  BY <1>1 DEF TypeOK
<1>3. Bets' = Bets
  BY <1>1 DEF Bets
<1>4. \A k \in Listed' : k = l \/ (k \in Listed /\ k # l /\ listing'[k] = listing[k])
  BY <1>1, <1>2 DEF Listed, Listings
<1> QED BY <1>1, <1>2, <1>3, <1>4 DEF ListingsBacked

\* A sale takes the bet's only listing off the market, so the change of owner
\* leaves no listing by the former one.
LEMMA BackedWhenSold ==
  ASSUME TypeOK, ListingsBacked, NEW l \in ListingId, NEW u \in Account,
         BuyListedBet(l, u)
  PROVE  ListingsBacked'
<1>1. l \in Listed /\ listing[l] \in ListingRow
  BY DEF BuyListedBet, Listed, Listings, TypeOK
<1>2. listing[l].bet \in BetId /\ bet[listing[l].bet] \in BetRow
  BY DEF BuyListedBet, Bets, TypeOK
<1>3. \A k \in ListingId \ {l} : listing'[k] = listing[k]
  BY DEF BuyListedBet, TypeOK
<1>4. listing'[l].status = "SOLD"
  BY <1>1 DEF BuyListedBet, TypeOK, ListingRow
<1>5. \A k \in Listed' : k \in Listed /\ k # l /\ listing'[k] = listing[k]
  BY <1>3, <1>4 DEF Listed, Listings
<1>6. \A k \in Listed' : listing[k].bet # listing[l].bet
  BY <1>1, <1>5 DEF ListingsBacked
<1>7. \A c \in BetId : c # listing[l].bet => bet'[c] = bet[c]
  BY DEF BuyListedBet, TypeOK
<1>8. ASSUME NEW k \in Listed'
      PROVE  listing[k].bet \in Bets' /\ bet'[listing[k].bet] = bet[listing[k].bet]
  BY <1>5, <1>6, <1>7 DEF ListingsBacked, Bets
<1>9. status' = status
  BY DEF BuyListedBet, marketVars
<1>10. ASSUME NEW k \in Listed'
       PROVE  /\ bet'[listing'[k].bet].owner = listing'[k].seller
              /\ bet'[listing'[k].bet].market = listing'[k].market
              /\ status'[listing'[k].market] = "OPEN"
              /\ \A j \in Listed' : listing'[j].bet = listing'[k].bet => j = k
  BY <1>5, <1>8, <1>9 DEF ListingsBacked
<1> QED BY <1>5, <1>8, <1>10 DEF ListingsBacked

\* No step leaves a listing that can be bought without its backing: those that
\* close a market cancel its listings, a sale takes the bet's only one away.
LEMMA BackedStep == TypeOK /\ ListingsBacked /\ [Next]_vars => ListingsBacked'
<1> SUFFICES ASSUME TypeOK, ListingsBacked, [Next]_vars PROVE ListingsBacked'
  OBVIOUS
<1>1. ASSUME NEW m \in Market, NEW outs \in SUBSET Outcome, NEW seed \in Seeds,
             NEW ids \in SeedIds(outs, seed), CreateMarket(m, outs, seed, ids)
      PROVE  ListingsBacked'
  <2>1. \A b \in Bets : bet'[b] = bet[b]
    <3>1. seed > 0 => \A o \in outs : ids[o] \notin Bets
      BY DEF SeedIds, Injection
    <3> QED BY <1>1, <3>1 DEF CreateMarket, Bets
  <2> QED BY <1>1, <2>1, BackedWhenUntouched DEF CreateMarket, TypeOK
<1>2. ASSUME NEW u \in Account, NEW m \in Market, NEW o \in Outcome,
             NEW s \in Stakes, NEW b \in BetId, PlaceBet(u, m, o, s, b)
      PROVE  ListingsBacked'
  <2>1. \A c \in Bets : bet'[c] = bet[c]
    BY <1>2 DEF PlaceBet, Bets, TypeOK
  <2> QED BY <1>2, <2>1, BackedWhenUntouched DEF PlaceBet, marketVars
<1>3. ASSUME NEW m \in Market,
             \/ LockMarket(m)
             \/ \E w \in Outcome : ResolveMarket(m, w)
             \/ RefundMarketInternal(m)
      PROVE  ListingsBacked'
  BY <1>3, BackedWhenMarketCloses
     DEF LockMarket, ResolveMarket, RefundMarketInternal, TypeOK
<1>4. ASSUME NEW l \in ListingId,
             \/ \E u \in Account : CancelListing(l, u)
             \/ InvalidateStaleListing(l)
      PROVE  ListingsBacked'
  <2>1. bet' = bet /\ status' = status
    BY <1>4 DEF CancelListing, InvalidateStaleListing, marketVars
  <2>2. CASE l \in Listed
    BY <1>4, <2>1, <2>2, BackedWhenOneCancelled
       DEF CancelListing, InvalidateStaleListing
  <2>3. CASE l \notin Listed
    BY <1>4, <2>1, <2>3, BackedWhenUntouched
       DEF CancelListing, InvalidateStaleListing
  <2> QED BY <2>2, <2>3
<1>5. ASSUME UNCHANGED <<bet, listing, status>>
      PROVE  ListingsBacked'
  BY <1>5, BackedWhenUntouched
<1>6. ASSUME \/ \E u \in Account, b \in SyncBalances : SyncUser(u, b)
             \/ \E u \in Account, d \in Deltas : AdjustBalance(u, d)
             \/ \E m \in Market, w \in Outcome : ResolveEmptyPool(m, w)
             \/ \E l \in ListingId : BuyOnClosedMarket(l)
             \/ CallsLost
             \/ UNCHANGED vars
      PROVE  UNCHANGED <<bet, listing, status>>
  BY <1>6 DEF SyncUser, AdjustBalance, ResolveEmptyPool, BuyOnClosedMarket,
              CallsLost, marketVars, vars
<1>7. ASSUME NEW m \in Market, CancelMarket(m) \/ RefundAfterRollback(m)
      PROVE  ListingsBacked'
  BY <1>3, <1>5, <1>7 DEF CancelMarket, RefundAfterRollback, marketVars
<1> QED BY <1>1, <1>2, <1>3, <1>4, <1>5, <1>6, <1>7, BackedWhenListed,
           BackedWhenSold DEF Next, Operation

\* Whoever buys a listing buys a bet its seller still owns, on an open market,
\* and no other listing offers it: "LISTED" is never stale, whatever order
\* sales, withdrawals, locks, resolutions and cancellations come in.
THEOREM ListingsAlwaysBacked == Spec => []ListingsBacked
<1>1. Init => ListingsBacked
  BY DEF Init, ListingsBacked, Listed, Listings
<1> QED BY <1>1, BackedStep, TypeCorrect, PTL DEF Spec

\* Rows of bet_listings keep their seller, and a new row's seller is a user.
LEMMA SellersStep == TypeOK /\ SellersAreUsers /\ [Next]_vars => SellersAreUsers'
<1> SUFFICES ASSUME TypeOK, SellersAreUsers, [Next]_vars,
                    NEW k \in Listings'
             PROVE  listing'[k].seller # House
  BY DEF SellersAreUsers
<1>1. ASSUME listing'[k] = listing[k]
      PROVE  listing'[k].seller # House
  BY <1>1 DEF SellersAreUsers, Listings
<1>2. ASSUME NEW l \in Listings, NEW st \in ListingStatus,
             listing'[k] = [listing[l] EXCEPT !.status = st], k = l
      PROVE  listing'[k].seller # House
  BY <1>2 DEF SellersAreUsers, Listings, TypeOK, ListingRow
<1>3. ASSUME NEW m \in Market, listing' = CancelListingsOf(m)
      PROVE  listing'[k].seller # House
  BY <1>1, <1>2, <1>3 DEF CancelListingsOf, Listed, Listings, ListingStatus
<1>4. ASSUME NEW l \in ListingId,
             \/ \E u \in Account : CancelListing(l, u)
             \/ InvalidateStaleListing(l)
      PROVE  listing'[k].seller # House
  BY <1>1, <1>2, <1>4 DEF CancelListing, InvalidateStaleListing, Listed,
                          Listings, ListingStatus, TypeOK
<1>5. ASSUME NEW b \in BetId, NEW a \in Account, NEW p \in Prices,
             NEW l \in ListingId, ListBetForSale(b, a, p, l)
      PROVE  listing'[k].seller # House
  BY <1>1, <1>5 DEF ListBetForSale, MayList, Listings, TypeOK
<1>6. ASSUME NEW l \in ListingId, NEW u \in Account, BuyListedBet(l, u)
      PROVE  listing'[k].seller # House
  <2>1. CASE k = l
    <3>1. l \in Listings /\ listing[l] \in ListingRow
      BY <1>6 DEF BuyListedBet, Listed, Listings, TypeOK
    <3>2. listing'[l].seller = listing[l].seller
      BY <1>6, <3>1 DEF BuyListedBet, TypeOK, ListingRow
    <3> QED BY <2>1, <3>1, <3>2 DEF SellersAreUsers
  <2>2. CASE k # l
    BY <1>1, <1>6, <2>2 DEF BuyListedBet, Listings, TypeOK
  <2> QED BY <2>1, <2>2
<1>7. ASSUME NEW m \in Market,
             \/ LockMarket(m)
             \/ \E w \in Outcome : ResolveMarket(m, w)
             \/ CancelMarket(m)
             \/ RefundAfterRollback(m)
      PROVE  listing'[k].seller # House
  BY <1>1, <1>3, <1>7 DEF LockMarket, ResolveMarket, CancelMarket,
                          RefundAfterRollback, RefundMarketInternal
<1>8. ASSUME \/ \E u \in Account, b \in SyncBalances : SyncUser(u, b)
             \/ \E u \in Account, d \in Deltas : AdjustBalance(u, d)
             \/ \E m \in Market, outs \in SUBSET Outcome, seed \in Seeds :
                  \E ids \in SeedIds(outs, seed) : CreateMarket(m, outs, seed, ids)
             \/ \E u \in Account, m \in Market, o \in Outcome, s \in Stakes,
                   b \in BetId : PlaceBet(u, m, o, s, b)
             \/ \E m \in Market, w \in Outcome : ResolveEmptyPool(m, w)
             \/ \E l \in ListingId : BuyOnClosedMarket(l)
             \/ CallsLost
             \/ UNCHANGED vars
      PROVE  listing' = listing
  BY <1>8 DEF SyncUser, AdjustBalance, CreateMarket, PlaceBet, ResolveEmptyPool,
              BuyOnClosedMarket, CallsLost, vars
<1>9. CASE listing' = listing
  BY <1>1, <1>9
<1> QED BY <1>4, <1>5, <1>6, <1>7, <1>8, <1>9 DEF Next, Operation

\* The parts of the inductive invariant hold together in every reachable state.
LEMMA IInvInvariant == Spec => []IInv
<1>1. Init => IInv
  BY AmountAssumption
     DEF Init, IInv, TypeOK, ListingsBacked, SellersAreUsers,
         Listed, Listings, Bets, Account
<1>2. IInv /\ [Next]_vars => IInv'
  BY TypeStep, BackedStep, SellersStep DEF IInv
<1> QED BY <1>1, <1>2, PTL DEF Spec

-----------------------------------------------------------------------------
(* What a step may never do *)

\* Which steps change markets.status and markets.winning_outcome, and how.
LEMMA StatusStep ==
  ASSUME TypeOK, [Next]_vars
  PROVE  \/ UNCHANGED <<status, winning>>
         \/ \E m \in Market :
              \/ /\ status[m] = "NONE" /\ winning' = winning
                 /\ status' = [status EXCEPT ![m] = "OPEN"]
              \/ /\ status[m] = "OPEN" /\ winning' = winning
                 /\ status' = [status EXCEPT ![m] = "LOCKED"]
              \/ /\ status[m] \in {"OPEN", "LOCKED"} /\ winning' = winning
                 /\ status' = [status EXCEPT ![m] = "CANCELLED"]
              \/ /\ status[m] = "LOCKED"
                 /\ status' = [status EXCEPT ![m] = "RESOLVED"]
                 /\ \E w \in Outcome : winning' = [winning EXCEPT ![m] = w]
<1>1. ASSUME NEW m \in Market, RefundMarketInternal(m)
      PROVE  /\ status[m] \in {"OPEN", "LOCKED"} /\ winning' = winning
             /\ status' = [status EXCEPT ![m] = "CANCELLED"]
  BY <1>1 DEF RefundMarketInternal, Refundable, Settled, TypeOK, MarketStatus
<1>2. CASE \E m \in Market : CancelMarket(m) \/ RefundAfterRollback(m)
  BY <1>1, <1>2 DEF CancelMarket, RefundAfterRollback, marketVars
<1>3. CASE \E m \in Market : \/ LockMarket(m)
                             \/ \E w \in Outcome : ResolveMarket(m, w)
                             \/ \E outs \in SUBSET Outcome, seed \in Seeds :
                                  \E ids \in SeedIds(outs, seed) :
                                    CreateMarket(m, outs, seed, ids)
  BY <1>3 DEF LockMarket, ResolveMarket, CreateMarket
<1>4. ASSUME \/ \E u \in Account, b \in SyncBalances : SyncUser(u, b)
             \/ \E u \in Account, d \in Deltas : AdjustBalance(u, d)
             \/ \E u \in Account, m \in Market, o \in Outcome, s \in Stakes,
                   b \in BetId : PlaceBet(u, m, o, s, b)
             \/ \E m \in Market, w \in Outcome : ResolveEmptyPool(m, w)
             \/ \E b \in BetId, a \in Account, p \in Prices, l \in ListingId :
                  ListBetForSale(b, a, p, l)
             \/ \E l \in ListingId, u \in Account :
                  CancelListing(l, u) \/ BuyListedBet(l, u)
             \/ \E l \in ListingId :
                  BuyOnClosedMarket(l) \/ InvalidateStaleListing(l)
             \/ CallsLost
             \/ UNCHANGED vars
      PROVE  UNCHANGED <<status, winning>>
  BY <1>4 DEF SyncUser, AdjustBalance, PlaceBet, ResolveEmptyPool, ListBetForSale,
              CancelListing, BuyListedBet, BuyOnClosedMarket,
              InvalidateStaleListing, CallsLost, marketVars, vars
<1> QED BY <1>2, <1>3, <1>4 DEF Next, Operation

\* A settled market is settled for good and no call, however late, pays it out
\* again; a winner is only ever recorded by the resolution itself.
THEOREM StatusFollowsLifecycle == Spec => StatusLifecycle
<1>1. ASSUME TypeOK, [Next]_vars, NEW m \in Market
      PROVE  /\ status'[m] # status[m] =>
                  <<status[m], status'[m]>> \in
                    {<<"NONE", "OPEN">>, <<"OPEN", "LOCKED">>,
                     <<"OPEN", "CANCELLED">>, <<"LOCKED", "RESOLVED">>,
                     <<"LOCKED", "CANCELLED">>}
             /\ winning'[m] # winning[m] =>
                  status[m] = "LOCKED" /\ status'[m] = "RESOLVED"
  <2>1. PICK k \in Market : m # k => status'[m] = status[m] /\ winning'[m] = winning[m]
    BY <1>1, StatusStep DEF TypeOK
  <2> QED BY <1>1, StatusStep DEF TypeOK
<1>2. TypeOK /\ [Next]_vars => [LifecycleStep]_vars
  BY <1>1 DEF LifecycleStep
<1> QED BY <1>2, TypeCorrect, PTL DEF Spec, StatusLifecycle

\* Rows of bet_listings are append-only once sold or cancelled, also against the
\* second transaction of a BuyListedBet call that rolled back.
THEOREM ListingsAreTerminal == Spec => ListingTerminal
<1>1. ASSUME TypeOK, [Next]_vars, NEW k \in Listings, listing[k].status # "LISTED"
      PROVE  listing'[k] = listing[k]
  <2>1. k \in ListingId /\ k \notin Listed
    BY <1>1 DEF Listed, Listings
  <2>2. ASSUME NEW m \in Market, listing' = CancelListingsOf(m)
        PROVE  listing'[k] = listing[k]
    BY <2>1, <2>2 DEF CancelListingsOf
  <2>3. CASE \E m \in Market : \/ LockMarket(m)
                               \/ \E w \in Outcome : ResolveMarket(m, w)
                               \/ CancelMarket(m)
                               \/ RefundAfterRollback(m)
    BY <2>2, <2>3 DEF LockMarket, ResolveMarket, CancelMarket,
                      RefundAfterRollback, RefundMarketInternal
  <2>4. CASE \E l \in ListingId :
               \/ \E u \in Account : CancelListing(l, u) \/ BuyListedBet(l, u)
               \/ InvalidateStaleListing(l)
               \/ \E b \in BetId, a \in Account, p \in Prices :
                    ListBetForSale(b, a, p, l)
    BY <1>1, <2>1, <2>4 DEF CancelListing, BuyListedBet, InvalidateStaleListing,
                            ListBetForSale, TypeOK
  <2>5. ASSUME \/ \E u \in Account, b \in SyncBalances : SyncUser(u, b)
               \/ \E u \in Account, d \in Deltas : AdjustBalance(u, d)
               \/ \E m \in Market, outs \in SUBSET Outcome, seed \in Seeds :
                    \E ids \in SeedIds(outs, seed) :
                      CreateMarket(m, outs, seed, ids)
               \/ \E u \in Account, m \in Market, o \in Outcome, s \in Stakes,
                     b \in BetId : PlaceBet(u, m, o, s, b)
               \/ \E m \in Market, w \in Outcome : ResolveEmptyPool(m, w)
               \/ \E l \in ListingId : BuyOnClosedMarket(l)
               \/ CallsLost
               \/ UNCHANGED vars
        PROVE  listing' = listing
    BY <2>5 DEF SyncUser, AdjustBalance, CreateMarket, PlaceBet,
                ResolveEmptyPool, BuyOnClosedMarket, CallsLost, vars
  <2> QED BY <1>1, <2>3, <2>4, <2>5 DEF Next, Operation
<1>2. TypeOK /\ [Next]_vars => [TerminalStep]_vars
  BY <1>1 DEF TerminalStep
<1> QED BY <1>2, TypeCorrect, PTL DEF Spec, ListingTerminal

\* Bets and pools of a market that has left OPEN: a bet needs an open market, a
\* sale too, and a new market's rows are new.
THEOREM BetsFreeze == Spec => FrozenOnceClosed
<1>1. ASSUME IInv, [Next]_vars, NEW k \in Market, status[k] \notin {"NONE", "OPEN"}
      PROVE  /\ pool'[k] = pool[k]
             /\ \A c \in BetId : \/ bet'[c] = bet[c]
                                 \/ c \notin BetsOf(k) /\ bet'[c].market # k
  <2> USE DEF IInv
  <2>1. ASSUME NEW m \in Market, NEW outs \in SUBSET Outcome, NEW seed \in Seeds,
               NEW ids \in SeedIds(outs, seed), CreateMarket(m, outs, seed, ids)
        PROVE  /\ pool'[k] = pool[k]
               /\ \A c \in BetId : \/ bet'[c] = bet[c]
                                   \/ c \notin BetsOf(k) /\ bet'[c].market # k
    <3>1. m # k /\ pool'[k] = pool[k]
      BY <1>1, <2>1 DEF CreateMarket, TypeOK
    <3>2. ASSUME NEW c \in BetId, seed > 0 /\ \E o \in outs : ids[o] = c
          PROVE  c \notin BetsOf(k) /\ bet'[c].market # k
      <4>1. c \notin Bets
        BY <3>2 DEF SeedIds, Injection
      <4>2. bet'[c].market = m
        BY <2>1, <3>2 DEF CreateMarket
      <4> QED BY <3>1, <4>1, <4>2 DEF BetsOf
    <3>3. ASSUME NEW c \in BetId, ~ (seed > 0 /\ \E o \in outs : ids[o] = c)
          PROVE  bet'[c] = bet[c]
      BY <2>1, <3>3 DEF CreateMarket
    <3> QED BY <3>1, <3>2, <3>3
  <2>2. ASSUME NEW u \in Account, NEW m \in Market, NEW o \in Outcome,
               NEW s \in Stakes, NEW b \in BetId, PlaceBet(u, m, o, s, b)
        PROVE  /\ pool'[k] = pool[k]
               /\ \A c \in BetId : \/ bet'[c] = bet[c]
                                   \/ c \notin BetsOf(k) /\ bet'[c].market # k
    <3>1. m # k /\ pool'[k] = pool[k]
      BY <1>1, <2>2 DEF PlaceBet, TakesBets, AddToPool, TypeOK
    <3> QED BY <2>2, <3>1 DEF PlaceBet, BetsOf, Bets, TypeOK
  <2>3. ASSUME NEW l \in ListingId, NEW u \in Account, BuyListedBet(l, u)
        PROVE  /\ pool'[k] = pool[k]
               /\ \A c \in BetId : \/ bet'[c] = bet[c]
                                   \/ c \notin BetsOf(k) /\ bet'[c].market # k
    <3> DEFINE sold == listing[l].bet
    <3>1. pool' = pool
      BY <2>3 DEF BuyListedBet
    <3>2. l \in Listed /\ status[listing[l].market] = "OPEN"
      BY <2>3 DEF BuyListedBet
    <3>3. bet[sold] \in BetRow /\ bet[sold].market = listing[l].market
      BY <1>1, <2>3, <3>2 DEF BuyListedBet, ListingsBacked, Bets, TypeOK
    <3>4. bet'[sold].market = bet[sold].market
      BY <1>1, <2>3, <3>3 DEF BuyListedBet, Bets, TypeOK, BetRow
    <3>5. sold \notin BetsOf(k) /\ bet'[sold].market # k
      BY <1>1, <3>2, <3>3, <3>4 DEF BetsOf
    <3>6. \A c \in BetId \ {sold} : bet'[c] = bet[c]
      BY <1>1, <2>3 DEF BuyListedBet, TypeOK
    <3> QED BY <3>1, <3>5, <3>6
  <2>4. ASSUME ~ \E m \in Market, outs \in SUBSET Outcome, seed \in Seeds :
                   \E ids \in SeedIds(outs, seed) : CreateMarket(m, outs, seed, ids),
               ~ \E u \in Account, m \in Market, o \in Outcome, s \in Stakes,
                    b \in BetId : PlaceBet(u, m, o, s, b),
               ~ \E l \in ListingId, u \in Account : BuyListedBet(l, u)
        PROVE  bet' = bet /\ pool' = pool
    BY <1>1, <2>4 DEF Next, Operation, SyncUser, AdjustBalance, LockMarket,
        ResolveMarket, ResolveEmptyPool, CancelMarket, RefundAfterRollback,
        RefundMarketInternal, ListBetForSale, CancelListing, BuyOnClosedMarket,
        InvalidateStaleListing, CallsLost, vars
  <2> QED BY <2>1, <2>2, <2>3, <2>4
<1>2. IInv /\ [Next]_vars => [FrozenStep]_vars
  BY <1>1 DEF FrozenStep, BetsOf, Bets
<1> QED BY <1>2, IInvInvariant, PTL DEF Spec, FrozenOnceClosed

\* The only way a bet that exists changes is BuyListedBet.
LEMMA SaleStepHolds == TypeOK /\ [Next]_vars => [SaleStep]_vars
<1>1. ASSUME TypeOK, [Next]_vars, NEW c \in Bets, bet'[c] # bet[c]
      PROVE  \E l \in Listed :
               /\ listing[l].bet = c
               /\ listing'[l] = [listing[l] EXCEPT !.status = "SOLD",
                                                  !.buyer = bet'[c].owner]
               /\ bet'[c] = [bet[c] EXCEPT !.owner = bet'[c].owner]
               /\ balance' = [balance EXCEPT
                                ![bet'[c].owner] = @ - listing[l].price,
                                ![listing[l].seller] = @ + listing[l].price]
  <2>1. ASSUME NEW m \in Market, NEW outs \in SUBSET Outcome, NEW seed \in Seeds,
               NEW ids \in SeedIds(outs, seed), CreateMarket(m, outs, seed, ids)
        PROVE  FALSE
    <3>1. seed > 0 => \A o \in outs : ids[o] \notin Bets
      BY DEF SeedIds, Injection
    <3> QED BY <1>1, <2>1, <3>1 DEF CreateMarket, Bets
  <2>2. ASSUME NEW u \in Account, NEW m \in Market, NEW o \in Outcome,
               NEW s \in Stakes, NEW b \in BetId, PlaceBet(u, m, o, s, b)
        PROVE  FALSE
    BY <1>1, <2>2 DEF PlaceBet, Bets, TypeOK
  <2>3. PICK l \in ListingId, u \in Account : BuyListedBet(l, u)
    <3>1. bet' # bet
      BY <1>1
    <3> QED
      BY <1>1, <2>1, <2>2, <3>1
         DEF Next, Operation, SyncUser, AdjustBalance, LockMarket, ResolveMarket,
             ResolveEmptyPool, CancelMarket, RefundAfterRollback,
             RefundMarketInternal, ListBetForSale, CancelListing,
             BuyOnClosedMarket, InvalidateStaleListing, CallsLost, vars
  <2>4. l \in Listed /\ listing[l] \in ListingRow /\ listing[l].bet = c
    BY <1>1, <2>3 DEF BuyListedBet, Listed, Listings, TypeOK
  <2>5. bet[c] \in BetRow /\ c \in BetId
    BY <1>1 DEF Bets, TypeOK
  <2>6. bet'[c] = [bet[c] EXCEPT !.owner = u]
    BY <2>3, <2>4, <2>5, <1>1 DEF BuyListedBet, TypeOK
  <2>7. bet'[c].owner = u
    BY <2>5, <2>6 DEF BetRow
  <2>8. listing'[l] = [listing[l] EXCEPT !.status = "SOLD", !.buyer = u]
    BY <1>1, <2>3 DEF BuyListedBet, TypeOK
  <2>9. balance' = [balance EXCEPT ![u] = @ - listing[l].price,
                                  ![listing[l].seller] = @ + listing[l].price]
    BY <2>3 DEF BuyListedBet, BalancesAfterSale
  <2> QED BY <2>4, <2>6, <2>7, <2>8, <2>9
<1> QED BY <1>1 DEF SaleStep

\* A sale pays the seller of the listing, and nobody else, out of the buyer's
\* balance, whoever the buyer is.
THEOREM SalesArePeerToPeer == Spec => SaleIsPeerToPeer
BY SaleStepHolds, TypeCorrect, PTL DEF Spec, SaleIsPeerToPeer

\* A bet of the house is not for sale, so the step that would change it has no
\* listing to go by, and no step lists it: MayList is the one guard that says so.
LEMMA KeepStepHolds == IInv /\ [Next]_vars => KeepStep
<1>1. ASSUME IInv, [SaleStep]_vars, IInv', NEW b \in Bets, bet[b].owner = House
      PROVE  /\ b \in Bets' /\ bet'[b].owner = House
             /\ \A l \in Listed' : listing'[l].bet # b
  <2>1. \A l \in Listed : listing[l].bet # b
    BY <1>1 DEF IInv, ListingsBacked, SellersAreUsers, Listed
  <2>2. bet'[b] = bet[b]
    BY <1>1, <2>1 DEF SaleStep, vars
  <2>3. b \in Bets' /\ bet'[b].owner = House
    BY <1>1, <2>2 DEF Bets
  <2>4. ASSUME NEW l \in Listed', listing'[l].bet = b
        PROVE  FALSE
    <3>1. bet'[b].owner = listing'[l].seller
      BY <1>1, <2>4 DEF IInv, ListingsBacked
    <3>2. listing'[l].seller # House
      BY <1>1, <2>4 DEF IInv, SellersAreUsers, Listed
    <3> QED BY <2>3, <3>1, <3>2
  <2> QED BY <2>3, <2>4
<1>2. IInv /\ [Next]_vars => [SaleStep]_vars /\ IInv'
  BY SaleStepHolds, TypeStep, BackedStep, SellersStep DEF IInv
<1> QED BY <1>1, <1>2 DEF KeepStep

\* HouseKeepsItsBets: no bet that the house owns, a seed, a bet of its own or one it
\* has bought, is ever for sale or changes hands.
THEOREM HouseAlwaysKeeps == Spec => HouseKeepsItsBets
<1>1. IInv /\ [Next]_vars => [KeepStep]_vars
  BY KeepStepHolds
<1> QED BY <1>1, IInvInvariant, PTL DEF Spec, HouseKeepsItsBets

-----------------------------------------------------------------------------
(* What the engine's steps leave for good *)

\* Users stay, and a market's rows change by its lifecycle alone.
LEMMA MarketsPersist ==
  ASSUME TypeOK, [Next]_vars
  PROVE  /\ users \subseteq users'
         /\ \A m \in Market :
              /\ status[m] # "NONE" => status'[m] # "NONE" /\ outcomes'[m] = outcomes[m]
              /\ status[m] \notin {"NONE", "OPEN"} => status'[m] \notin {"NONE", "OPEN"}
              /\ status[m] \in Settled => status'[m] = status[m]
<1>1. users \subseteq users'
  BY DEF Next, Operation, SyncUser, AdjustBalance, CreateMarket, PlaceBet, LockMarket,
         ResolveMarket, ResolveEmptyPool, CancelMarket, RefundAfterRollback,
         RefundMarketInternal, ListBetForSale, CancelListing, BuyListedBet,
         BuyOnClosedMarket, InvalidateStaleListing, CallsLost, userVars, vars
<1>2. ASSUME NEW m \in Market
      PROVE  /\ status[m] # "NONE" => status'[m] # "NONE"
             /\ status[m] \notin {"NONE", "OPEN"} => status'[m] \notin {"NONE", "OPEN"}
             /\ status[m] \in Settled => status'[m] = status[m]
  BY StatusStep DEF TypeOK, Settled
<1>3. ASSUME NEW m \in Market, status[m] # "NONE"
      PROVE  outcomes'[m] = outcomes[m]
  BY <1>3
     DEF Next, Operation, SyncUser, AdjustBalance, CreateMarket, PlaceBet, LockMarket,
         ResolveMarket, ResolveEmptyPool, CancelMarket, RefundAfterRollback,
         RefundMarketInternal, ListBetForSale, CancelListing, BuyListedBet,
         BuyOnClosedMarket, InvalidateStaleListing, CallsLost, marketVars, vars, TypeOK
<1> QED BY <1>1, <1>2, <1>3

\* A bet changes hands at most.
SameBet(b) ==
  /\ b \in Bets'
  /\ bet'[b].market = bet[b].market /\ bet'[b].original = bet[b].original
  /\ bet'[b].outcome = bet[b].outcome /\ bet'[b].stake = bet[b].stake

LEMMA BetsPersist ==
  ASSUME TypeOK, [Next]_vars, NEW b \in Bets
  PROVE  SameBet(b)
<1>1. b \in BetId /\ bet[b] # NoBet /\ bet[b] \in BetRow
  BY DEF Bets, TypeOK
<1>2. CASE bet'[b] = bet[b]
  BY <1>1, <1>2 DEF SameBet, Bets
<1>3. ASSUME NEW m \in Market, NEW outs \in SUBSET Outcome, NEW seed \in Seeds,
             NEW ids \in SeedIds(outs, seed), CreateMarket(m, outs, seed, ids)
      PROVE  bet'[b] = bet[b]
  BY <1>1, <1>3 DEF CreateMarket, SeedIds, Injection, IsInjective
<1>4. ASSUME NEW u \in Account, NEW m \in Market, NEW o \in Outcome, NEW s \in Stakes,
             NEW c \in BetId, PlaceBet(u, m, o, s, c)
      PROVE  bet'[b] = bet[b]
  BY <1>4 DEF PlaceBet
<1>5. ASSUME NEW l \in ListingId, NEW u \in Account, BuyListedBet(l, u)
      PROVE  SameBet(b)
  <2>1. CASE listing[l].bet = b
    <3>1. bet'[b] = [bet[b] EXCEPT !.owner = u]
      BY <1>1, <1>5, <2>1 DEF BuyListedBet, TypeOK
    <3>2. [bet[b] EXCEPT !.owner = u] \in BetRow
      BY <1>1 DEF BetRow, Account
    <3> QED BY <1>1, <3>1, <3>2, SentinelAssumption DEF SameBet, Bets, BetRow
  <2>2. CASE listing[l].bet # b
    BY <1>2, <1>5, <2>2 DEF BuyListedBet
  <2> QED BY <2>1, <2>2
<1>6. ASSUME \/ \E u \in Account, x \in SyncBalances : SyncUser(u, x)
             \/ \E u \in Account, d \in Deltas : AdjustBalance(u, d)
             \/ \E m \in Market : \/ LockMarket(m)
                                  \/ \E w \in Outcome : ResolveMarket(m, w)
                                  \/ \E w \in Outcome : ResolveEmptyPool(m, w)
                                  \/ CancelMarket(m)
                                  \/ RefundAfterRollback(m)
             \/ \E c \in BetId, a \in Account, p \in Prices, l \in ListingId :
                  ListBetForSale(c, a, p, l)
             \/ \E l \in ListingId : \/ \E u \in Account : CancelListing(l, u)
                                     \/ BuyOnClosedMarket(l)
                                     \/ InvalidateStaleListing(l)
             \/ CallsLost
             \/ UNCHANGED vars
      PROVE  bet' = bet
  BY <1>6 DEF SyncUser, AdjustBalance, LockMarket, ResolveMarket, ResolveEmptyPool,
              CancelMarket, RefundAfterRollback, RefundMarketInternal, ListBetForSale,
              CancelListing, BuyOnClosedMarket, InvalidateStaleListing, CallsLost, vars
<1> QED BY <1>2, <1>3, <1>4, <1>5, <1>6 DEF Next, Operation

\* A listing ends at most, and then it is as it ended.
SameListing(l) ==
  /\ l \in Listings'
  /\ listing'[l].bet = listing[l].bet /\ listing'[l].seller = listing[l].seller
  /\ listing'[l].price = listing[l].price
  /\ listing[l].status # "LISTED" => listing'[l] = listing[l]

LEMMA ListingsPersist ==
  ASSUME TypeOK, [Next]_vars, NEW k \in Listings
  PROVE  SameListing(k)
<1>1. k \in ListingId /\ listing[k] # NoListing /\ listing[k] \in ListingRow
  BY DEF Listings, TypeOK
<1>2. CASE listing'[k] = listing[k]
  BY <1>1, <1>2 DEF SameListing, Listings
<1>3. ASSUME NEW row \in ListingRow, listing'[k] = row, k \in Listed,
             row.bet = listing[k].bet, row.seller = listing[k].seller,
             row.price = listing[k].price
      PROVE  SameListing(k)
  BY <1>1, <1>3, SentinelAssumption DEF SameListing, Listings, Listed
<1>4. ASSUME k \in Listed, listing'[k] = [listing[k] EXCEPT !.status = "CANCELLED"]
      PROVE  SameListing(k)
  BY <1>1, <1>3, <1>4 DEF ListingRow, ListingStatus
<1>5. ASSUME NEW m \in Market, listing' = CancelListingsOf(m)
      PROVE  SameListing(k)
  BY <1>1, <1>2, <1>4, <1>5 DEF CancelListingsOf
<1>6. CASE \E m \in Market : \/ LockMarket(m)
                             \/ \E w \in Outcome : ResolveMarket(m, w)
                             \/ CancelMarket(m)
                             \/ RefundAfterRollback(m)
  BY <1>2, <1>5, <1>6 DEF LockMarket, ResolveMarket, CancelMarket, RefundAfterRollback,
                          RefundMarketInternal
<1>7. CASE \E l \in ListingId : \/ \E u \in Account : CancelListing(l, u)
                                \/ InvalidateStaleListing(l)
  BY <1>1, <1>2, <1>4, <1>7 DEF CancelListing, InvalidateStaleListing, TypeOK
<1>8. ASSUME NEW l \in ListingId, NEW u \in Account, BuyListedBet(l, u)
      PROVE  SameListing(k)
  <2>1. CASE l = k
    <3> DEFINE row == [[listing[k] EXCEPT !.status = "SOLD"] EXCEPT !.buyer = u]
    <3>1. listing'[k] = row /\ k \in Listed
      BY <1>1, <1>8, <2>1 DEF BuyListedBet, TypeOK
    <3>2. /\ row \in ListingRow /\ row.bet = listing[k].bet
          /\ row.seller = listing[k].seller /\ row.price = listing[k].price
      BY <1>1 DEF ListingRow, ListingStatus, Account
    <3>3. PICK r \in ListingRow : r = row
      BY <3>2
    <3> QED BY <1>3, <3>1, <3>2, <3>3
  <2>2. CASE l # k
    BY <1>1, <1>2, <1>8, <2>2 DEF BuyListedBet, TypeOK
  <2> QED BY <2>1, <2>2
<1>9. ASSUME NEW c \in BetId, NEW a \in Account, NEW p \in Prices, NEW l \in ListingId,
             ListBetForSale(c, a, p, l)
      PROVE  listing'[k] = listing[k]
  BY <1>9 DEF ListBetForSale
<1>10. ASSUME \/ \E u \in Account, x \in SyncBalances : SyncUser(u, x)
              \/ \E u \in Account, d \in Deltas : AdjustBalance(u, d)
              \/ \E m \in Market, outs \in SUBSET Outcome, seed \in Seeds :
                   \E ids \in SeedIds(outs, seed) : CreateMarket(m, outs, seed, ids)
              \/ \E u \in Account, m \in Market, o \in Outcome, s \in Stakes, b \in BetId :
                   PlaceBet(u, m, o, s, b)
              \/ \E m \in Market, w \in Outcome : ResolveEmptyPool(m, w)
              \/ \E l \in ListingId : BuyOnClosedMarket(l)
              \/ CallsLost
              \/ UNCHANGED vars
       PROVE  listing' = listing
  BY <1>10 DEF SyncUser, AdjustBalance, CreateMarket, PlaceBet, ResolveEmptyPool,
               BuyOnClosedMarket, CallsLost, vars
<1> QED BY <1>2, <1>6, <1>7, <1>8, <1>9, <1>10 DEF Next, Operation

-----------------------------------------------------------------------------
(* Stakes: sums over the bets table *)

\* The bets of a table t, which is bet or bet', and what they add up to.

Placed(t) == {b \in BetId : t[b] # NoBet}
On(t, m) == {b \in Placed(t) : t[b].market = m}
OnOutcome(t, m, o) == {b \in On(t, m) : t[b].outcome = o}
StakesOf(t, B) == SumFunctionOnSet([b \in B |-> t[b].stake], B)

\* The model's sets and sums are those of the table before and after a step.
LEMMA Tables ==
  /\ Bets = Placed(bet) /\ Bets' = Placed(bet')
  /\ \A m : BetsOf(m) = On(bet, m) /\ BetsOf(m)' = On(bet', m)
  /\ \A B : StakeSum(B) = StakesOf(bet, B) /\ StakeSum(B)' = StakesOf(bet', B)
BY DEF Bets, BetsOf, StakeSum, Placed, On, StakesOf

LEMMA FiniteBets ==
  ASSUME NEW B \in SUBSET BetId
  PROVE  IsFiniteSet(B)
BY IdAssumption, FS_Subset

LEMMA StakesNat ==
  ASSUME NEW t, NEW B \in SUBSET BetId, \A b \in B : t[b].stake \in Nat
  PROVE  StakesOf(t, B) \in Nat
<1>1. PICK f : f = [b \in B |-> t[b].stake]
  OBVIOUS
<1>2. IsFiniteSet(B) /\ \A b \in B : f[b] \in Nat
  BY <1>1, FiniteBets
<1>3. SumFunctionOnSet(f, B) \in Nat
  BY <1>2, SumNat
<1> QED BY <1>1, <1>3 DEF StakesOf

LEMMA StakesSame ==
  ASSUME NEW t, NEW u, NEW B, \A b \in B : u[b].stake = t[b].stake
  PROVE  StakesOf(u, B) = StakesOf(t, B)
<1>1. [b \in B |-> u[b].stake] = [b \in B |-> t[b].stake]
  OBVIOUS
<1> QED BY <1>1 DEF StakesOf

LEMMA StakesAdd ==
  ASSUME NEW t, NEW B \in SUBSET BetId, NEW b \in BetId \ B,
         \A c \in B \cup {b} : t[c].stake \in Int
  PROVE  StakesOf(t, B \cup {b}) = t[b].stake + StakesOf(t, B)
<1>1. PICK f, g : f = [c \in B |-> t[c].stake] /\ g = [c \in B \cup {b} |-> t[c].stake]
  OBVIOUS
<1>2. /\ IsFiniteSet(B) /\ b \notin B /\ g[b] \in Int
      /\ \A c \in B : f[c] \in Int /\ g[c] \in Int /\ g[c] = f[c]
  BY <1>1, FiniteBets
<1>3. SumFunctionOnSet(g, B \cup {b}) = g[b] + SumFunctionOnSet(g, B)
  BY <1>2, SumAdd
<1>4. SumFunctionOnSet(g, B) = SumFunctionOnSet(f, B)
  BY <1>2, SumSame
<1> QED BY <1>1, <1>3, <1>4 DEF StakesOf

LEMMA StakesNone ==
  ASSUME NEW t
  PROVE  StakesOf(t, {}) = 0
BY SumEmpty DEF StakesOf

-----------------------------------------------------------------------------
(* Pools *)

\* Bets are on outcomes of markets that exist.
BetsKnown ==
  \A b \in Bets : LET m == bet[b].market IN
    status[m] # "NONE" /\ bet[b].outcome \in outcomes[m]

\* The bets table grows by the seeds of a market or by a bet.
LEMMA BetsGrow ==
  ASSUME TypeOK, [Next]_vars
  PROVE  \/ \E m \in Market, outs \in SUBSET Outcome, seed \in Seeds :
              \E ids \in SeedIds(outs, seed) : CreateMarket(m, outs, seed, ids)
         \/ \E u \in Account, m \in Market, o \in Outcome, s \in Stakes, b \in BetId :
              PlaceBet(u, m, o, s, b)
         \/ Placed(bet') = Placed(bet) /\ pool' = pool
<1>1. ASSUME NEW l \in ListingId, NEW u \in Account, BuyListedBet(l, u)
      PROVE  Placed(bet') = Placed(bet) /\ pool' = pool
  <2>1. PICK sold \in Bets : /\ bet' = [bet EXCEPT ![sold].owner = u]
    BY <1>1 DEF BuyListedBet
  <2>2. bet[sold] \in BetRow /\ [bet[sold] EXCEPT !.owner = u] \in BetRow
    BY <2>1 DEF Bets, TypeOK, BetRow, Account
  <2>3. \A b \in BetId : bet'[b] # NoBet <=> bet[b] # NoBet
    BY <2>1, <2>2, SentinelAssumption DEF TypeOK, Bets
  <2> QED BY <1>1, <2>3 DEF BuyListedBet, Placed
<1>2. ASSUME ~ \E m \in Market, outs \in SUBSET Outcome, seed \in Seeds :
                 \E ids \in SeedIds(outs, seed) : CreateMarket(m, outs, seed, ids),
             ~ \E u \in Account, m \in Market, o \in Outcome, s \in Stakes,
                  b \in BetId : PlaceBet(u, m, o, s, b),
             ~ \E l \in ListingId, u \in Account : BuyListedBet(l, u)
      PROVE  bet' = bet /\ pool' = pool
  BY <1>2 DEF Next, Operation, SyncUser, AdjustBalance, LockMarket, ResolveMarket,
              ResolveEmptyPool, CancelMarket, RefundAfterRollback,
              RefundMarketInternal, ListBetForSale, CancelListing,
              BuyOnClosedMarket, InvalidateStaleListing, CallsLost, vars
<1> QED BY <1>1, <1>2

\* The rows that a new market gets.
LEMMA SeedRows ==
  ASSUME TypeOK, NEW m \in Market, NEW outs \in SUBSET Outcome, NEW seed \in Seeds,
         NEW ids \in SeedIds(outs, seed), CreateMarket(m, outs, seed, ids)
  PROVE  \A o \in outs : seed > 0 =>
           /\ ids[o] \in BetId \ Bets
           /\ \A k \in outs : ids[k] = ids[o] => k = o
           /\ bet'[ids[o]] = [market |-> m, owner |-> House, original |-> House,
                              outcome |-> o, stake |-> seed]
<1>1. SUFFICES ASSUME NEW o \in outs, seed > 0
               PROVE  /\ ids[o] \in BetId \ Bets
                      /\ \A k \in outs : ids[k] = ids[o] => k = o
                      /\ bet'[ids[o]] = [market |-> m, owner |-> House,
                           original |-> House, outcome |-> o, stake |-> seed]
  OBVIOUS
<1>2. ids[o] \in BetId \ Bets /\ \A k \in outs : ids[k] = ids[o] => k = o
  BY <1>1 DEF SeedIds, Injection, IsInjective
<1>3. (CHOOSE k \in outs : ids[k] = ids[o]) = o
  BY <1>2
<1> QED BY <1>1, <1>2, <1>3 DEF CreateMarket

\* A bet that CreateMarket adds is a seed of the new market, on one outcome of it.
LEMMA SeedsOn ==
  ASSUME TypeOK, NEW m \in Market, NEW outs \in SUBSET Outcome, NEW seed \in Seeds,
         NEW ids \in SeedIds(outs, seed), CreateMarket(m, outs, seed, ids),
         NEW b \in Placed(bet') \ Bets
  PROVE  /\ bet'[b].market = m /\ bet'[b].stake = seed /\ seed > 0
         /\ bet'[b].outcome \in outs /\ ids[bet'[b].outcome] = b
         /\ bet'[b].owner = House
<1>1. PICK o \in outs : seed > 0 /\ ids[o] = b
  BY DEF CreateMarket, Placed, Bets
<1>2. bet'[ids[o]] = [market |-> m, owner |-> House, original |-> House,
                     outcome |-> o, stake |-> seed]
  BY <1>1, SeedRows
<1> QED BY <1>1, <1>2

\* A bet is placed on an outcome of a market that exists, and neither goes away.
LEMMA BetsKnownStep == TypeOK /\ BetsKnown /\ [Next]_vars => BetsKnown'
<1>1. SUFFICES ASSUME TypeOK, BetsKnown, [Next]_vars, NEW b \in Placed(bet')
               PROVE  /\ status'[bet'[b].market] # "NONE"
                      /\ bet'[b].outcome \in outcomes'[bet'[b].market]
  BY Tables DEF BetsKnown
<1>2. CASE b \in Bets
  <2>1. bet[b] \in BetRow
    BY <1>1, <1>2 DEF Bets, TypeOK
  <2>2. bet[b].market \in Market
    BY <2>1 DEF BetRow
  <2> QED BY <1>1, <1>2, <2>2, BetsPersist, MarketsPersist DEF BetsKnown, SameBet
<1>3. ASSUME b \notin Bets,
             NEW m \in Market, NEW outs \in SUBSET Outcome, NEW seed \in Seeds,
             NEW ids \in SeedIds(outs, seed), CreateMarket(m, outs, seed, ids)
      PROVE  /\ status'[bet'[b].market] # "NONE"
             /\ bet'[b].outcome \in outcomes'[bet'[b].market]
  <2>1. bet'[b].market = m /\ bet'[b].outcome \in outs
    BY <1>1, <1>3, SeedsOn
  <2> QED BY <1>1, <1>3, <2>1 DEF CreateMarket, TypeOK
<1>4. ASSUME b \notin Bets, NEW u \in Account, NEW m \in Market, NEW o \in Outcome,
             NEW s \in Stakes, NEW c \in BetId, PlaceBet(u, m, o, s, c)
      PROVE  /\ status'[bet'[b].market] # "NONE"
             /\ bet'[b].outcome \in outcomes'[bet'[b].market]
  <2>1. b = c
    BY <1>1, <1>4 DEF PlaceBet, Placed, Bets, TypeOK
  <2> QED BY <1>1, <1>4, <2>1 DEF PlaceBet, TakesBets, marketVars, TypeOK
<1> QED BY <1>1, <1>2, <1>3, <1>4, BetsGrow, Tables

\* A pools table says of an outcome what a bets table adds up to.
PoolFits(p, t, m, o) == p[m][o] = StakesOf(t, OnOutcome(t, m, o))

LEMMA PoolTables ==
  /\ PoolsMatchBets <=> \A m \in Market, o \in Outcome : PoolFits(pool, bet, m, o)
  /\ PoolsMatchBets' <=> \A m \in Market, o \in Outcome : PoolFits(pool', bet', m, o)
BY DEF PoolsMatchBets, PoolFits, OnOutcome, StakesOf, StakeSum, BetsOf, Bets, On,
       Placed

\* Where the same bets stay, their stakes do.
LEMMA SameBetsSameStakes ==
  ASSUME TypeOK, [Next]_vars, NEW B \in SUBSET Bets
  PROVE  StakesOf(bet', B) = StakesOf(bet, B)
<1>1. \A b \in B : bet'[b].stake = bet[b].stake
  BY BetsPersist DEF SameBet
<1> QED BY <1>1, StakesSame

\* A new market's pools are its seed bets, a bet adds to its own pool alone, and
\* nothing else moves a stake: a sale changes the owner, a settlement no bet.
LEMMA PoolsStep ==
  TypeOK /\ BetsKnown /\ PoolsMatchBets /\ [Next]_vars => PoolsMatchBets'
<1>1. SUFFICES ASSUME TypeOK, BetsKnown, PoolsMatchBets, [Next]_vars,
                      NEW k \in Market, NEW j \in Outcome
               PROVE  PoolFits(pool', bet', k, j)
  BY PoolTables
<1>2. PICK B : B = OnOutcome(bet, k, j)
  OBVIOUS
<1>3. B \in SUBSET Bets /\ B \in SUBSET BetId /\ pool[k][j] = StakesOf(bet, B)
  BY <1>1, <1>2, PoolTables DEF PoolFits, OnOutcome, On, Placed, Bets
<1>4. StakesOf(bet', B) = StakesOf(bet, B)
  BY <1>1, <1>3, SameBetsSameStakes
<1>5. B \subseteq OnOutcome(bet', k, j)
  BY <1>1, <1>2, <1>3, BetsPersist DEF OnOutcome, On, Placed, SameBet, Bets
<1>6. \A b \in Bets : b \in OnOutcome(bet', k, j) => b \in B
  BY <1>1, <1>2, BetsPersist DEF OnOutcome, On, Placed, SameBet, Bets
<1>7. ASSUME OnOutcome(bet', k, j) \subseteq Bets, pool'[k][j] = pool[k][j]
      PROVE  PoolFits(pool', bet', k, j)
  <2>1. OnOutcome(bet', k, j) = B
    BY <1>5, <1>6, <1>7
  <2> QED BY <1>3, <1>4, <1>7, <2>1 DEF PoolFits
<1>8. ASSUME NEW m \in Market, NEW outs \in SUBSET Outcome, NEW seed \in Seeds,
             NEW ids \in SeedIds(outs, seed), CreateMarket(m, outs, seed, ids)
      PROVE  PoolFits(pool', bet', k, j)
  <2>1. ASSUME NEW b \in Placed(bet') \ Bets
        PROVE  /\ bet'[b].market = m /\ bet'[b].outcome \in outs /\ seed > 0
               /\ ids[bet'[b].outcome] = b
    BY <1>1, <1>8, SeedsOn
  <2>3. CASE k # m
    <3>1. pool'[k][j] = pool[k][j]
      BY <1>1, <1>8, <2>3 DEF CreateMarket, TypeOK
    <3>2. OnOutcome(bet', k, j) \subseteq Bets
      BY <2>1, <2>3 DEF OnOutcome, On
    <3> QED BY <1>7, <3>1, <3>2
  <2>4. CASE k = m
    <3>1. B = {}
      BY <1>1, <1>2, <1>8, <2>4, Tables DEF BetsKnown, CreateMarket, OnOutcome, On
    <3>2. pool'[k][j] = IF j \in outs THEN seed ELSE 0
      BY <1>1, <1>8, <2>4 DEF CreateMarket, TypeOK
    <3>3. seed \in Nat
      BY <1>8, AmountAssumption DEF CreateMarket
    <3>4. CASE seed > 0 /\ j \in outs
      <4>1. /\ ids[j] \in BetId /\ bet'[ids[j]].stake = seed
            /\ OnOutcome(bet', k, j) = {ids[j]}
        <5>1. /\ ids[j] \in BetId
              /\ bet'[ids[j]] = [market |-> m, owner |-> House, original |-> House,
                                 outcome |-> j, stake |-> seed]
          BY <1>1, <1>8, <3>4, SeedRows
        <5>2. bet'[ids[j]] \in BetRow
          BY <1>8, <3>3, <3>4, <5>1 DEF BetRow, Account
        <5>3. ids[j] \in OnOutcome(bet', k, j)
          BY <2>4, <5>1, <5>2, SentinelAssumption DEF OnOutcome, On, Placed
        <5>4. ASSUME NEW b \in OnOutcome(bet', k, j)
              PROVE  b = ids[j]
          <6>1. b \in Placed(bet') \ Bets /\ bet'[b].outcome = j
            BY <1>6, <3>1 DEF OnOutcome, On
          <6> QED BY <2>1, <6>1
        <5> QED BY <5>1, <5>3, <5>4
      <4>2. StakesOf(bet', {} \cup {ids[j]}) = seed + StakesOf(bet', {})
        BY <3>3, <4>1, StakesAdd
      <4>3. {} \cup {ids[j]} = {ids[j]}
        OBVIOUS
      <4> QED BY <3>2, <3>3, <3>4, <4>1, <4>2, <4>3, StakesNone DEF PoolFits
    <3>5. CASE ~ (seed > 0 /\ j \in outs)
      <4>1. OnOutcome(bet', k, j) = {}
        <5>1. SUFFICES ASSUME NEW b \in OnOutcome(bet', k, j)
                       PROVE  FALSE
          OBVIOUS
        <5>2. b \in Placed(bet') \ Bets /\ bet'[b].outcome = j
          BY <1>6, <3>1, <5>1 DEF OnOutcome, On
        <5> QED BY <2>1, <3>5, <5>2
      <4> QED BY <3>2, <3>3, <3>5, <4>1, StakesNone DEF PoolFits
    <3> QED BY <3>4, <3>5
  <2> QED BY <2>3, <2>4
<1>9. ASSUME NEW u \in Account, NEW m \in Market, NEW o \in Outcome, NEW s \in Stakes,
             NEW c \in BetId, PlaceBet(u, m, o, s, c)
      PROVE  PoolFits(pool', bet', k, j)
  <2>1. /\ c \in BetId \ Bets
        /\ bet'[c] = [market |-> m, owner |-> u, original |-> u,
                      outcome |-> o, stake |-> s]
        /\ Placed(bet') \subseteq Bets \cup {c} /\ s \in Nat \ {0}
    BY <1>1, <1>9, AmountAssumption DEF PlaceBet, Placed, Bets, TypeOK
  <2>2. CASE k = m /\ j = o
    <3>1. bet'[c] \in BetRow
      BY <1>9, <2>1 DEF BetRow, Account
    <3>2. OnOutcome(bet', k, j) = B \cup {c}
      BY <1>5, <1>6, <2>1, <2>2, <3>1, SentinelAssumption DEF OnOutcome, On, Placed
    <3>3. \A b \in B \cup {c} : bet'[b].stake \in Int
      <4>1. \A b \in B : bet'[b].stake = bet[b].stake /\ bet[b].stake \in Nat
        BY <1>1, <1>3, BetsPersist DEF SameBet, Bets, TypeOK, BetRow
      <4> QED BY <2>1, <4>1
    <3>4. c \in BetId \ B
      BY <1>3, <2>1
    <3>5. StakesOf(bet', B \cup {c}) = s + StakesOf(bet', B)
      BY <1>3, <2>1, <3>3, <3>4, StakesAdd
    <3>6. pool'[k][j] = pool[k][j] + s /\ pool[k][j] \in Nat
      BY <1>1, <1>9, <2>2 DEF PlaceBet, AddToPool, TypeOK
    <3> QED BY <1>3, <1>4, <2>1, <3>2, <3>5, <3>6 DEF PoolFits
  <2>3. CASE ~ (k = m /\ j = o)
    <3>1. pool'[k][j] = pool[k][j]
      BY <1>1, <1>9, <2>3 DEF PlaceBet, AddToPool, TypeOK
    <3>2. OnOutcome(bet', k, j) \subseteq Bets
      BY <2>1, <2>3 DEF OnOutcome, On
    <3> QED BY <1>7, <3>1, <3>2
  <2> QED BY <2>2, <2>3
<1>10. CASE Placed(bet') = Placed(bet) /\ pool' = pool
  BY <1>7, <1>10, Tables DEF OnOutcome, On
<1> QED BY <1>1, <1>8, <1>9, <1>10, BetsGrow

\* The pools need BetsKnown: a market that is created has no bets yet.
MoneyInv == IInv /\ BetsKnown /\ PoolsMatchBets

LEMMA MoneyInvariant == Spec => []MoneyInv
<1>1. ASSUME Init
      PROVE  MoneyInv
  <2>1. IInv
    BY <1>1, AmountAssumption
       DEF Init, IInv, TypeOK, ListingsBacked, SellersAreUsers,
           Listed, Listings, Bets, Account
  <2>2. Placed(bet) = {}
    BY <1>1 DEF Init, Placed
  <2>3. BetsKnown
    BY <2>2, Tables DEF BetsKnown
  <2>4. ASSUME NEW m \in Market, NEW o \in Outcome
        PROVE  PoolFits(pool, bet, m, o)
    <3>1. pool[m][o] = 0 /\ OnOutcome(bet, m, o) = {}
      BY <1>1, <2>2 DEF Init, OnOutcome, On
    <3> QED BY <3>1, StakesNone DEF PoolFits
  <2> QED BY <2>1, <2>3, <2>4, PoolTables DEF MoneyInv
<1>2. MoneyInv /\ [Next]_vars => MoneyInv'
  BY TypeStep, BackedStep, SellersStep, BetsKnownStep, PoolsStep
     DEF MoneyInv, IInv
<1> QED BY <1>1, <1>2, PTL DEF Spec

\* A pool's total is what its bets add up to, whatever is placed, seeded, sold,
\* refunded or paid: PlaceBet's increment of the pools row and its insertion of
\* the bets row, CreateMarket's seeds included, never drift apart.
THEOREM PoolsAlwaysMatchBets == Spec => []PoolsMatchBets
<1>1. MoneyInv => PoolsMatchBets
  BY DEF MoneyInv
<1> QED BY <1>1, MoneyInvariant, PTL

-----------------------------------------------------------------------------
(* The audit trail of sales *)

\* The rows of a bet in a table t of listings that are SOLD, by and to an account.
SoldOf(t, b) ==
  {l \in ListingId : t[l] # NoListing /\ t[l].bet = b /\ t[l].status = "SOLD"}
SoldBy(t, b, a) == {l \in SoldOf(t, b) : t[l].seller = a}
BoughtBy(t, b, a) == {l \in SoldOf(t, b) : t[l].buyer = a}

\* What SalesLeadToOwner says of one bet and one account.
Trail(t, row, b, a) ==
  Cardinality(SoldBy(t, b, a)) + (IF row.owner = a THEN 1 ELSE 0)
    = Cardinality(BoughtBy(t, b, a)) + (IF row.original = a THEN 1 ELSE 0)

LEMMA TrailTables ==
  /\ SalesLeadToOwner <=> \A b \in Bets, a \in Account : Trail(listing, bet[b], b, a)
  /\ SalesLeadToOwner' <=>
       \A b \in Placed(bet'), a \in Account : Trail(listing', bet'[b], b, a)
<1> DEFINE sold(b) == {l \in Listings : listing[l].bet = b /\ listing[l].status = "SOLD"}
<1>1. ASSUME NEW b, NEW a
      PROVE  /\ {l \in sold(b) : listing[l].seller = a} = SoldBy(listing, b, a)
             /\ {l \in sold(b) : listing[l].buyer = a} = BoughtBy(listing, b, a)
             /\ {l \in sold(b)' : listing'[l].seller = a} = SoldBy(listing', b, a)
             /\ {l \in sold(b)' : listing'[l].buyer = a} = BoughtBy(listing', b, a)
  BY DEF Listings, SoldBy, BoughtBy, SoldOf
<1>2. ASSUME NEW b, NEW a
      PROVE  Trail(listing, bet[b], b, a) <=>
               Cardinality({l \in sold(b) : listing[l].seller = a})
                 + (IF bet[b].owner = a THEN 1 ELSE 0)
               = Cardinality({l \in sold(b) : listing[l].buyer = a})
                 + (IF bet[b].original = a THEN 1 ELSE 0)
  BY <1>1 DEF Trail
<1>3. ASSUME NEW b, NEW a
      PROVE  Trail(listing', bet'[b], b, a) <=>
               Cardinality({l \in sold(b)' : listing'[l].seller = a})
                 + (IF bet'[b].owner = a THEN 1 ELSE 0)
               = Cardinality({l \in sold(b)' : listing'[l].buyer = a})
                 + (IF bet'[b].original = a THEN 1 ELSE 0)
  BY <1>1 DEF Trail
<1>4. SalesLeadToOwner <=> \A b \in Bets, a \in Account : Trail(listing, bet[b], b, a)
  BY <1>2 DEF SalesLeadToOwner
<1>5. SalesLeadToOwner' <=> \A b \in Bets', a \in Account : Trail(listing', bet'[b], b, a)
  BY <1>3 DEF SalesLeadToOwner
<1> QED BY <1>4, <1>5, Tables

LEMMA FiniteTrail ==
  ASSUME NEW t, NEW b, NEW a
  PROVE  /\ IsFiniteSet(SoldBy(t, b, a)) /\ IsFiniteSet(BoughtBy(t, b, a))
         /\ Cardinality(SoldBy(t, b, a)) \in Nat /\ Cardinality(BoughtBy(t, b, a)) \in Nat
<1>1. SoldBy(t, b, a) \subseteq ListingId /\ BoughtBy(t, b, a) \subseteq ListingId
  BY DEF SoldBy, BoughtBy, SoldOf
<1> QED BY <1>1, IdAssumption, FS_Subset, FS_CardinalityType

\* No row of bet_listings is for a bet that does not exist.
ListingsKnown == \A l \in Listings : listing[l].bet \in Bets

\* What a step does to a row of bet_listings.
LEMMA ListingChange ==
  ASSUME TypeOK, [Next]_vars, NEW k \in ListingId
  PROVE  \/ listing'[k] = listing[k]
         \/ /\ k \notin Listings /\ listing'[k].status = "LISTED"
            /\ listing'[k].bet \in Bets
         \/ k \in Listed /\ listing'[k] = [listing[k] EXCEPT !.status = "CANCELLED"]
         \/ \E u \in Account : BuyListedBet(k, u)
<1>1. CASE \E m \in Market : \/ LockMarket(m)
                             \/ \E w \in Outcome : ResolveMarket(m, w)
                             \/ CancelMarket(m)
                             \/ RefundAfterRollback(m)
  BY <1>1 DEF LockMarket, ResolveMarket, CancelMarket, RefundAfterRollback,
              RefundMarketInternal, CancelListingsOf
<1>2. CASE \E l \in ListingId : \/ \E u \in Account : CancelListing(l, u)
                                \/ InvalidateStaleListing(l)
  BY <1>2 DEF CancelListing, InvalidateStaleListing, TypeOK
<1>3. CASE \E l \in ListingId, u \in Account : BuyListedBet(l, u)
  BY <1>3 DEF BuyListedBet, TypeOK
<1>4. CASE \E b \in BetId, a \in Account, p \in Prices, l \in ListingId :
             ListBetForSale(b, a, p, l)
  BY <1>4 DEF ListBetForSale, TypeOK
<1>5. CASE \/ \E u \in Account, x \in SyncBalances : SyncUser(u, x)
           \/ \E u \in Account, d \in Deltas : AdjustBalance(u, d)
           \/ \E m \in Market, outs \in SUBSET Outcome, seed \in Seeds :
                \E ids \in SeedIds(outs, seed) : CreateMarket(m, outs, seed, ids)
           \/ \E u \in Account, m \in Market, o \in Outcome, s \in Stakes, b \in BetId :
                PlaceBet(u, m, o, s, b)
           \/ \E m \in Market, w \in Outcome : ResolveEmptyPool(m, w)
           \/ \E l \in ListingId : BuyOnClosedMarket(l)
           \/ CallsLost
           \/ UNCHANGED vars
  BY <1>5 DEF SyncUser, AdjustBalance, CreateMarket, PlaceBet, ResolveEmptyPool,
              BuyOnClosedMarket, CallsLost, vars
<1> QED BY <1>1, <1>2, <1>3, <1>4, <1>5 DEF Next, Operation

LEMMA ListingsKnownStep == TypeOK /\ ListingsKnown /\ [Next]_vars => ListingsKnown'
<1>1. SUFFICES ASSUME TypeOK, ListingsKnown, [Next]_vars, NEW k \in Listings'
               PROVE  listing'[k].bet \in Placed(bet')
  BY Tables DEF ListingsKnown
<1>2. k \in ListingId /\ listing'[k] # NoListing
  BY <1>1 DEF Listings
<1>3. CASE k \in Listings
  BY <1>1, <1>3, ListingsPersist, BetsPersist, Tables
     DEF ListingsKnown, SameListing, SameBet
<1>4. CASE k \notin Listings
  <2>1. ~ \E u \in Account : BuyListedBet(k, u)
    BY <1>4 DEF BuyListedBet, Listed
  <2>2. listing'[k].bet \in Bets
    BY <1>1, <1>2, <1>4, <2>1, ListingChange DEF Listed, Listings
  <2> QED BY <1>1, <2>2, BetsPersist, Tables DEF SameBet
<1> QED BY <1>3, <1>4

\* But for a sale, the rows that are SOLD stay what they are.
LEMMA SoldSame ==
  ASSUME TypeOK, [Next]_vars, ~ \E l \in ListingId, u \in Account : BuyListedBet(l, u),
         NEW b, NEW a
  PROVE  /\ SoldBy(listing', b, a) = SoldBy(listing, b, a)
         /\ BoughtBy(listing', b, a) = BoughtBy(listing, b, a)
<1>1. ASSUME NEW k \in ListingId
      PROVE  \/ listing'[k] = listing[k]
             \/ /\ k \notin Listings \/ listing[k].status # "SOLD"
                /\ listing'[k].status # "SOLD"
  <2>1. CASE k \in Listed /\ listing'[k] = [listing[k] EXCEPT !.status = "CANCELLED"]
    <3>1. listing[k] \in ListingRow
      BY <2>1 DEF Listed, Listings, TypeOK
    <3> QED BY <2>1, <3>1 DEF Listed, ListingRow
  <2> QED BY <2>1, ListingChange
<1> QED BY <1>1 DEF SoldBy, BoughtBy, SoldOf, Listings

\* But for a sale, the bets that exist stay what they are.
LEMMA BetKept ==
  ASSUME TypeOK, [Next]_vars, ~ \E l \in ListingId, u \in Account : BuyListedBet(l, u),
         NEW b \in Bets
  PROVE  bet'[b] = bet[b]
<1>1. CASE \E m \in Market, outs \in SUBSET Outcome, seed \in Seeds :
             \E ids \in SeedIds(outs, seed) : CreateMarket(m, outs, seed, ids)
  BY <1>1 DEF CreateMarket, SeedIds, Injection, Bets
<1>2. CASE \E u \in Account, m \in Market, o \in Outcome, s \in Stakes, c \in BetId :
             PlaceBet(u, m, o, s, c)
  BY <1>2 DEF PlaceBet, Bets, TypeOK
<1>3. CASE bet' = bet
  BY <1>3
<1> QED BY <1>1, <1>2, <1>3 DEF Next, Operation, SyncUser, AdjustBalance, LockMarket,
           ResolveMarket, ResolveEmptyPool, CancelMarket, RefundAfterRollback,
           RefundMarketInternal, ListBetForSale, CancelListing, BuyOnClosedMarket,
           InvalidateStaleListing, CallsLost, vars

\* A sale from a to u adds a row that a sold and u bought, and moves the bet.
LEMMA TrailStep ==
  TypeOK /\ ListingsKnown /\ SalesLeadToOwner /\ [Next]_vars => SalesLeadToOwner'
<1>1. SUFFICES ASSUME TypeOK, ListingsKnown, SalesLeadToOwner, [Next]_vars,
                      NEW b \in Placed(bet'), NEW a \in Account
               PROVE  Trail(listing', bet'[b], b, a)
  BY TrailTables
<1>2. CASE b \notin Bets
  <2>1. SoldBy(listing', b, a) = {} /\ BoughtBy(listing', b, a) = {}
    <3>1. ASSUME NEW l \in ListingId, listing'[l] # NoListing, listing'[l].bet = b
          PROVE  FALSE
      <4>1. l \notin Listings
        BY <1>1, <1>2, <3>1, ListingsPersist DEF SameListing, ListingsKnown
      <4>2. ~ \E u \in Account : BuyListedBet(l, u)
        BY <4>1 DEF BuyListedBet, Listed
      <4> QED BY <1>1, <1>2, <3>1, <4>1, <4>2, ListingChange DEF Listed, Listings
    <3> QED BY <3>1 DEF SoldBy, BoughtBy, SoldOf
  <2>2. bet'[b].owner = bet'[b].original
    <3>1. CASE \E m \in Market, outs \in SUBSET Outcome, seed \in Seeds :
                 \E ids \in SeedIds(outs, seed) : CreateMarket(m, outs, seed, ids)
      BY <1>1, <1>2, <3>1 DEF CreateMarket, Placed, Bets
    <3>2. CASE \E u \in Account, m \in Market, o \in Outcome, s \in Stakes, c \in BetId :
                 PlaceBet(u, m, o, s, c)
      BY <1>1, <1>2, <3>2 DEF PlaceBet, Placed, Bets, TypeOK
    <3> QED BY <1>1, <1>2, <3>1, <3>2, BetsGrow, Tables
  <2> QED BY <2>1, <2>2, FS_EmptySet DEF Trail
<1>3. CASE b \in Bets /\ ~ \E l \in ListingId, u \in Account : BuyListedBet(l, u)
  <2>1. bet'[b] = bet[b]
    BY <1>1, <1>3, BetKept
  <2>2. Trail(listing, bet[b], b, a)
    BY <1>1, <1>3, TrailTables
  <2> QED BY <1>1, <1>3, <2>1, <2>2, SoldSame DEF Trail
<1>4. ASSUME b \in Bets, NEW l \in ListingId, NEW u \in Account, BuyListedBet(l, u)
      PROVE  Trail(listing', bet'[b], b, a)
  <2>1. /\ l \in Listed /\ listing[l] \in ListingRow /\ bet[b] \in BetRow
        /\ b \in BetId
    BY <1>1, <1>4 DEF BuyListedBet, Listed, Listings, Bets, TypeOK
  <2>2. /\ \A k \in ListingId \ {l} : listing'[k] = listing[k]
        /\ listing'[l] # NoListing /\ listing'[l].bet = listing[l].bet
        /\ listing'[l].seller = listing[l].seller
        /\ listing'[l].buyer = u /\ listing'[l].status = "SOLD"
    <3> DEFINE row == [[listing[l] EXCEPT !.status = "SOLD"] EXCEPT !.buyer = u]
    <3>1. listing'[l] = row
      BY <1>1, <1>4 DEF BuyListedBet, TypeOK
    <3>2. /\ row \in ListingRow /\ row.bet = listing[l].bet
          /\ row.seller = listing[l].seller /\ row.buyer = u /\ row.status = "SOLD"
      BY <2>1 DEF ListingRow, ListingStatus, Account
    <3>3. \A k \in ListingId \ {l} : listing'[k] = listing[k]
      BY <1>1, <1>4 DEF BuyListedBet, TypeOK
    <3> HIDE DEF row
    <3> QED BY <3>1, <3>2, <3>3, SentinelAssumption
  <2>3. Trail(listing, bet[b], b, a)
    BY <1>1, <1>4, TrailTables
  <2>4. CASE listing[l].bet # b
    <3>1. /\ SoldBy(listing', b, a) = SoldBy(listing, b, a)
          /\ BoughtBy(listing', b, a) = BoughtBy(listing, b, a)
      BY <2>2, <2>4 DEF SoldBy, BoughtBy, SoldOf
    <3>2. bet'[b] = bet[b]
      BY <1>1, <1>4, <2>1, <2>4 DEF BuyListedBet, TypeOK
    <3> QED BY <2>3, <3>1, <3>2 DEF Trail
  <2>5. CASE listing[l].bet = b
    <3>1. /\ bet[b].owner = listing[l].seller /\ listing[l].seller # u
          /\ bet'[b].owner = u /\ bet'[b].original = bet[b].original
      BY <1>1, <1>4, <2>1, <2>5 DEF BuyListedBet, TypeOK, BetRow
    <3>2. /\ SoldBy(listing', b, a) = IF listing[l].seller = a
                                      THEN SoldBy(listing, b, a) \cup {l}
                                      ELSE SoldBy(listing, b, a)
          /\ BoughtBy(listing', b, a) = IF u = a
                                        THEN BoughtBy(listing, b, a) \cup {l}
                                        ELSE BoughtBy(listing, b, a)
          /\ l \notin SoldBy(listing, b, a) /\ l \notin BoughtBy(listing, b, a)
      BY <2>1, <2>2, <2>5 DEF SoldBy, BoughtBy, SoldOf, Listed
    <3>3. /\ Cardinality(SoldBy(listing', b, a)) = Cardinality(SoldBy(listing, b, a))
               + (IF listing[l].seller = a THEN 1 ELSE 0)
          /\ Cardinality(BoughtBy(listing', b, a)) = Cardinality(BoughtBy(listing, b, a))
               + (IF u = a THEN 1 ELSE 0)
      <4>1. \A S : IsFiniteSet(S) /\ l \notin S =>
                     Cardinality(S \cup {l}) = Cardinality(S) + 1
        BY FS_AddElement
      <4>2. PICK S, T : S = SoldBy(listing, b, a) /\ T = BoughtBy(listing, b, a)
        OBVIOUS
      <4>3. /\ Cardinality(S \cup {l}) = Cardinality(S) + 1
            /\ Cardinality(T \cup {l}) = Cardinality(T) + 1
            /\ Cardinality(S) \in Nat /\ Cardinality(T) \in Nat
        BY <3>2, <4>1, <4>2, FiniteTrail
      <4>4. CASE listing[l].seller = a
        BY <3>1, <3>2, <4>2, <4>3, <4>4
      <4>5. CASE u = a
        BY <3>1, <3>2, <4>2, <4>3, <4>5
      <4>6. CASE listing[l].seller # a /\ u # a
        BY <3>2, <4>2, <4>3, <4>6
      <4> QED BY <4>4, <4>5, <4>6
    <3> QED BY <2>3, <3>1, <3>3, FiniteTrail DEF Trail
  <2> QED BY <2>4, <2>5
<1> QED BY <1>2, <1>3, <1>4

\* The trail of a new bet is empty because no listing is for a bet to come.
TrailInv == TypeOK /\ ListingsKnown /\ SalesLeadToOwner

\* The SOLD rows of bet_listings account for every change of owner, for any
\* number of sales between any accounts: BuyListedBet closes the listing it
\* sells by in the step that moves the bet, and no later step edits that row.
THEOREM SalesAlwaysLeadToOwner == Spec => []SalesLeadToOwner
<1>1. Init => TrailInv
  <2> SUFFICES ASSUME Init PROVE TrailInv
    OBVIOUS
  <2>1. TypeOK
    BY AmountAssumption DEF Init, TypeOK, Account
  <2>2. Bets = {} /\ Listings = {}
    BY DEF Init, Bets, Listings
  <2> QED BY <2>1, <2>2, TrailTables DEF TrailInv, ListingsKnown
<1>2. TrailInv /\ [Next]_vars => TrailInv'
  BY TypeStep, ListingsKnownStep, TrailStep DEF TrailInv
<1>3. TrailInv => SalesLeadToOwner
  BY DEF TrailInv
<1> QED BY <1>1, <1>2, <1>3, PTL DEF Spec

-----------------------------------------------------------------------------
(* What a resolution pays *)

\* Division of naturals.
LEMMA DivisionExact ==
  ASSUME NEW a \in Nat, NEW b \in Nat \ {0}
  PROVE  /\ a \div b \in Nat /\ a % b \in Nat /\ a % b < b
         /\ a = b * (a \div b) + (a % b)
<1>1. PICK q, r : q = a \div b /\ r = a % b
  OBVIOUS
<1>2. q \in Int /\ q >= 0 /\ r \in 0 .. b - 1
  BY <1>1
<1>3. a = b * q + r
  BY <1>1, <1>2
<1> QED BY <1>1, <1>2, <1>3

LEMMA ModSmall ==
  ASSUME NEW a \in Nat, NEW b \in Nat, a < b
  PROVE  a % b = a
<1>1. PICK q, r \in Nat : r < b /\ a = b * q + r /\ r = a % b
  BY DivisionExact
<1>2. CASE q = 0
  BY <1>1, <1>2
<1>3. CASE q >= 1
  <2>1. b * q >= b
    BY <1>3
  <2> QED BY <1>1, <2>1
<1> QED BY <1>1, <1>2, <1>3

\* A number that fits in 64 bits is computed as it is.
LEMMA NoWrap ==
  ASSUME NEW n \in Nat, n <= MaxInt64
  PROVE  Int64(n) = n
<1>1. PICK max \in Nat : max = MaxInt64
  BY AmountAssumption
<1>2. (n + max + 1) % (2 * (max + 1)) = n + max + 1
  BY <1>1, ModSmall
<1> QED BY <1>1, <1>2 DEF Int64

\* What shares of D rounded down to whole units leave over: less than a unit each.
LEMMA FloorsLeaveLess ==
  ASSUME NEW B, IsFiniteSet(B), NEW stakes \in [B -> Nat], NEW D \in Nat,
         NEW P \in Nat \ {0}, P = SumFunctionOnSet(stakes, B),
         NEW pays \in [B -> Nat], NEW rest \in [B -> 0 .. P - 1],
         \A b \in B : D * stakes[b] = P * pays[b] + rest[b]
  PROVE  /\ SumFunctionOnSet(pays, B) \in Nat
         /\ 0 <= D - SumFunctionOnSet(pays, B)
         /\ D - SumFunctionOnSet(pays, B) < Cardinality(B)
<1>1. PICK zero, all, most : /\ zero = [b \in B |-> 0]
                             /\ all = [b \in B |-> D * stakes[b]]
                             /\ most = [b \in B |-> P - 1]
  OBVIOUS
<1>2. PICK Q, R, N, M : /\ Q = SumFunctionOnSet(pays, B) /\ R = SumFunctionOnSet(rest, B)
                        /\ N = Cardinality(B) /\ M = SumFunctionOnSet(most, B)
  OBVIOUS
<1>3. Q \in Nat /\ R \in Nat /\ N \in Nat
  <2>1. \A b \in B : pays[b] \in Nat /\ rest[b] \in Nat
    OBVIOUS
  <2> QED BY <1>2, <2>1, SumNat, FS_CardinalityType
<1>4. SumFunctionOnSet(all, B) = D * P + 0
  <2>1. \A b \in B : /\ stakes[b] \in Int /\ zero[b] \in Int
                    /\ all[b] = D * stakes[b] + zero[b]
    <3>1. ASSUME NEW b \in B
          PROVE  stakes[b] \in Int /\ zero[b] = 0 /\ all[b] = D * stakes[b]
      BY <1>1
    <3>2. ASSUME NEW b \in B
          PROVE  all[b] \in Int
      BY <3>1
    <3> QED BY <3>1, <3>2
  <2>2. SumFunctionOnSet(all, B) =
          D * SumFunctionOnSet(stakes, B) + SumFunctionOnSet(zero, B)
    BY <2>1, SumLinear
  <2>3. SumFunctionOnSet(zero, B) = 0 * N
    BY <1>1, <1>2, SumConstant
  <2>4. 0 * N = 0
    BY <1>3
  <2> QED BY <2>2, <2>3, <2>4
<1>5. SumFunctionOnSet(all, B) = P * Q + R
  <2>1. \A b \in B : pays[b] \in Int /\ rest[b] \in Int /\ all[b] = P * pays[b] + rest[b]
    BY <1>1
  <2> QED BY <1>2, <2>1, SumLinear
<1>6. R <= (P - 1) * N
  <2>1. \A b \in B : rest[b] \in Int /\ most[b] \in Int /\ rest[b] <= most[b]
    BY <1>1
  <2>2. M = (P - 1) * N
    BY <1>1, <1>2, SumConstant
  <2>3. SumFunctionOnSet(rest, B) <= SumFunctionOnSet(most, B)
    BY <2>1, SumMonotonic
  <2> QED BY <1>2, <2>2, <2>3
<1>7. N > 0
  <2>1. SUFFICES ASSUME N = 0 PROVE FALSE
    BY <1>3
  <2>2. B = {}
    BY <1>2, <2>1, FS_EmptySet
  <2> QED BY <2>2, SumEmpty
<1>8. D * P = P * Q + R
  <2>1. PICK x \in Nat : x = D * P
    OBVIOUS
  <2> QED BY <1>4, <1>5, <2>1
<1>9. D - Q >= 0
  <2>1. SUFFICES ASSUME D <= Q - 1 PROVE FALSE
    BY <1>3
  <2>2. D * P <= (Q - 1) * P
    BY <1>3, <2>1
  <2>3. (Q - 1) * P = P * Q - P
    BY <1>3
  <2>4. PICK x, y \in Int : x = P * Q /\ y = D * P
    BY <1>3
  <2> QED BY <1>3, <1>8, <2>2, <2>3, <2>4
<1>10. D - Q < N
  <2>1. SUFFICES ASSUME D >= Q + N PROVE FALSE
    BY <1>3
  <2>2. D * P >= (Q + N) * P
    BY <1>3, <2>1
  <2>3. (Q + N) * P = P * Q + P * N /\ (P - 1) * N = P * N - N
    BY <1>3
  <2>4. PICK x, y, z \in Int : x = P * Q /\ y = D * P /\ z = P * N
    BY <1>3
  <2> QED BY <1>3, <1>6, <1>7, <1>8, <2>2, <2>3, <2>4
<1> QED BY <1>2, <1>3, <1>9, <1>10

\* A market's total is at least any one of its pools.
LEMMA TotalCovers ==
  ASSUME TypeOK, NEW m \in Market
  PROVE  /\ TotalPool(m) \in Nat
         /\ \A w \in outcomes[m] : pool[m][w] <= TotalPool(m)
<1>1. IsFiniteSet(outcomes[m]) /\ \A w \in outcomes[m] : pool[m][w] \in Nat
  BY OutcomeAssumption, FS_Subset DEF TypeOK
<1>2. PICK f, S : f = pool[m] /\ S = outcomes[m]
  OBVIOUS
<1>3. SumFunctionOnSet(f, S) \in Nat /\ \A w \in S : f[w] <= SumFunctionOnSet(f, S)
  BY <1>1, <1>2, SumNat
<1> QED BY <1>2, <1>3 DEF TotalPool

\* No product that ResolveMarket computes leaves 64 bits: neither three times a
\* market's total, for the commission, nor a stake times what is distributed.
ProductsFit ==
  \A m \in Market :
    /\ TotalPool(m) * 3 <= MaxInt64
    /\ \A b \in BetsOf(m) : bet[b].stake * Distributable(m) <= MaxInt64

\* The commission and what is distributed split the total.
LEMMA CommissionBounds ==
  ASSUME TypeOK, ProductsFit, NEW m \in Market
  PROVE  /\ Commission(TotalPool(m)) \in Nat /\ Distributable(m) \in Nat
         /\ Commission(TotalPool(m)) + Distributable(m) = TotalPool(m)
<1>1. PICK T \in Nat : T = TotalPool(m)
  BY TotalCovers
<1>2. T * 3 <= MaxInt64 /\ T * 3 \in Nat
  BY <1>1 DEF ProductsFit
<1>3. Int64(T * 3) = T * 3
  BY <1>2, NoWrap
<1>4. Commission(T) = (T * 3) \div 100
  BY <1>2, <1>3 DEF Commission, Quotient
<1>5. (T * 3) \div 100 \in 0 .. T
  OBVIOUS
<1>6. PICK c \in 0 .. T : c = Commission(T)
  BY <1>4, <1>5
<1>7. Commission(TotalPool(m)) = c /\ Distributable(m) = T - c
  BY <1>1, <1>6 DEF Distributable
<1> QED BY <1>1, <1>6, <1>7

\* A payout in machine integers is the share rounded down.
LEMMA PayoutIsFloor ==
  ASSUME NEW s \in Nat, NEW D \in Nat, NEW P \in Nat \ {0}, s * D <= MaxInt64
  PROVE  /\ Payout(s, D, P) \in Nat
         /\ D * s - P * Payout(s, D, P) \in 0 .. P - 1
<1>1. PICK x \in Nat : x = s * D
  OBVIOUS
<1>2. Payout(s, D, P) = x \div P
  BY <1>1, NoWrap DEF Payout, Quotient
<1>3. PICK q, r : q = x \div P /\ r = x % P
  OBVIOUS
<1>4. q \in Nat /\ r \in 0 .. P - 1 /\ x = P * q + r
  BY <1>3, DivisionExact
<1>5. D * s - P * q = r
  <2>1. PICK y \in Int : y = P * q
    BY <1>4
  <2>2. D * s = x
    BY <1>1
  <2> QED BY <1>4, <2>1, <2>2
<1> QED BY <1>2, <1>3, <1>4, <1>5

\* The winning bets of a market, and what they are paid.
LEMMA PayoutsFacts ==
  ASSUME MoneyInv, ProductsFit, NEW m \in Market, NEW w \in outcomes[m],
         pool[m][w] # 0
  PROVE  /\ IsFiniteSet(WinningBets(m, w))
         /\ \A b \in WinningBets(m, w) :
              Payout(bet[b].stake, Distributable(m), pool[m][w]) \in Nat
         /\ PayoutsTo(WinningBets(m, w), m, w) \in Nat
         /\ 0 <= Remainder(m, w)
         /\ Remainder(m, w) < Cardinality(WinningBets(m, w))
<1> DEFINE pay(b) == Payout(bet[b].stake, Distributable(m), pool[m][w])
<1>1. PICK B : B = WinningBets(m, w)
  OBVIOUS
<1>2. /\ w \in Outcome /\ B \subseteq BetsOf(m) /\ B \subseteq BetId /\ IsFiniteSet(B)
      /\ \A b \in B : bet[b].stake \in Nat
  BY <1>1, FiniteBets DEF MoneyInv, IInv, TypeOK, WinningBets, BetsOf, Bets, BetRow
<1>3. PICK P, D \in Nat : P = pool[m][w] /\ D = Distributable(m) /\ P # 0
  BY <1>2, CommissionBounds DEF MoneyInv, IInv, TypeOK
<1>4. PICK stakes : stakes = [b \in B |-> bet[b].stake]
  OBVIOUS
<1>5. P = SumFunctionOnSet(stakes, B)
  BY <1>1, <1>2, <1>3, <1>4 DEF MoneyInv, PoolsMatchBets, StakeSum, WinningBets
<1>6. ASSUME NEW b \in B
      PROVE  pay(b) \in Nat /\ D * stakes[b] - P * pay(b) \in 0 .. P - 1
  <2>1. PICK s \in Nat : s = bet[b].stake /\ s = stakes[b]
    BY <1>2, <1>4
  <2>2. s * D <= MaxInt64
    BY <1>2, <1>3, <2>1 DEF ProductsFit
  <2>3. Payout(s, D, P) \in Nat /\ D * s - P * Payout(s, D, P) \in 0 .. P - 1
    BY <1>3, <2>2, PayoutIsFloor
  <2> QED BY <1>3, <2>1, <2>3
<1> HIDE DEF pay
<1>7. PICK pays, rest : /\ pays = [b \in B |-> pay(b)]
                        /\ rest = [b \in B |-> D * stakes[b] - P * pay(b)]
  OBVIOUS
<1>8. stakes \in [B -> Nat] /\ pays \in [B -> Nat] /\ rest \in [B -> 0 .. P - 1]
  BY <1>2, <1>4, <1>6, <1>7
<1>9. ASSUME NEW b \in B
      PROVE  D * stakes[b] = P * pays[b] + rest[b]
  <2>1. PICK x, y \in Int : x = D * stakes[b] /\ y = P * pays[b]
    BY <1>3, <1>8
  <2>2. rest[b] = x - y
    BY <1>7, <2>1
  <2> QED BY <2>1, <2>2
<1>10. /\ SumFunctionOnSet(pays, B) \in Nat
       /\ 0 <= D - SumFunctionOnSet(pays, B)
       /\ D - SumFunctionOnSet(pays, B) < Cardinality(B)
  BY <1>2, <1>3, <1>5, <1>8, <1>9, FloorsLeaveLess
<1>11. SumFunctionOnSet(pays, B) = PayoutsTo(B, m, w)
  BY <1>7 DEF PayoutsTo, pay
<1> QED BY <1>1, <1>2, <1>3, <1>6, <1>10, <1>11 DEF Remainder, pay

\* As long as no product wraps, whatever is staked and whichever side wins, the
\* winners are paid in full out of the distributable pool and what their floors
\* leave to the house is less than one unit a winning bet.
THEOREM PayoutsAlwaysCovered == Spec => [](ProductsFit => PayoutsCovered)
<1>1. MoneyInv => (ProductsFit => PayoutsCovered)
  BY PayoutsFacts DEF PayoutsCovered
<1> QED BY <1>1, MoneyInvariant, PTL

-----------------------------------------------------------------------------
(* The engine implements Escrow *)

\* A market's pot and phase, of its row and the bets table.
PotIn(s, t, m) == IF s \in Settled THEN 0 ELSE StakesOf(t, On(t, m))
PhaseIn(s) == CASE s = "NONE" -> "new"
                [] s = "OPEN" -> "open"
                [] s = "LOCKED" -> "closed"
                [] s \in Settled -> "settled"

Pots == [m \in Market |-> IF status[m] \in Settled THEN 0 ELSE StakeSum(BetsOf(m))]
Phases == [m \in Market |->
             CASE status[m] = "NONE" -> "new"
               [] status[m] = "OPEN" -> "open"
               [] status[m] = "LOCKED" -> "closed"
               [] status[m] \in Settled -> "settled"]

LEMMA PhaseCases ==
  /\ PhaseIn("NONE") = "new" /\ PhaseIn("OPEN") = "open" /\ PhaseIn("LOCKED") = "closed"
  /\ \A s \in Settled : PhaseIn(s) = "settled"
<1>1. "NONE" \notin Settled /\ "OPEN" \notin Settled /\ "LOCKED" \notin Settled
  BY DEF Settled
<1> QED BY <1>1, Zenon DEF PhaseIn

\* Escrow's sum is the engine's.
LEMMA CashSums == \A c : Abstract!CashSum(c) = SumFunctionOnSet(c, Account)
BY DEF Abstract!CashSum, Abstract!SumFunctionOnSet, Abstract!FoldFunctionOnSet,
       Abstract!MapThenFoldSet, SumFunctionOnSet, FoldFunctionOnSet, MapThenFoldSet

\* Escrow's actions, with its variables replaced.
LEMMA Mapping ==
  /\ Abstract!Init <=> /\ balance \in [Account -> Nat]
                       /\ Pots = [m \in Market |-> 0]
                       /\ Phases = [m \in Market |-> "new"]
  /\ \A a \in Account : Abstract!External(a) <=>
       /\ balance' \in [Account -> Nat]
       /\ \A c \in Account \ {a} : balance'[c] = balance[c]
       /\ UNCHANGED <<Pots, Phases>>
  /\ \A m \in Market : Abstract!Open(m) <=>
       /\ Phases[m] = "new"
       /\ Phases' = [Phases EXCEPT ![m] = "open"]
       /\ balance' \in [Account -> Nat]
       /\ \A a \in Account \ {House} : balance'[a] = balance[a]
       /\ balance'[House] <= balance[House]
       /\ Pots' = [Pots EXCEPT ![m] = balance[House] - balance'[House]]
  /\ \A a \in Account, m \in Market : Abstract!Stake(a, m) <=>
       /\ Phases[m] = "open"
       /\ balance' \in [Account -> Nat]
       /\ balance'[a] < balance[a]
       /\ \A c \in Account \ {a} : balance'[c] = balance[c]
       /\ Pots' = [Pots EXCEPT ![m] = @ + balance[a] - balance'[a]]
       /\ UNCHANGED Phases
  /\ \A a, b \in Account : Abstract!Trade(a, b) <=>
       /\ balance' \in [Account -> Nat]
       /\ balance'[a] + balance'[b] = balance[a] + balance[b]
       /\ \A c \in Account \ {a, b} : balance'[c] = balance[c]
       /\ UNCHANGED <<Pots, Phases>>
  /\ \A m \in Market : Abstract!Close(m) <=>
       /\ Phases[m] = "open"
       /\ Phases' = [Phases EXCEPT ![m] = "closed"]
       /\ UNCHANGED <<balance, Pots>>
  /\ \A m \in Market : Abstract!Settle(m) <=>
       /\ Phases[m] \in {"open", "closed"}
       /\ Phases' = [Phases EXCEPT ![m] = "settled"]
       /\ Pots' = [Pots EXCEPT ![m] = 0]
       /\ balance' \in [Account -> Nat]
       /\ \A a \in Account : balance'[a] >= balance[a]
       /\ SumFunctionOnSet(balance', Account) =
             SumFunctionOnSet(balance, Account) + Pots[m]
  /\ (UNCHANGED Abstract!vars) <=> UNCHANGED <<balance, Pots, Phases>>
<1>1. Abstract!Init <=> /\ balance \in [Account -> Nat]
                        /\ Pots = [m \in Market |-> 0]
                        /\ Phases = [m \in Market |-> "new"]
  BY DEF Abstract!Init, Pots, Phases
<1>2. \A a \in Account : Abstract!External(a) <=>
        /\ balance' \in [Account -> Nat]
        /\ \A c \in Account \ {a} : balance'[c] = balance[c]
        /\ UNCHANGED <<Pots, Phases>>
  BY DEF Abstract!External, Pots, Phases
<1>3. \A m \in Market : Abstract!Open(m) <=>
        /\ Phases[m] = "new"
        /\ Phases' = [Phases EXCEPT ![m] = "open"]
        /\ balance' \in [Account -> Nat]
        /\ \A a \in Account \ {House} : balance'[a] = balance[a]
        /\ balance'[House] <= balance[House]
        /\ Pots' = [Pots EXCEPT ![m] = balance[House] - balance'[House]]
  BY DEF Abstract!Open, Pots, Phases
<1>4. \A a \in Account, m \in Market : Abstract!Stake(a, m) <=>
        /\ Phases[m] = "open"
        /\ balance' \in [Account -> Nat]
        /\ balance'[a] < balance[a]
        /\ \A c \in Account \ {a} : balance'[c] = balance[c]
        /\ Pots' = [Pots EXCEPT ![m] = @ + balance[a] - balance'[a]]
        /\ UNCHANGED Phases
  BY DEF Abstract!Stake, Pots, Phases
<1>5. \A a, b \in Account : Abstract!Trade(a, b) <=>
        /\ balance' \in [Account -> Nat]
        /\ balance'[a] + balance'[b] = balance[a] + balance[b]
        /\ \A c \in Account \ {a, b} : balance'[c] = balance[c]
        /\ UNCHANGED <<Pots, Phases>>
  BY DEF Abstract!Trade, Pots, Phases
<1>6. \A m \in Market : Abstract!Close(m) <=>
        /\ Phases[m] = "open"
        /\ Phases' = [Phases EXCEPT ![m] = "closed"]
        /\ UNCHANGED <<balance, Pots>>
  BY DEF Abstract!Close, Pots, Phases
<1>7. \A m \in Market : Abstract!Settle(m) <=>
        /\ Phases[m] \in {"open", "closed"}
        /\ Phases' = [Phases EXCEPT ![m] = "settled"]
        /\ Pots' = [Pots EXCEPT ![m] = 0]
        /\ balance' \in [Account -> Nat]
        /\ \A a \in Account : balance'[a] >= balance[a]
        /\ SumFunctionOnSet(balance', Account) =
             SumFunctionOnSet(balance, Account) + Pots[m]
  BY CashSums DEF Abstract!Settle, Pots, Phases
<1>8. (UNCHANGED Abstract!vars) <=> UNCHANGED <<balance, Pots, Phases>>
  BY DEF Abstract!vars, Pots, Phases
<1> QED BY <1>1, <1>2, <1>3, <1>4, <1>5, <1>6, <1>7, <1>8

EscrowStep == Abstract!Next \/ UNCHANGED Abstract!vars

LEMMA FiniteAccounts == IsFiniteSet(Account)
BY IdAssumption, FS_AddElement DEF Account

\* Pots and phases of the tables, before and after a step.
LEMMA PotsAndPhases ==
  /\ \A m \in Market : Pots[m] = PotIn(status[m], bet, m)
                       /\ Phases[m] = PhaseIn(status[m])
  /\ \A m \in Market : Pots'[m] = PotIn(status'[m], bet', m)
                       /\ Phases'[m] = PhaseIn(status'[m])
<1>1. \A m \in Market : Pots[m] = PotIn(status[m], bet, m)
  BY Tables DEF Pots, PotIn
<1>2. \A m \in Market : Pots'[m] = PotIn(status'[m], bet', m)
  BY Tables DEF Pots, PotIn
<1>3. \A m \in Market : Phases[m] = PhaseIn(status[m])
  BY DEF Phases, PhaseIn
<1>4. \A m \in Market : Phases'[m] = PhaseIn(status'[m])
  BY DEF Phases, PhaseIn
<1> QED BY <1>1, <1>2, <1>3, <1>4

\* One market's pot and phase, and no other's, change.
LEMMA OneMarket ==
  ASSUME NEW m \in Market, NEW v, NEW p,
         PotIn(status'[m], bet', m) = v, PhaseIn(status'[m]) = p,
         \A k \in Market \ {m} : /\ PotIn(status'[k], bet', k) = PotIn(status[k], bet, k)
                                 /\ status'[k] = status[k]
  PROVE  /\ Pots' = [Pots EXCEPT ![m] = v]
         /\ Phases' = [Phases EXCEPT ![m] = p]
<1>1. \A k \in Market : Pots'[k] = IF k = m THEN v ELSE Pots[k]
  BY PotsAndPhases
<1>2. \A k \in Market : Phases'[k] = IF k = m THEN p ELSE Phases[k]
  BY PotsAndPhases
<1>3. /\ Phases = [k \in Market |-> PhaseIn(status[k])]
      /\ Phases' = [k \in Market |-> PhaseIn(status'[k])]
  BY DEF Phases, PhaseIn
<1>4. Phases' = [Phases EXCEPT ![m] = p]
  BY <1>2, <1>3
<1>5. Pots' = [Pots EXCEPT ![m] = v]
  BY <1>1 DEF Pots
<1> QED BY <1>4, <1>5

\* A pot only grows by new bets.
LEMMA PotStays ==
  ASSUME TypeOK, [Next]_vars, NEW k \in Market, On(bet', k) \subseteq Bets,
         status'[k] \in Settled <=> status[k] \in Settled
  PROVE  PotIn(status'[k], bet', k) = PotIn(status[k], bet, k)
<1>1. On(bet, k) \subseteq Bets
  BY Tables DEF On
<1>2. \A b \in Bets : b \in Placed(bet') /\ bet'[b].market = bet[b].market
  BY BetsPersist, Tables DEF SameBet
<1>3. On(bet', k) = On(bet, k)
  BY <1>1, <1>2, Tables DEF On
<1> QED BY <1>1, <1>3, SameBetsSameStakes DEF PotIn

\* A step that adds no bet and leaves the markets changes no pot.
LEMMA NoPotMoves ==
  ASSUME TypeOK, [Next]_vars, Placed(bet') = Bets, status' = status
  PROVE  UNCHANGED <<Pots, Phases>>
<1>1. \A k \in Market : PotIn(status'[k], bet', k) = PotIn(status[k], bet, k)
  BY PotStays DEF On
<1>2. \A k \in Market : Pots'[k] = Pots[k] /\ Phases'[k] = Phases[k]
  BY <1>1, PotsAndPhases
<1> QED BY <1>2 DEF Pots, Phases

\* What a pool table adds up to, if its pools are what their bets add up to.
LEMMA PoolsAddUp ==
  ASSUME NEW row, NEW t, NEW m, NEW O \in SUBSET Outcome,
         \A o \in O : row[o] = StakesOf(t, OnOutcome(t, m, o)),
         \A b \in On(t, m) : t[b].outcome \in O /\ t[b].stake \in Int
  PROVE  SumFunctionOnSet(row, O) = StakesOf(t, On(t, m))
<1>1. PICK S, f, g : /\ S = On(t, m) /\ f = [b \in S |-> t[b].stake]
                          /\ g = [b \in S |-> t[b].outcome]
  OBVIOUS
<1>2. IsFiniteSet(S) /\ IsFiniteSet(O)
  <2>1. S \in SUBSET BetId
    BY <1>1 DEF On, Placed
  <2> QED BY <2>1, FiniteBets, FS_Subset, OutcomeAssumption
<1>3. \A b \in S : f[b] \in Int /\ g[b] \in O
  BY <1>1
<1>4. PICK h : h = [o \in O |-> SumFunctionOnSet(f, {b \in S : g[b] = o})]
  OBVIOUS
<1>5. SumFunctionOnSet(h, O) = SumFunctionOnSet(f, S)
  BY <1>2, <1>3, <1>4, SumByGroup
<1>6. ASSUME NEW o \in O
      PROVE  h[o] \in Int /\ row[o] = h[o]
  <2>1. PICK B : B = {b \in S : g[b] = o}
    OBVIOUS
  <2>2. B = OnOutcome(t, m, o) /\ B \subseteq S /\ IsFiniteSet(B)
    BY <1>1, <1>2, <2>1, FS_Subset DEF OnOutcome
  <2>3. \A b \in B : f[b] \in Int
    BY <1>3, <2>2
  <2>4. SumFunctionOnSet(f, B) \in Int
    BY <2>2, <2>3, SumInt
  <2>5. PICK e : e = [b \in B |-> t[b].stake]
    OBVIOUS
  <2>6. SumFunctionOnSet(e, B) = SumFunctionOnSet(f, B)
    <3>1. \A b \in B : f[b] \in Int /\ e[b] = f[b]
      BY <1>1, <2>2, <2>3, <2>5
    <3> QED BY <2>2, <3>1, SumSame
  <2>7. row[o] = SumFunctionOnSet(e, B)
    BY <1>1, <2>2, <2>5 DEF StakesOf
  <2> QED BY <1>4, <2>1, <2>4, <2>6, <2>7
<1>7. SumFunctionOnSet(row, O) = SumFunctionOnSet(h, O)
  BY <1>2, <1>6, SumSame
<1> QED BY <1>1, <1>5, <1>7 DEF StakesOf

\* A market's pools add up to its pot: what ResolveMarket distributes is what the
\* bets put in.
LEMMA TotalIsPot ==
  ASSUME TypeOK, BetsKnown, PoolsMatchBets, NEW m \in Market
  PROVE  TotalPool(m) = StakesOf(bet, On(bet, m))
<1>1. \A o \in outcomes[m] : pool[m][o] = StakesOf(bet, OnOutcome(bet, m, o))
  BY PoolTables DEF PoolFits, TypeOK
<1>2. \A b \in On(bet, m) : bet[b].outcome \in outcomes[m] /\ bet[b].stake \in Int
  <2>1. \A b \in Bets : bet[b] \in BetRow
    BY DEF Bets, TypeOK
  <2>2. \A b \in Bets : bet[b].stake \in Int
    BY <2>1 DEF BetRow
  <2> QED BY <2>2, Tables DEF On, BetsKnown
<1>3. outcomes[m] \in SUBSET Outcome
  BY DEF TypeOK
<1>4. PICK row : row = pool[m]
  OBVIOUS
<1>5. \A o \in outcomes[m] : row[o] = StakesOf(bet, OnOutcome(bet, m, o))
  BY <1>1, <1>4
<1>6. SumFunctionOnSet(row, outcomes[m]) = StakesOf(bet, On(bet, m))
  BY <1>2, <1>3, <1>5, PoolsAddUp
<1> QED BY <1>4, <1>6 DEF TotalPool

\* A deposit or an adjustment is a payment from outside.
LEMMA ExternalStep ==
  ASSUME TypeOK, [Next]_vars, NEW u \in Account,
         \/ \E b \in SyncBalances : SyncUser(u, b)
         \/ \E d \in Deltas : AdjustBalance(u, d)
  PROVE  EscrowStep
<1>1. /\ balance' \in [Account -> Nat] /\ bet' = bet /\ status' = status
      /\ \A c \in Account \ {u} : balance'[c] = balance[c]
  BY TypeStep DEF SyncUser, AdjustBalance, TypeOK, marketVars
<1>2. UNCHANGED <<Pots, Phases>>
  BY <1>1, NoPotMoves, Tables
<1>3. Abstract!External(u)
  BY <1>1, <1>2, Mapping DEF Account
<1> QED BY <1>3, AccountAssumption DEF EscrowStep, Abstract!Next, Account

\* The house pays for the seeds of a market that opens.
LEMMA OpenStep ==
  ASSUME MoneyInv, [Next]_vars, NEW m \in Market, NEW outs \in SUBSET Outcome,
         NEW seed \in Seeds, NEW ids \in SeedIds(outs, seed),
         CreateMarket(m, outs, seed, ids)
  PROVE  EscrowStep
<1>1. TypeOK /\ TypeOK' /\ BetsKnown /\ PoolsMatchBets'
  BY TypeStep, PoolsStep DEF MoneyInv, IInv
<1>2. /\ status[m] = "NONE" /\ status' = [status EXCEPT ![m] = "OPEN"]
      /\ seed \in Nat /\ IsFiniteSet(outs) /\ Cardinality(outs) \in Nat
  BY FS_Subset, FS_CardinalityType, OutcomeAssumption, AmountAssumption DEF CreateMarket
<1>3. status'[m] = "OPEN" /\ \A k \in Market \ {m} : status'[k] = status[k]
  BY <1>1, <1>2 DEF TypeOK
<1>4. PICK total \in Nat : total = seed * Cardinality(outs)
  BY <1>2
<1>5. /\ balance' = [balance EXCEPT ![House] = @ - total] /\ balance[House] >= total
      /\ balance' \in [Account -> Nat]
  BY <1>1, <1>4 DEF CreateMarket, TypeOK
<1>6. /\ House \in Account /\ balance'[House] = balance[House] - total
      /\ \A a \in Account \ {House} : balance'[a] = balance[a]
  BY <1>1, <1>4, <1>5 DEF TypeOK, Account
<1>7. ASSUME NEW b \in Placed(bet') \ Bets
      PROVE  bet'[b].market = m /\ bet'[b].stake = seed /\ bet'[b].outcome \in outs
  BY <1>1, SeedsOn
<1>8. ASSUME NEW k \in Market \ {m}
      PROVE  PotIn(status'[k], bet', k) = PotIn(status[k], bet, k)
  <2>1. On(bet', k) \subseteq Bets
    BY <1>7 DEF On
  <2> QED BY <1>1, <1>3, <2>1, PotStays
<1>9. PotIn(status'[m], bet', m) = total
  <2>1. \A b \in Bets : bet'[b].market # m
    BY <1>1, <1>2, BetsPersist DEF BetsKnown, SameBet
  <2>2. ASSUME NEW b \in On(bet', m)
        PROVE  bet'[b].outcome \in outs /\ bet'[b].stake \in Int
    BY <1>2, <1>7, <2>1, <2>2 DEF On
  <2>3. \A o \in outs : pool'[m][o] = StakesOf(bet', OnOutcome(bet', m, o))
    BY <1>1, PoolTables DEF PoolFits
  <2>4. PICK row, t : row = pool'[m] /\ t = bet'
    OBVIOUS
  <2>5. \A o \in outs : row[o] = StakesOf(t, OnOutcome(t, m, o))
    BY <2>3, <2>4
  <2>6. SumFunctionOnSet(row, outs) = StakesOf(t, On(t, m))
    <3>1. \A b \in On(t, m) : t[b].outcome \in outs /\ t[b].stake \in Int
      BY <2>2, <2>4
    <3> QED BY <2>5, <3>1, PoolsAddUp
  <2>7. \A o \in outs : row[o] = seed
    BY <1>1, <2>4 DEF CreateMarket, TypeOK
  <2>8. SumFunctionOnSet(row, outs) = seed * Cardinality(outs)
    <3>1. PICK n \in Int : n = seed
      BY <1>2
    <3>2. \A o \in outs : row[o] = n
      BY <2>7, <3>1
    <3>3. SumFunctionOnSet(row, outs) = n * Cardinality(outs)
      BY <1>2, <3>2, SumConstant
    <3> QED BY <3>1, <3>3
  <2> QED BY <1>3, <1>4, <2>4, <2>6, <2>8 DEF PotIn, Settled
<1>10. /\ Pots' = [Pots EXCEPT ![m] = total]
       /\ Phases' = [Phases EXCEPT ![m] = "open"]
  BY <1>3, <1>8, <1>9, OneMarket, PhaseCases
<1>11. Phases[m] = "new"
  BY <1>2, PotsAndPhases, PhaseCases
<1>12. total = balance[House] - balance'[House] /\ balance'[House] <= balance[House]
  BY <1>1, <1>4, <1>6 DEF TypeOK
<1>13. Abstract!Open(m)
  BY <1>5, <1>6, <1>10, <1>11, <1>12, Mapping
<1> QED BY <1>13 DEF EscrowStep, Abstract!Next

\* A bet moves its stake from its bettor to its market's pot.
LEMMA StakeStep ==
  ASSUME TypeOK, [Next]_vars, NEW u \in Account, NEW m \in Market, NEW o \in Outcome,
         NEW s \in Stakes, NEW c \in BetId, PlaceBet(u, m, o, s, c)
  PROVE  EscrowStep
<1>1. TypeOK' /\ u \in Account /\ s \in Nat \ {0}
  BY TypeStep, AmountAssumption DEF PlaceBet, Account
<1>2. status' = status /\ status[m] = "OPEN"
  BY DEF PlaceBet, TakesBets, marketVars
<1>3. /\ c \in BetId \ Bets
      /\ bet'[c] = [market |-> m, owner |-> u, original |-> u, outcome |-> o, stake |-> s]
      /\ Placed(bet') \subseteq Bets \cup {c}
  BY DEF PlaceBet, Placed, Bets, TypeOK
<1>4. /\ balance'[u] = balance[u] - s
      /\ \A a \in Account \ {u} : balance'[a] = balance[a]
  BY <1>1 DEF PlaceBet, TypeOK
<1>5. ASSUME NEW k \in Market \ {m}
      PROVE  PotIn(status'[k], bet', k) = PotIn(status[k], bet, k)
  <2>1. On(bet', k) \subseteq Bets
    BY <1>3 DEF On
  <2> QED BY <1>2, <2>1, PotStays
<1>6. PICK B : B = On(bet, m)
  OBVIOUS
<1>7. B \subseteq Bets /\ B \in SUBSET BetId
  BY <1>6 DEF On, Placed, Bets
<1>8. On(bet', m) = B \cup {c}
  <2>1. \A b \in Bets : b \in Placed(bet') /\ bet'[b].market = bet[b].market
    BY BetsPersist, Tables DEF SameBet
  <2>2. bet'[c] # NoBet
    <3>1. bet'[c] \in BetRow
      BY <1>1, <1>3 DEF BetRow
    <3> QED BY <3>1, SentinelAssumption
  <2> QED BY <1>3, <1>6, <1>7, <2>1, <2>2, Tables DEF On, Placed
<1>9. PICK v \in Nat : v = StakesOf(bet, B)
  <2>1. \A b \in B : bet[b].stake \in Nat
    BY <1>7 DEF Bets, TypeOK, BetRow
  <2> QED BY <1>7, <2>1, StakesNat
<1>10. StakesOf(bet', B) = v
  BY <1>7, <1>9, SameBetsSameStakes
<1>11. StakesOf(bet', B \cup {c}) = s + StakesOf(bet', B)
  <2>1. \A b \in Placed(bet') : bet'[b].stake \in Int
    BY <1>1 DEF Placed, TypeOK, BetRow
  <2>2. \A b \in B \cup {c} : bet'[b].stake \in Int
    BY <1>8, <2>1 DEF On
  <2> QED BY <1>3, <1>7, <2>2, StakesAdd
<1>12. PotIn(status'[m], bet', m) = v + s /\ PotIn(status[m], bet, m) = v
  <2>1. StakesOf(bet', On(bet', m)) = v + s /\ StakesOf(bet, On(bet, m)) = v
    BY <1>1, <1>6, <1>8, <1>9, <1>10, <1>11
  <2>2. status'[m] \notin Settled /\ status[m] \notin Settled
    BY <1>2 DEF Settled
  <2> QED BY <2>1, <2>2 DEF PotIn
<1>13. Pots' = [Pots EXCEPT ![m] = v + s] /\ Phases' = [Phases EXCEPT ![m] = "open"]
  BY <1>2, <1>5, <1>12, OneMarket, PhaseCases
<1>14. Phases[m] = "open" /\ Pots[m] = v
  BY <1>2, <1>12, PotsAndPhases, PhaseCases
<1>15. Phases' = Phases
  BY <1>13, <1>14 DEF Phases
<1>16. Pots[m] + balance[u] - balance'[u] = v + s
  BY <1>1, <1>4, <1>9, <1>14 DEF TypeOK
<1>17. balance'[u] < balance[u] /\ balance' \in [Account -> Nat]
  BY <1>1, <1>4 DEF TypeOK
<1>18. Abstract!Stake(u, m)
  BY <1>1, <1>4, <1>13, <1>14, <1>15, <1>16, <1>17, Mapping
<1> QED BY <1>1, <1>18, AccountAssumption DEF EscrowStep, Abstract!Next

\* A sale moves the price between two accounts.
LEMMA TradeStep ==
  ASSUME TypeOK, [Next]_vars, NEW l \in ListingId, NEW u \in Account,
         BuyListedBet(l, u)
  PROVE  EscrowStep
<1>1. TypeOK'
  BY TypeStep
<1>2. PICK seller, price : seller = listing[l].seller /\ price = listing[l].price
  OBVIOUS
<1>3. /\ listing[l] \in ListingRow /\ seller \in Account /\ price \in Nat
      /\ seller # u
  BY <1>2 DEF BuyListedBet, Listed, Listings, TypeOK, ListingRow
<1>4. balance' = [balance EXCEPT ![u] = @ - price, ![seller] = @ + price]
  BY <1>2 DEF BuyListedBet, BalancesAfterSale
<1>5. /\ balance'[u] = balance[u] - price /\ balance'[seller] = balance[seller] + price
      /\ \A a \in Account \ {u, seller} : balance'[a] = balance[a]
  BY <1>1, <1>3, <1>4 DEF TypeOK
<1>6. Placed(bet') = Placed(bet)
  <2>1. PICK sold \in Bets : bet' = [bet EXCEPT ![sold].owner = u]
    BY DEF BuyListedBet
  <2>2. bet[sold] \in BetRow /\ [bet[sold] EXCEPT !.owner = u] \in BetRow
    BY <2>1 DEF Bets, TypeOK, BetRow, Account
  <2>3. \A b \in BetId : bet'[b] # NoBet <=> bet[b] # NoBet
    BY <2>1, <2>2, SentinelAssumption DEF TypeOK, Bets
  <2> QED BY <2>3 DEF Placed
<1>7. UNCHANGED <<Pots, Phases>>
  BY <1>6, NoPotMoves, Tables DEF BuyListedBet, marketVars
<1>8. balance'[u] + balance'[seller] = balance[u] + balance[seller]
  BY <1>1, <1>3, <1>5 DEF TypeOK
<1>9. Abstract!Trade(u, seller)
  <2>1. balance' \in [Account -> Nat]
    BY <1>1 DEF TypeOK
  <2>2. \A a \in Account \ {u, seller} : balance'[a] = balance[a]
    BY <1>5
  <2> QED BY <1>1, <1>3, <1>7, <1>8, <2>1, <2>2, Mapping
<1> QED BY <1>1, <1>3, <1>9 DEF EscrowStep, Abstract!Next

\* Locking a market moves no money.
LEMMA CloseStep ==
  ASSUME TypeOK, [Next]_vars, NEW m \in Market, LockMarket(m)
  PROVE  EscrowStep
<1>1. /\ status[m] = "OPEN" /\ status'[m] = "LOCKED" /\ balance' = balance /\ bet' = bet
      /\ \A k \in Market \ {m} : status'[k] = status[k]
  BY DEF LockMarket, TypeOK, userVars
<1>2. \A k \in Market : PotIn(status'[k], bet', k) = PotIn(status[k], bet, k)
  BY <1>1 DEF PotIn, Settled
<1>3. PICK v : v = Pots[m]
  OBVIOUS
<1>4. Pots' = [Pots EXCEPT ![m] = v] /\ Phases' = [Phases EXCEPT ![m] = "closed"]
  BY <1>1, <1>2, <1>3, OneMarket, PhaseCases, PotsAndPhases
<1>5. Pots' = Pots
  BY <1>3, <1>4 DEF Pots
<1>6. Phases[m] = "open"
  BY <1>1, PotsAndPhases, PhaseCases
<1>7. Abstract!Close(m)
  BY <1>1, <1>4, <1>5, <1>6, Mapping
<1> QED BY <1>7 DEF EscrowStep, Abstract!Next

\* A settlement pays a market's whole pot into the accounts.
LEMMA SettleStep ==
  ASSUME TypeOK, [Next]_vars, NEW m \in Market,
         status[m] \in {"OPEN", "LOCKED"}, NEW s \in Settled,
         status' = [status EXCEPT ![m] = s], bet' = bet,
         \A a \in Account : balance'[a] >= balance[a],
         SumFunctionOnSet(balance', Account) =
           SumFunctionOnSet(balance, Account) + StakesOf(bet, On(bet, m))
  PROVE  EscrowStep
<1>1. TypeOK' /\ status'[m] = s /\ \A k \in Market \ {m} : status'[k] = status[k]
  BY TypeStep DEF TypeOK
<1>2. \A k \in Market \ {m} : PotIn(status'[k], bet', k) = PotIn(status[k], bet, k)
  BY <1>1 DEF PotIn
<1>3. PotIn(status'[m], bet', m) = 0
  BY <1>1 DEF PotIn
<1>4. Pots' = [Pots EXCEPT ![m] = 0] /\ Phases' = [Phases EXCEPT ![m] = "settled"]
  BY <1>1, <1>2, <1>3, OneMarket, PhaseCases
<1>5. Phases[m] \in {"open", "closed"}
  BY PotsAndPhases, PhaseCases
<1>6. Pots[m] = StakesOf(bet, On(bet, m))
  BY PotsAndPhases DEF PotIn, Settled
<1>7. balance' \in [Account -> Nat]
  BY <1>1 DEF TypeOK
<1>8. Abstract!Settle(m)
  BY <1>4, <1>5, <1>6, <1>7, Mapping
<1> QED BY <1>8 DEF EscrowStep, Abstract!Next

\* What the bets in S that a owns are worth.
Credit(worth, S, owner, a) == SumFunctionOnSet(worth, {b \in S : owner[b] = a})

\* Accounts that are credited with what their bets are worth, and the house with
\* a gain, are credited with what all bets are worth and the gain.
LEMMA CreditsAddUp ==
  ASSUME NEW S, IsFiniteSet(S), NEW worth, NEW owner,
         \A b \in S : worth[b] \in Nat /\ owner[b] \in Account,
         NEW gain \in Nat, NEW c \in [Account -> Nat], NEW d \in [Account -> Nat],
         \A a \in Account :
           d[a] = c[a] + Credit(worth, S, owner, a) + (IF a = House THEN gain ELSE 0)
  PROVE  /\ \A a \in Account : d[a] >= c[a]
         /\ SumFunctionOnSet(d, Account) =
              SumFunctionOnSet(c, Account) + (SumFunctionOnSet(worth, S) + gain)
<1>1. PICK h : h = [a \in Account |-> Credit(worth, S, owner, a)]
  OBVIOUS
<1>2. ASSUME NEW a \in Account
      PROVE  h[a] \in Nat
  <2>1. PICK B : B = {b \in S : owner[b] = a}
    OBVIOUS
  <2>2. IsFiniteSet(B) /\ \A b \in B : worth[b] \in Nat
    BY <2>1, FS_Subset
  <2>3. SumFunctionOnSet(worth, B) \in Nat
    BY <2>2, SumNat
  <2> QED BY <1>1, <2>1, <2>3 DEF Credit
<1>3. PICK mid : mid = [a \in Account |-> c[a] + h[a]]
  OBVIOUS
<1>4. \A a \in Account : /\ mid[a] = 1 * c[a] + h[a] /\ mid[a] \in Nat
                         /\ c[a] \in Nat /\ d[a] \in Nat
                         /\ d[a] = mid[a] + (IF a = House THEN gain ELSE 0)
  <2>1. \A a \in Account : c[a] \in Nat /\ d[a] \in Nat /\ h[a] \in Nat
    BY <1>2
  <2>2. \A a \in Account : mid[a] = c[a] + h[a]
    BY <1>3
  <2>3. \A a \in Account : d[a] = (c[a] + h[a]) + (IF a = House THEN gain ELSE 0)
    BY <1>1, <2>1
  <2> QED BY <2>1, <2>2, <2>3
<1>5. PICK x, y, z \in Int : /\ x = SumFunctionOnSet(c, Account)
                            /\ y = SumFunctionOnSet(h, Account)
                            /\ z = SumFunctionOnSet(mid, Account)
  <2>1. \A a \in Account : c[a] \in Int /\ h[a] \in Int /\ mid[a] \in Int
    BY <1>2, <1>4
  <2> QED BY <2>1, FiniteAccounts, SumInt
<1>6. z = x + y
  <2>1. \A a \in Account : c[a] \in Int /\ h[a] \in Int /\ mid[a] = 1 * c[a] + h[a]
    BY <1>2, <1>4
  <2>2. SumFunctionOnSet(mid, Account)
          = 1 * SumFunctionOnSet(c, Account) + SumFunctionOnSet(h, Account)
    BY <2>1, FiniteAccounts, SumLinear
  <2> QED BY <1>5, <2>2
<1>7. SumFunctionOnSet(d, Account) = z + gain
  <2>1. House \in Account
    BY DEF Account
  <2>2. \A a \in Account : mid[a] \in Int /\ d[a] \in Int
    BY <1>4
  <2>3. \A a \in Account \ {House} : d[a] = mid[a]
    BY <1>4
  <2>4. SumFunctionOnSet(d, Account)
          = SumFunctionOnSet(mid, Account) + (d[House] - mid[House])
    BY <2>1, <2>2, <2>3, FiniteAccounts, SumChange
  <2>5. d[House] - mid[House] = gain
    BY <1>4, <2>1
  <2> QED BY <1>5, <2>4, <2>5
<1>8. y = SumFunctionOnSet(worth, S)
  <2>1. \A b \in S : worth[b] \in Int /\ owner[b] \in Account
    OBVIOUS
  <2>2. h = [a \in Account |-> SumFunctionOnSet(worth, {b \in S : owner[b] = a})]
    BY <1>1 DEF Credit
  <2> QED BY <1>5, <2>1, <2>2, FiniteAccounts, SumByGroup
<1> QED BY <1>2, <1>4, <1>5, <1>6, <1>7, <1>8

\* A refund gives every bet's stake to the account that owns it.
LEMMA RefundPays ==
  ASSUME MoneyInv, [Next]_vars, NEW m \in Market, RefundMarketInternal(m)
  PROVE  EscrowStep
<1>1. TypeOK /\ TypeOK'
  BY TypeStep DEF MoneyInv, IInv
<1>2. /\ status[m] \in {"OPEN", "LOCKED"} /\ bet' = bet
      /\ "CANCELLED" \in Settled /\ status' = [status EXCEPT ![m] = "CANCELLED"]
  BY <1>1 DEF RefundMarketInternal, Refundable, Settled, TypeOK, MarketStatus
<1>3. PICK S, worth, owner : /\ S = On(bet, m) /\ worth = [b \in S |-> bet[b].stake]
                             /\ owner = [b \in S |-> bet[b].owner]
  OBVIOUS
<1>4. S \in SUBSET BetId /\ IsFiniteSet(S) /\ \A b \in S : bet[b] \in BetRow
  BY <1>1, <1>3, FiniteBets DEF On, Placed, TypeOK
<1>5. \A b \in S : worth[b] \in Nat /\ owner[b] \in Account
  BY <1>3, <1>4 DEF BetRow
<1>6. ASSUME NEW a \in Account
      PROVE  balance'[a] = balance[a] + Credit(worth, S, owner, a)
  <2>1. PICK B : B = {b \in S : owner[b] = a}
    OBVIOUS
  <2>2. B = {b \in BetsOf(m) : bet[b].owner = a}
    BY <1>3, <2>1, Tables
  <2>3. PICK f : f = [b \in B |-> bet[b].stake]
    OBVIOUS
  <2>4. balance'[a] = balance[a] + SumFunctionOnSet(f, B)
    BY <1>1, <2>2, <2>3 DEF RefundMarketInternal, BalancesAfterRefund, StakeSum
  <2>5. IsFiniteSet(B) /\ \A b \in B : worth[b] \in Int /\ f[b] = worth[b]
    <3>1. \A b \in B : worth[b] \in Nat /\ f[b] = worth[b]
      BY <1>3, <1>5, <2>1, <2>3
    <3> QED BY <1>4, <2>1, <3>1, FS_Subset
  <2>6. SumFunctionOnSet(f, B) = SumFunctionOnSet(worth, B)
    BY <2>5, SumSame
  <2> QED BY <2>1, <2>4, <2>6 DEF Credit
<1>7. PICK c, d \in [Account -> Nat] : c = balance /\ d = balance'
  BY <1>1 DEF TypeOK
<1>8. PICK gain \in Nat : gain = 0
  OBVIOUS
<1>9. /\ \A a \in Account : d[a] >= c[a]
      /\ SumFunctionOnSet(d, Account) =
           SumFunctionOnSet(c, Account) + (SumFunctionOnSet(worth, S) + gain)
  <2>1. ASSUME NEW a \in Account
        PROVE  d[a] = c[a] + Credit(worth, S, owner, a) + (IF a = House THEN gain ELSE 0)
    <3>1. d[a] = c[a] + Credit(worth, S, owner, a)
      BY <1>6, <1>7
    <3>2. Credit(worth, S, owner, a) \in Int
      <4>1. PICK B : B = {b \in S : owner[b] = a}
        OBVIOUS
      <4>2. IsFiniteSet(B) /\ \A b \in B : worth[b] \in Int
        BY <1>4, <1>5, <4>1, FS_Subset
      <4>3. SumFunctionOnSet(worth, B) \in Int
        BY <4>2, SumInt
      <4> QED BY <4>1, <4>3 DEF Credit
    <3>3. c[a] \in Nat
      BY <1>7
    <3> QED BY <1>8, <3>1, <3>2, <3>3
  <2>2. \A b \in S : worth[b] \in Nat /\ owner[b] \in Account
    BY <1>5
  <2>3. IsFiniteSet(S) /\ gain \in Nat /\ c \in [Account -> Nat] /\ d \in [Account -> Nat]
    BY <1>4
  <2>4. \A a \in Account :
          d[a] = c[a] + Credit(worth, S, owner, a) + (IF a = House THEN gain ELSE 0)
    BY <2>1
  <2> QED BY ONLY <2>2, <2>3, <2>4, CreditsAddUp
<1>10. SumFunctionOnSet(worth, S) = StakesOf(bet, On(bet, m))
  BY <1>3 DEF StakesOf
<1>11. SumFunctionOnSet(worth, S) \in Nat
  BY <1>4, <1>5, SumNat
<1>12. SumFunctionOnSet(balance', Account) =
         SumFunctionOnSet(balance, Account) + StakesOf(bet, On(bet, m))
  BY <1>7, <1>8, <1>9, <1>10, <1>11
<1> QED BY <1>1, <1>2, <1>7, <1>9, <1>12, SettleStep

\* A resolution pays the winners, and the house the commission and the dust.
LEMMA ResolvePays ==
  ASSUME MoneyInv, ProductsFit, [Next]_vars, NEW m \in Market, NEW w \in Outcome,
         ResolveMarket(m, w)
  PROVE  EscrowStep
<1> DEFINE pay(b) == Payout(bet[b].stake, Distributable(m), pool[m][w])
<1>1. TypeOK /\ TypeOK'
  BY TypeStep DEF MoneyInv, IInv
<1>2. /\ status[m] \in {"OPEN", "LOCKED"} /\ bet' = bet /\ w \in outcomes[m]
      /\ pool[m][w] # 0
      /\ "RESOLVED" \in Settled /\ status' = [status EXCEPT ![m] = "RESOLVED"]
  BY DEF ResolveMarket, Settled
<1>3. PICK S, worth, owner : /\ S = WinningBets(m, w) /\ worth = [b \in S |-> pay(b)]
                             /\ owner = [b \in S |-> bet[b].owner]
  OBVIOUS
<1>4. S \in SUBSET BetId /\ IsFiniteSet(S) /\ \A b \in S : bet[b] \in BetRow
  BY <1>1, <1>3, FiniteBets DEF WinningBets, BetsOf, Bets, TypeOK
<1>5. \A b \in S : worth[b] \in Nat /\ owner[b] \in Account
  <2>1. \A b \in S : owner[b] \in Account
    BY <1>3, <1>4 DEF BetRow
  <2> QED BY <1>2, <1>3, <2>1, PayoutsFacts
<1>6. PICK Q, C, D, T \in Nat :
         /\ Q = PayoutsTo(S, m, w) /\ C = Commission(TotalPool(m))
         /\ D = Distributable(m) /\ T = TotalPool(m)
         /\ C + D = T /\ 0 <= D - Q /\ Remainder(m, w) = D - Q
  BY <1>1, <1>2, <1>3, PayoutsFacts, CommissionBounds, TotalCovers DEF Remainder
<1>7. PICK gain \in Nat : gain = C + (D - Q)
  BY <1>6
<1>8. ASSUME NEW a \in Account
      PROVE  balance'[a] = balance[a] + Credit(worth, S, owner, a)
                           + (IF a = House THEN gain ELSE 0)
  <2>1. PICK B : B = {b \in S : owner[b] = a}
    OBVIOUS
  <2>2. B = {b \in WinningBets(m, w) : bet[b].owner = a}
    BY <1>3, <2>1
  <2>3. PICK f : f = [b \in B |-> pay(b)]
    OBVIOUS
  <2>4. SumFunctionOnSet(f, B) = PayoutsTo(B, m, w)
    BY <2>3 DEF PayoutsTo
  <2>5. balance'[a] = balance[a] + PayoutsTo(B, m, w)
                      + (IF a = House /\ gain > 0 THEN gain ELSE 0)
    BY <1>6, <1>7, <2>2 DEF ResolveMarket, BalancesAfterPayout
  <2>6. IsFiniteSet(B) /\ \A b \in B : worth[b] \in Int /\ f[b] = worth[b]
    <3> HIDE DEF pay
    <3> QED BY <1>3, <1>4, <1>5, <2>1, <2>3, FS_Subset
  <2>7. SumFunctionOnSet(f, B) = SumFunctionOnSet(worth, B)
    BY <2>6, SumSame
  <2>8. (IF a = House /\ gain > 0 THEN gain ELSE 0) = (IF a = House THEN gain ELSE 0)
    OBVIOUS
  <2> QED BY <2>1, <2>4, <2>5, <2>7, <2>8 DEF Credit
<1> HIDE DEF pay
<1>9. PICK c, d \in [Account -> Nat] : c = balance /\ d = balance'
  BY <1>1 DEF TypeOK
<1>10. ASSUME NEW a \in Account
       PROVE  d[a] = c[a] + Credit(worth, S, owner, a) + (IF a = House THEN gain ELSE 0)
  BY <1>8, <1>9
<1>11. /\ \A a \in Account : d[a] >= c[a]
       /\ SumFunctionOnSet(d, Account) =
            SumFunctionOnSet(c, Account) + (SumFunctionOnSet(worth, S) + gain)
  <2>1. \A b \in S : worth[b] \in Nat /\ owner[b] \in Account
    BY <1>5
  <2>2. \A a \in Account :
          d[a] = c[a] + Credit(worth, S, owner, a) + (IF a = House THEN gain ELSE 0)
    BY <1>10
  <2>3. IsFiniteSet(S) /\ gain \in Nat /\ c \in [Account -> Nat] /\ d \in [Account -> Nat]
    BY <1>4
  <2> QED BY ONLY <2>1, <2>2, <2>3, CreditsAddUp
<1>12. SumFunctionOnSet(worth, S) = Q
  BY <1>3, <1>6 DEF PayoutsTo, pay
<1>13. T = StakesOf(bet, On(bet, m))
  BY <1>6, TotalIsPot DEF MoneyInv, IInv
<1>14. SumFunctionOnSet(balance', Account) =
         SumFunctionOnSet(balance, Account) + StakesOf(bet, On(bet, m))
  <2>1. Q + gain = T
    BY <1>6, <1>7
  <2> QED BY <1>9, <1>11, <1>12, <1>13, <2>1
<1> QED BY <1>1, <1>2, <1>9, <1>11, <1>14, SettleStep

\* Every step is one of Escrow or hidden from it.
LEMMA Simulation == MoneyInv /\ ProductsFit /\ [Next]_vars => EscrowStep
<1>1. SUFFICES ASSUME MoneyInv, ProductsFit, [Next]_vars
               PROVE  EscrowStep
  OBVIOUS
<1>2. TypeOK /\ SellersAreUsers
  BY <1>1 DEF MoneyInv, IInv
<1>3. ASSUME UNCHANGED <<balance, bet, status>>
      PROVE  EscrowStep
  <2>1. UNCHANGED <<Pots, Phases>>
    BY <1>1, <1>2, <1>3, NoPotMoves, Tables
  <2> QED BY <1>3, <2>1, Mapping DEF EscrowStep
<1>4. ASSUME \/ \E m \in Market, w \in Outcome : ResolveEmptyPool(m, w)
             \/ \E b \in BetId, a \in Account, p \in Prices, l \in ListingId :
                  ListBetForSale(b, a, p, l)
             \/ \E l \in ListingId, u \in Account : CancelListing(l, u)
             \/ \E l \in ListingId : BuyOnClosedMarket(l) \/ InvalidateStaleListing(l)
             \/ CallsLost
             \/ UNCHANGED vars
      PROVE  UNCHANGED <<balance, bet, status>>
  BY <1>4 DEF ResolveEmptyPool, ListBetForSale, CancelListing, BuyOnClosedMarket,
              InvalidateStaleListing, CallsLost, userVars, marketVars, vars
<1>5. ASSUME NEW m \in Market, CancelMarket(m) \/ RefundAfterRollback(m)
      PROVE  EscrowStep
  <2>1. RefundMarketInternal(m) \/ UNCHANGED <<balance, bet, status>>
    BY <1>5 DEF CancelMarket, RefundAfterRollback, userVars, marketVars
  <2> QED BY <1>1, <1>3, <2>1, RefundPays
<1>6. ASSUME \/ \E u \in Account, b \in SyncBalances : SyncUser(u, b)
             \/ \E u \in Account, d \in Deltas : AdjustBalance(u, d)
             \/ \E m \in Market, outs \in SUBSET Outcome, seed \in Seeds :
                  \E ids \in SeedIds(outs, seed) : CreateMarket(m, outs, seed, ids)
             \/ \E u \in Account, m \in Market, o \in Outcome, s \in Stakes, b \in BetId :
                  PlaceBet(u, m, o, s, b)
      PROVE  EscrowStep
  BY <1>1, <1>2, <1>6, ExternalStep, OpenStep, StakeStep
<1>7. ASSUME \/ \E m \in Market : LockMarket(m)
             \/ \E m \in Market, w \in Outcome : ResolveMarket(m, w)
             \/ \E l \in ListingId, u \in Account : BuyListedBet(l, u)
      PROVE  EscrowStep
  BY <1>1, <1>2, <1>7, CloseStep, ResolvePays, TradeStep
<1> QED BY <1>1, <1>3, <1>4, <1>5, <1>6, <1>7 DEF Next, Operation

\* While no product wraps, money is only ever moved the way Escrow says: bets move
\* into their market's pot, sales between users, and ResolveMarket and
\* RefundMarketInternal pay the whole pot out, once, whoever owns the bets by then.
THEOREM EscrowImplemented == Spec /\ []ProductsFit => ImplementsEscrow
<1>1. Init => Abstract!Init
  <2>1. SUFFICES ASSUME Init PROVE Abstract!Init
    OBVIOUS
  <2>2. balance \in [Account -> Nat]
    BY <2>1, AmountAssumption DEF Init, Account
  <2>3. ASSUME NEW m \in Market
        PROVE  Pots[m] = 0 /\ Phases[m] = "new"
    <3>1. On(bet, m) = {} /\ status[m] = "NONE"
      BY <2>1 DEF Init, On, Placed
    <3> QED BY <3>1, PotsAndPhases, PhaseCases, StakesNone DEF PotIn
  <2>4. Pots = [m \in Market |-> 0] /\ Phases = [m \in Market |-> "new"]
    BY <2>3 DEF Pots, Phases
  <2> QED BY <2>2, <2>4, Mapping
<1>2. MoneyInv /\ ProductsFit /\ [Next]_vars => [Abstract!Next]_(Abstract!vars)
  BY Simulation DEF EscrowStep
<1> QED BY <1>1, <1>2, MoneyInvariant, PTL DEF Spec, ImplementsEscrow, Abstract!Spec
=============================================================================
