--------------------------- MODULE CallersProofs ----------------------------
(***************************************************************************)
(* What those who call the betting engine may rely on.                      *)
(*                                                                          *)
(* Posts (Gateway), any number of them among any number of other calls: they *)
(* add nothing to the engine, their steps are steps of BetEngine or leave    *)
(* its tables alone.  What a call has achieved stays in the tables, and a    *)
(* reply follows its call.                                                   *)
(*                                                                          *)
(* Pages and cached odds (MarketPages), for any number of markets, bets and  *)
(* readers: the pools of a market move with its bets alone, and stand still  *)
(* once it is closed; what a reader has seen is compared with that.          *)
(***************************************************************************)
EXTENDS Gateway, MarketPages, BetEngineProofs


-----------------------------------------------------------------------------
(* Posts: what a request achieves *)

\* What a request may name.
Row == Market \cup BetId \cup ListingId \cup {NoRow}
Fits(a, row) ==
  /\ a \in Ask
  /\ a.kind = "create" => row \in Market
  /\ a.kind = "bet" => row \in BetId
  /\ a.kind = "list" => row \in ListingId

\* The rows of a request are among the engine's.
LEMMA AskFields ==
  ASSUME NEW a \in Ask
  PROVE  /\ a.kind = "sync" => a.user \in Account /\ a.amount \in SyncBalances
         /\ a.kind = "create" => a.outcomes \in SUBSET Outcome /\ a.amount \in Seeds
         /\ a.kind = "bet" => /\ a.user \in Account /\ a.market \in Market
                             /\ a.outcome \in Outcome /\ a.amount \in Stakes
         /\ a.kind = "lock" => a.market \in Market
         /\ a.kind = "resolve" => a.market \in Market /\ a.outcome \in Outcome
         /\ a.kind = "cancel" => a.market \in Market
         /\ a.kind = "list" => /\ a.user \in Account /\ a.bet \in BetId
                              /\ a.amount \in Prices
         /\ a.kind = "unlist" => a.user \in Account /\ a.listing \in ListingId
         /\ a.kind = "buy" => a.user \in Account /\ a.listing \in ListingId
         /\ a.kind \in {"sync", "create", "bet", "lock", "resolve", "cancel", "list",
                       "unlist", "buy"}
BY DEF Ask, SyncAsk, CreateAsk, BetAsk, LockAsk, ResolveAsk, CancelAsk, ListAsk,
       UnlistAsk, BuyAsk

\* What has been achieved stays achieved.
LEMMA AchievedStays ==
  ASSUME TypeOK, [Next]_vars, NEW a, NEW row, Fits(a, row), Achieved(a, row)
  PROVE  Achieved(a, row)'
<1>1. CASE a.kind \in {"sync", "create", "lock", "resolve", "cancel"}
  BY <1>1, AskFields, MarketsPersist DEF Fits, Achieved, Settled
<1>2. CASE a.kind = "bet"
  BY <1>2, BetsPersist DEF Fits, Achieved, SameBet
<1>3. CASE a.kind \in {"list", "unlist", "buy"}
  BY <1>3, ListingsPersist DEF Fits, Achieved, SameListing
<1> QED BY <1>1, <1>2, <1>3, AskFields DEF Fits

\* A call that commits is a step of the engine, and achieves what was asked.
LEMMA ServesAchieves ==
  ASSUME TypeOK, NEW a \in Ask, NEW row, Serves(a, row)
  PROVE  Next /\ Fits(a, row) /\ Achieved(a, row)'
<1>1. CASE a.kind = "sync" /\ SyncUser(a.user, a.amount)
  BY <1>1, AskFields DEF Next, Operation, Fits, Achieved, SyncUser
<1>2. CASE /\ a.kind = "create" /\ row \in Market
           /\ \E ids \in SeedIds(a.outcomes, a.amount) :
                CreateMarket(row, a.outcomes, a.amount, ids)
  <2>1. status'[row] # "NONE" /\ outcomes'[row] = a.outcomes
    BY <1>2 DEF CreateMarket, TypeOK
  <2> QED BY <1>2, <2>1, AskFields DEF Next, Operation, Fits, Achieved
<1>3. CASE /\ a.kind = "bet" /\ row \in BetId
           /\ PlaceBet(a.user, a.market, a.outcome, a.amount, row)
  <2> DEFINE new == [market |-> a.market, owner |-> a.user, original |-> a.user,
                     outcome |-> a.outcome, stake |-> a.amount]
  <2>1. bet'[row] = new
    BY <1>3 DEF PlaceBet, TypeOK
  <2>2. new \in BetRow
    <3>1. a.amount \in Int /\ a.amount > 0
      BY <1>3, AskFields, AmountAssumption DEF PlaceBet
    <3>2. a.user \in Account /\ a.market \in Market /\ a.outcome \in Outcome
      BY <1>3, AskFields DEF Account
    <3> QED BY <3>1, <3>2 DEF BetRow
  <2>3. row \in Bets'
    BY <1>3, <2>1, <2>2, SentinelAssumption DEF Bets
  <2> QED BY <1>3, <2>1, <2>3, AskFields DEF Next, Operation, Fits, Achieved
<1>4. CASE a.kind = "lock" /\ LockMarket(a.market)
  <2>1. status'[a.market] = "LOCKED"
    BY <1>4, AskFields DEF LockMarket, TypeOK
  <2> QED BY <1>4, <2>1, AskFields DEF Next, Operation, Fits, Achieved
<1>5. CASE a.kind = "resolve" /\ ResolveMarket(a.market, a.outcome)
  <2>1. status'[a.market] = "RESOLVED"
    BY <1>5, AskFields DEF ResolveMarket, TypeOK
  <2> QED BY <1>5, <2>1, AskFields DEF Next, Operation, Fits, Achieved, Settled
<1>6. CASE a.kind = "cancel" /\ CancelMarket(a.market)
  <2>1. status'[a.market] = "CANCELLED"
    BY <1>6, AskFields DEF CancelMarket, RefundMarketInternal, TypeOK
  <2> QED BY <1>6, <2>1, AskFields DEF Next, Operation, Fits, Achieved
<1>7. CASE /\ a.kind = "list" /\ row \in ListingId
           /\ ListBetForSale(a.bet, a.user, a.amount, row)
  <2> DEFINE new == [bet |-> a.bet, market |-> bet[a.bet].market, seller |-> a.user,
                     buyer |-> NoUser, price |-> a.amount, status |-> "LISTED"]
  <2>1. listing'[row] = new
    BY <1>7 DEF ListBetForSale, TypeOK
  <2>2. new \in ListingRow
    <3>1. a.bet \in BetId /\ bet[a.bet] # NoBet
      BY <1>7 DEF ListBetForSale, Bets
    <3>2. bet[a.bet].market \in Market
      BY <3>1 DEF TypeOK, BetRow
    <3>3. a.user \in Account /\ a.amount \in Nat \ {0}
      <4>1. a.user \in Account /\ a.amount \in Prices /\ a.amount > 0
        BY <1>7, AskFields DEF ListBetForSale
      <4> HIDE DEF new
      <4>2. a.amount \in Int
        BY <4>1, AmountAssumption
      <4> QED BY <4>1, <4>2
    <3> QED BY <3>1, <3>2, <3>3 DEF ListingRow, ListingStatus
  <2>3. row \in Listings'
    BY <1>7, <2>1, <2>2, SentinelAssumption DEF Listings
  <2> QED BY <1>7, <2>1, <2>3, AskFields DEF Next, Operation, Fits, Achieved
<1>8. CASE a.kind = "unlist" /\ CancelListing(a.listing, a.user)
  <2>1. a.listing \in Listings /\ listing'[a.listing].status = "CANCELLED"
    BY <1>8, AskFields DEF CancelListing, Listed, TypeOK
  <2>2. Next
    BY <1>8, AskFields DEF Next, Operation
  <2> QED BY <1>8, <2>1, <2>2, ListingsPersist DEF Fits, Achieved, SameListing
<1>9. CASE a.kind = "buy" /\ BuyListedBet(a.listing, a.user)
  <2>1. a.listing \in Listings /\ listing[a.listing] \in ListingRow
    BY <1>9, AskFields DEF BuyListedBet, Listed, Listings, TypeOK
  <2>2. /\ listing'[a.listing].status = "SOLD"
        /\ listing'[a.listing].buyer = a.user
    BY <1>9, <2>1, AskFields DEF BuyListedBet, ListingRow, Listings, TypeOK
  <2>3. Next
    BY <1>9, AskFields DEF Next, Operation
  <2> QED BY <1>9, <2>1, <2>2, <2>3, ListingsPersist DEF Fits, Achieved, SameListing
<1> QED BY <1>1, <1>2, <1>3, <1>4, <1>5, <1>6, <1>7, <1>8, <1>9 DEF Serves

-----------------------------------------------------------------------------
(* Posts: the inductive invariant *)

PostTypeOK ==
  /\ ask \in [Post -> Ask \cup {NoAsk}]
  /\ at \in [Post -> Stage]
  /\ verdict \in [Post -> Verdicts]
  /\ reply = [p \in Post |-> reply[p]] /\ made = [p \in Post |-> made[p]]
  /\ committed \subseteq Post

\* How far a post has got and what became of it.
PostFits(p) ==
  /\ at[p] \in {"sent", "second", "replied"} => ask[p] \in Ask
  /\ p \in committed => /\ at[p] \in {"replied", "end"}
                        /\ Fits(ask[p], made[p])
                        /\ Achieved(ask[p], made[p])
  /\ at[p] = "replied" =>
       /\ verdict[p] = "none"
       /\ p \in committed => reply[p] \in {Success(ask[p].kind), 500}
       /\ reply[p] \in {200, 201} => p \in committed
  /\ verdict[p] = "done" => p \in committed
  /\ verdict[p] = "refused" => at[p] = "end" /\ p \notin committed

PostIInv == TypeOK /\ PostTypeOK /\ \A p \in Post : PostFits(p)

\* bet-backend never refuses with a status that means success.
LEMMA RefusalIsNoSuccess ==
  ASSUME NEW a \in Ask
  PROVE  Refusal(a) \notin {200, 201}
<1>1. a.kind \in {"sync", "create", "bet", "lock", "resolve", "cancel", "list",
                 "unlist", "buy"}
  BY AskFields
<1>2. /\ CreateRefusal(a) \in {0, 500}
      /\ BetRefusal(a) \in {0, 400, 402, 500}
      /\ LockRefusal(a) \in {0, 500} /\ ResolveRefusal(a) \in {0, 500}
      /\ CancelRefusal(a) \in {0, 500}
      /\ ListRefusal(a) \in {0, 400, 403, 404, 409}
      /\ UnlistRefusal(a) \in {0, 403, 404, 409}
      /\ BuyRefusal(a) \in {0, 400, 402, 404, 409, 500}
  BY DEF CreateRefusal, BetRefusal, LockRefusal, ResolveRefusal, CancelRefusal,
         ListRefusal, UnlistRefusal, BuyRefusal, NoCode
<1>3. Refusal(a) \in {NoCode, CreateRefusal(a), BetRefusal(a), LockRefusal(a),
                     ResolveRefusal(a), CancelRefusal(a), ListRefusal(a),
                     UnlistRefusal(a), BuyRefusal(a)}
  BY <1>1, Zenon DEF Refusal
<1> QED BY <1>2, <1>3 DEF NoCode

-----------------------------------------------------------------------------
(* Posts: every step keeps it *)

\* The steps of a post are steps of the engine, or leave it alone.
LEMMA EngineMoves ==
  ASSUME PostIInv, [PostNext]_gatewayVars
  PROVE  [Next]_vars
<1>1. CASE UNCHANGED vars
  BY <1>1
<1>2. CASE Next
  BY <1>2
<1>3. ASSUME NEW p \in Post, at[p] \in {"sent", "second", "replied"}
      PROVE  ask[p] \in Ask
  BY <1>3 DEF PostIInv, PostFits
<1>4. ASSUME NEW p \in Post, Accept(p)
      PROVE  Next
  <2>1. PICK a \in {ask[p]}, row \in Row : Serves(a, row)
    BY <1>4 DEF Accept, Row
  <2> QED BY <1>3, <1>4, <2>1, ServesAchieves DEF Accept, PostIInv
<1>5. ASSUME NEW p \in Post, RollBack(p)
      PROVE  Next
  <2>1. PICK a \in {ask[p]} :
          \/ a.kind = "resolve" /\ ResolveEmptyPool(a.market, a.outcome)
          \/ a.kind = "buy" /\ BuyOnClosedMarket(a.listing)
    BY <1>5 DEF RollBack
  <2>2. a \in Ask
    BY <1>3, <1>5, <2>1 DEF RollBack
  <2> QED BY <2>1, <2>2, AskFields DEF Next, Operation
<1>6. ASSUME NEW p \in Post, FinishRefund(p)
      PROVE  Next \/ UNCHANGED vars
  <2>1. PICK m \in {ask[p].market} : RefundAfterRollback(m) \/ UNCHANGED vars
    BY <1>6 DEF FinishRefund
  <2>2. m \in Market
    BY <1>3, <1>6, <2>1, AskFields DEF FinishRefund
  <2> QED BY <2>1, <2>2 DEF Next, Operation
<1>7. ASSUME NEW p \in Post, FinishPurchase(p)
      PROVE  Next \/ UNCHANGED vars
  <2>1. PICK l \in {ask[p].listing} : InvalidateStaleListing(l) \/ UNCHANGED vars
    BY <1>7 DEF FinishPurchase
  <2>2. l \in ListingId
    BY <1>3, <1>7, <2>1, AskFields DEF FinishPurchase
  <2> QED BY <2>1, <2>2 DEF Next, Operation
<1>8. ASSUME NEW p \in Post,
             \/ \E a \in Ask : Submit(p, a)
             \/ RefuseInput(p) \/ Refuse(p) \/ Break(p) \/ Answer(p) \/ GiveUp(p)
      PROVE  Next \/ UNCHANGED vars
  BY <1>8 DEF Submit, RefuseInput, Refuse, Break, Answer, GiveUp, Next
<1> QED BY <1>1, <1>2, <1>4, <1>5, <1>6, <1>7, <1>8 DEF PostNext, PostStep, gatewayVars, vars

LEMMA AchievedKept ==
  ASSUME TypeOK, [Next]_vars, NEW p \in Post,
         Fits(ask[p], made[p]), Achieved(ask[p], made[p]),
         ask'[p] = ask[p], made'[p] = made[p]
  PROVE  Fits(ask[p], made[p])' /\ Achieved(ask[p], made[p])'
<1>1. PICK a, row : a = ask[p] /\ row = made[p]
  OBVIOUS
<1>2. Fits(a, row) /\ Achieved(a, row)
  BY <1>1 DEF Fits, Achieved
<1>3. Achieved(a, row)'
  BY <1>2, AchievedStays
<1> QED BY <1>1, <1>2, <1>3 DEF Fits, Achieved

\* A step that leaves a post alone, or ends it with another verdict than success.
LEMMA FitsStays ==
  ASSUME PostIInv, [Next]_vars, NEW p \in Post,
         ask'[p] = ask[p], made'[p] = made[p], at'[p] = at[p], reply'[p] = reply[p],
         verdict'[p] = verdict[p], p \in committed' <=> p \in committed
  PROVE  PostFits(p)'
<1>1. PostFits(p) /\ TypeOK
  BY DEF PostIInv
<1>2. p \in committed => Fits(ask[p], made[p])' /\ Achieved(ask[p], made[p])'
  BY <1>1, AchievedKept DEF PostFits
<1> QED BY <1>1, <1>2 DEF PostFits

\* The shape of the variables of Gateway.
LEMMA PostTypeStep ==
  ASSUME PostIInv, NEW p \in Post, PostStep(p)
  PROVE  PostTypeOK'
<1> USE DEF PostIInv, PostTypeOK
<1>1. ASSUME NEW a \in Ask, Submit(p, a) PROVE PostTypeOK'
  BY <1>1 DEF Submit, Stage
<1>2. CASE RefuseInput(p)
  BY <1>2 DEF RefuseInput, Stage, Verdicts
<1>3. ASSUME NEW code, Reply(p, code), UNCHANGED <<ask, verdict>>,
             committed' \in {committed, committed \cup {p}},
             made' = made \/ \E row : made' = [made EXCEPT ![p] = row]
      PROVE  PostTypeOK'
  BY <1>3 DEF Reply, Stage
<1>4. CASE Refuse(p)
  <2>1. PICK code : code = Refusal(ask[p])
    OBVIOUS
  <2>2. Reply(p, code)
    BY <1>4, <2>1 DEF Refuse, Reply
  <2> QED BY <1>3, <1>4, <2>2 DEF Refuse
<1>5. CASE Accept(p)
  <2>1. PICK code : Reply(p, code)
    BY <1>5 DEF Accept
  <2>2. /\ UNCHANGED <<ask, verdict>> /\ committed' = committed \cup {p}
        /\ \E row : made' = [made EXCEPT ![p] = row]
    BY <1>5 DEF Accept
  <2> QED BY <1>3, <2>1, <2>2
<1>6. CASE RollBack(p)
  BY <1>6 DEF RollBack, Stage
<1>7. CASE FinishRefund(p) \/ FinishPurchase(p) \/ Break(p)
  <2>1. PICK code : Reply(p, code)
    BY <1>7 DEF FinishRefund, FinishPurchase, Break
  <2>2. UNCHANGED <<ask, verdict, made>> /\ committed' \in {committed, committed \cup {p}}
    BY <1>7 DEF FinishRefund, FinishPurchase, Break
  <2> QED BY <1>3, <2>1, <2>2
<1>8. CASE Answer(p)
  BY <1>8 DEF Answer, RelayedVerdict, PageVerdict, Stage, Verdicts
<1>9. CASE GiveUp(p)
  BY <1>9 DEF GiveUp, Stage, Verdicts
<1> QED BY <1>1, <1>2, <1>4, <1>5, <1>6, <1>7, <1>8, <1>9 DEF PostStep

\* What a step leaves of the posts it is not about.
LEMMA OthersStay ==
  ASSUME PostIInv, [Next]_vars, NEW p \in Post, PostStep(p), NEW q \in Post, q # p
  PROVE  PostFits(q)'
BY FitsStays
   DEF PostStep, Submit, RefuseInput, Refuse, Accept, RollBack, FinishRefund,
       FinishPurchase, Break, Answer, GiveUp, Reply, PostIInv, PostTypeOK

\* A status that goes back to a post that has done nothing, and is no success.
LEMMA ReplyFits ==
  ASSUME PostIInv, NEW p \in Post, NEW code, code \notin {200, 201},
         at[p] \in {"sent", "second"}, Reply(p, code),
         UNCHANGED <<ask, verdict, committed>>
  PROVE  PostFits(p)'
BY DEF PostIInv, PostTypeOK, PostFits, Reply, Verdicts

\* A status that goes back from a call that has committed.
LEMMA CommitFits ==
  ASSUME PostIInv, NEW p \in Post, NEW code, code \in {Success(ask[p].kind), 500},
         at[p] \in {"sent", "second"}, Reply(p, code),
         UNCHANGED <<ask, verdict>>, committed' = committed \cup {p},
         Fits(ask[p], made[p])', Achieved(ask[p], made[p])'
  PROVE  PostFits(p)'
BY DEF PostIInv, PostTypeOK, PostFits, Reply, Verdicts, Success

\* The request of a post is performed, refused or lost.
LEMMA RequestStep ==
  ASSUME PostIInv, [Next]_vars, NEW p \in Post,
         Refuse(p) \/ Accept(p) \/ FinishRefund(p) \/ FinishPurchase(p) \/ Break(p)
  PROVE  PostFits(p)'
<1>1. at[p] \in {"sent", "second"} /\ ask[p] \in Ask /\ UNCHANGED <<ask, verdict>>
  BY DEF Refuse, Accept, FinishRefund, FinishPurchase, Break, PostIInv, PostFits
<1>2. CASE Refuse(p)
  <2>1. PICK code : code = Refusal(ask[p])
    OBVIOUS
  <2>2. Reply(p, code) /\ code \notin {200, 201}
    BY <1>1, <1>2, <2>1, RefusalIsNoSuccess DEF Refuse, Reply
  <2> QED BY <1>1, <1>2, <2>2, ReplyFits DEF Refuse
<1>3. CASE Accept(p)
  <2>1. PICK a \in {ask[p]}, row \in Row :
          Serves(a, row) /\ made' = [made EXCEPT ![p] = row]
    BY <1>3 DEF Accept, Row
  <2>2. Fits(a, row) /\ Achieved(a, row)'
    BY <1>1, <2>1, ServesAchieves DEF PostIInv
  <2>3. ask'[p] = a /\ made'[p] = row
    BY <1>1, <2>1 DEF PostIInv, PostTypeOK
  <2>4. Fits(ask[p], made[p])' /\ Achieved(ask[p], made[p])'
    BY <2>2, <2>3 DEF Fits, Achieved
  <2>5. PICK code : code \in {Success(ask[p].kind), 500} /\ Reply(p, code)
    BY <1>3 DEF Accept
  <2> QED BY <1>1, <1>3, <2>4, <2>5, CommitFits DEF Accept
<1>4. CASE FinishRefund(p)
  <2>1. CASE UNCHANGED committed /\ Reply(p, 500)
    BY <1>1, <2>1, ReplyFits
  <2>2. ASSUME NEW m \in {ask[p].market}, RefundAfterRollback(m), status[m] \notin Settled,
               NEW code \in {200, 500}, Reply(p, code), committed' = committed \cup {p}
        PROVE  PostFits(p)'
    <3>1. m \in Market /\ ask[p].kind = "resolve" /\ ask'[p] = ask[p]
      BY <1>1, <1>4, AskFields DEF FinishRefund
    <3>2. status'[m] \in Settled
      BY <2>2, <3>1 DEF RefundAfterRollback, RefundMarketInternal, PostIInv, TypeOK, Settled
    <3>3. Fits(ask[p], made[p])' /\ Achieved(ask[p], made[p])'
      BY <1>1, <3>1, <3>2 DEF Fits, Achieved
    <3>4. code \in {Success(ask[p].kind), 500}
      BY <3>1 DEF Success
    <3> QED BY <1>1, <2>2, <3>3, <3>4, CommitFits
  <2> QED BY <1>4, <2>1, <2>2 DEF FinishRefund
<1>5. CASE FinishPurchase(p)
  BY <1>1, <1>5, ReplyFits DEF FinishPurchase
<1>6. CASE Break(p)
  BY <1>1, <1>6, ReplyFits DEF Break
<1> QED BY <1>2, <1>3, <1>4, <1>5, <1>6

\* The browser is told, or stops waiting; or the request has yet to be made.
LEMMA BrowserStep ==
  ASSUME PostIInv, [Next]_vars, NEW p \in Post,
         \/ \E a \in Ask : Submit(p, a)
         \/ RefuseInput(p) \/ RollBack(p) \/ Answer(p) \/ GiveUp(p)
  PROVE  PostFits(p)'
<1>1. PostFits(p) /\ TypeOK /\ PostTypeOK
  BY DEF PostIInv
<1>2. CASE \E a \in Ask : Submit(p, a)
  BY <1>1, <1>2 DEF Submit, PostFits, PostTypeOK, Verdicts
<1>3. CASE RefuseInput(p)
  BY <1>1, <1>3 DEF RefuseInput, PostFits, PostTypeOK
<1>4. CASE RollBack(p)
  BY <1>1, <1>4 DEF RollBack, PostFits, PostTypeOK
<1>5. CASE Answer(p) \/ GiveUp(p)
  <2>1. ask' = ask /\ made' = made /\ committed' = committed
    BY <1>5 DEF Answer, GiveUp
  <2>2. p \in committed => Fits(ask[p], made[p])' /\ Achieved(ask[p], made[p])'
    BY <1>1, <2>1, AchievedKept DEF PostFits
  <2>3. CASE Answer(p)
    <3>1. /\ at[p] = "replied" /\ at'[p] = "end"
          /\ verdict'[p] \in {RelayedVerdict(reply[p]), PageVerdict(ask[p].kind, reply[p])}
      BY <1>1, <2>3 DEF Answer, PostTypeOK
    <3>2. verdict'[p] = "done" => reply[p] \in {200, 201}
      BY <3>1 DEF RelayedVerdict, PageVerdict, Expected
    <3>3. verdict'[p] = "refused" => reply[p] \notin {Success(ask[p].kind), 500}
      BY <3>1 DEF RelayedVerdict, PageVerdict, Expected, Success
    <3> QED BY <1>1, <2>1, <2>2, <3>1, <3>2, <3>3 DEF PostFits
  <2>4. CASE GiveUp(p)
    <3>1. at'[p] \in {at[p], "end"} /\ (at[p] = "replied" => at'[p] = "end")
      BY <1>1, <2>4 DEF GiveUp, PostTypeOK
    <3>2. verdict'[p] = "unsure" /\ at[p] \in {"sent", "second", "replied"}
      BY <1>1, <2>4 DEF GiveUp, PostTypeOK
    <3> QED BY <1>1, <2>1, <2>2, <3>1, <3>2 DEF PostFits
  <2> QED BY <1>5, <2>3, <2>4
<1> QED BY <1>2, <1>3, <1>4, <1>5

LEMMA PostIInvStep ==
  ASSUME PostIInv, [PostNext]_gatewayVars
  PROVE  PostIInv' /\ [Next]_vars
<1>1. [Next]_vars
  BY EngineMoves
<1>2. TypeOK'
  BY <1>1, TypeStep DEF PostIInv
<1>3. CASE UNCHANGED postVars
  <2>1. PostTypeOK'
    BY <1>3 DEF postVars, PostIInv, PostTypeOK
  <2>2. ASSUME NEW p \in Post PROVE PostFits(p)'
    BY <1>1, <1>3, FitsStays DEF postVars
  <2> QED BY <1>1, <1>2, <2>1, <2>2 DEF PostIInv
<1>4. ASSUME NEW p \in Post, PostStep(p)
      PROVE  PostIInv'
  <2>1. PostFits(p)'
    BY <1>1, <1>4, RequestStep, BrowserStep DEF PostStep
  <2>2. ASSUME NEW q \in Post PROVE PostFits(q)'
    BY <1>1, <1>4, <2>1, OthersStay
  <2> QED BY <1>2, <1>4, <2>2, PostTypeStep DEF PostIInv
<1> QED BY <1>1, <1>3, <1>4 DEF PostNext, postVars, gatewayVars

LEMMA PostIInvInit == PostInit => PostIInv /\ Init
<1> SUFFICES ASSUME PostInit PROVE PostIInv
  BY DEF PostInit
<1>1. TypeOK
  BY AmountAssumption DEF PostInit, Init, TypeOK, Account
<1>2. PostTypeOK
  BY DEF PostInit, PostTypeOK, Stage, Verdicts
<1> QED BY <1>1, <1>2 DEF PostInit, PostIInv, PostFits

-----------------------------------------------------------------------------
(* Posts: theorems *)

\* Behind the pages and the JSON routes the engine is the one of module BetEngine,
\* however posts are timed out, repeated or cut short: its theorems hold there.
THEOREM EngineBehindGateway == PostSpec => Spec
BY PostIInvInit, PostIInvStep, PTL DEF PostSpec, Spec

LEMMA PostIInvHolds == PostSpec => []PostIInv
BY PostIInvInit, PostIInvStep, PTL DEF PostSpec

\* A success that is shown stands in the tables, then and ever after.
THEOREM DoneStaysDone == PostSpec => []DoneMeansDone
<1>1. PostIInv => DoneMeansDone
  BY DEF PostIInv, PostFits, DoneMeansDone
<1> QED BY <1>1, PostIInvHolds, PTL

\* A post that was shown a reason for its refusal has not been performed and will
\* not be.
THEOREM RefusedStaysUndone == PostSpec => []RefusedMeansNothing
<1>1. PostIInv => RefusedMeansNothing
  BY DEF PostIInv, PostFits, RefusedMeansNothing
<1> QED BY <1>1, PostIInvHolds, PTL

-----------------------------------------------------------------------------
(* Pages: what is put together of several answers *)

\* The queries of a market's details, and those that are left after each.
ThenPools(kind) == IF kind = "detail" THEN <<"pools", "bets">> ELSE <<"pools">>
ThenBets == <<"bets">>

LEMMA QueryOrder ==
  ASSUME NEW kind
  PROVE  /\ Head(Queries(kind)) = "market" /\ Len(Queries(kind)) > 1
         /\ Tail(Queries(kind)) = ThenPools(kind)
         /\ Head(ThenPools(kind)) = "pools"
         /\ kind = "detail" => /\ Len(ThenPools(kind)) > 1
                               /\ Tail(ThenPools(kind)) = ThenBets
         /\ kind # "detail" => Len(ThenPools(kind)) = 1
         /\ Head(ThenBets) = "bets" /\ Len(ThenBets) = 1
BY DEF Queries, DetailsQueries, DetailPageQueries, ThenPools, ThenBets

LEMMA Answers ==
  ASSUME NEW m
  PROVE  /\ ResultOf(m, "market") =
              [status |-> status[m], outcomes |-> outcomes[m], seed |-> seedOf[m]]
         /\ ResultOf(m, "pools") = pool[m]
<1>1. ResultOf(m, "market") =
        [status |-> status[m], outcomes |-> outcomes[m], seed |-> seedOf[m]]
  BY Zenon DEF ResultOf
<1>2. ResultOf(m, "pools") = pool[m]
  BY Zenon DEF ResultOf
<1> QED BY <1>1, <1>2

\* What each kind of reader keeps of the details of an item.
LEMMA KeptOfEach ==
  ASSUME NEW s, NEW d
  PROVE  /\ s.kind = "odds" => Kept(s, d).pools = d.pools
         /\ s.kind \in {"admin", "detail"} =>
              Kept(s, d).status = d.market.status /\ Kept(s, d).pools = d.pools
<1>1. s.kind = "odds" => Kept(s, d) = [pools |-> d.pools]
  BY Zenon DEF Kept
<1>2. s.kind = "admin" => Kept(s, d) = [status |-> d.market.status, pools |-> d.pools]
  BY Zenon DEF Kept
<1>3. s.kind = "detail" =>
        Kept(s, d) = [status |-> d.market.status, pools |-> d.pools,
                      live |-> IsLive(d),
                      bettors |-> d.bets.bettors, plotted |-> d.bets.plotted]
  BY Zenon DEF Kept
<1> QED BY <1>1, <1>2, <1>3

-----------------------------------------------------------------------------
(* Pages: the inductive invariant *)

Kinds == {"free", "odds", "home", "admin", "detail", "profile"}
Closed(m) == status[m] \notin {"NONE", "OPEN"}
Asking(s) == s.item # NoItem

\* Which queries are left and which answers have come.
Tidy(s) ==
  /\ s = [kind |-> s.kind, left |-> s.left, item |-> s.item, todo |-> s.todo,
          got |-> s.got, read |-> s.read]
  /\ s.kind \in Kinds
  /\ Asking(s) =>
       \/ s.todo = Queries(s.kind)
       \/ s.todo = ThenPools(s.kind) /\ "market" \in DOMAIN s.got
       \/ /\ s.kind = "detail" /\ s.todo = ThenBets
          /\ "market" \in DOMAIN s.got /\ "pools" \in DOMAIN s.got

\* What is asked for and kept is in the tables.
Items(s) == IF s.kind = "profile" THEN Bets ELSE Created
InTables(s) ==
  /\ s.left \subseteq Items(s) /\ DOMAIN s.read \subseteq Items(s)
  /\ Asking(s) => s.item \in Items(s)
  /\ s.kind \in {"free", "odds", "detail"} => s.left = {}

\* A status that is not OPEN was read of a market that is closed, and the pools
\* after it.
SeenClosed(s) ==
  s.kind \in {"detail", "admin"} =>
    /\ Asking(s) /\ s.todo # Queries(s.kind) /\ s.got.market.status # "OPEN" =>
         Closed(s.item)
    /\ Asking(s) /\ s.todo = ThenBets /\ s.got.market.status # "OPEN" =>
         s.got.pools = pool[s.item]
    /\ \A m \in DOMAIN s.read : s.read[m].status # "OPEN" =>
         Closed(m) /\ s.read[m].pools = pool[m]

\* A market that is asked for is not yet in the history.
Agrees(s) ==
  s.kind = "profile" =>
    /\ \A b, k \in DOMAIN s.read :
         bet[b].market = bet[k].market => s.read[b] = s.read[k]
    /\ Asking(s) => \A k \in DOMAIN s.read : bet[k].market # bet[s.item].market

Sound(s) == Tidy(s) /\ InTables(s) /\ SeenClosed(s) /\ Agrees(s)

\* One call that has its market to itself will cache the pools, or has.
OddsFit(m) ==
  m \notin disturbed =>
    /\ Caching(m) = {} => odds[m] \in {NoOdds, pool[m]}
    /\ \A r, q \in Caching(m) : r = q
    /\ \A r \in Caching(m) :
         m \in DOMAIN slot[r].read => slot[r].read[m].pools = pool[m]

PageTypeOK ==
  /\ slot = [r \in Reader |-> slot[r]]
  /\ odds = [m \in Market |-> odds[m]]

PageIInv ==
  /\ TypeOK /\ PageTypeOK
  /\ \A r \in Reader : Sound(slot[r])
  /\ \A m \in Market : OddsFit(m)

-----------------------------------------------------------------------------
(* The engine goes on *)

\* The steps of the readers are steps of the engine, or leave it alone.
LEMMA EngineGoesOn ==
  ASSUME [PageNext]_allVars
  PROVE  [Next]_vars
<1>1. ASSUME NEW r \in Reader,
             CreateThenCache(r) \/ BetThenCache(r) \/ BuyThenCache(r)
      PROVE  Next
  BY <1>1 DEF CreateThenCache, BetThenCache, BuyThenCache, Listings, Next, Operation
<1>2. CASE EngineStep
  BY <1>2 DEF EngineStep, Next, Operation
<1>3. ASSUME NEW r \in Reader,
             \/ CacheOdds(r) \/ OddsLost(r) \/ OpenHome(r) \/ OpenAdmin(r)
             \/ \E m \in Market : OpenDetail(r, m)
             \/ \E u \in Account : OpenProfile(r, u)
             \/ Fetch(r) \/ Request(r) \/ Unknown(r) \/ Leave(r)
      PROVE  UNCHANGED vars
  BY <1>3 DEF CacheOdds, OddsLost, OpenHome, OpenAdmin, OpenDetail, OpenProfile,
              Fetch, Request, Unknown, Leave
<1>4. CASE \E m \in Market : Expire(m)
  BY <1>4 DEF Expire
<1>5. CASE UNCHANGED allVars
  BY <1>5 DEF allVars, vars
<1> QED BY <1>1, <1>2, <1>3, <1>4, <1>5 DEF PageNext

\* The pools of a market move only when it is created or a bet is placed on it.
LEMMA PoolsStand ==
  ASSUME TypeOK, [Next]_vars, NEW k \in Market,
         \A outs \in SUBSET Outcome, seed \in Seeds :
           \A ids \in SeedIds(outs, seed) : ~ CreateMarket(k, outs, seed, ids),
         \A u \in Account, o \in Outcome, s \in Stakes, b \in BetId :
           ~ PlaceBet(u, k, o, s, b)
  PROVE  pool'[k] = pool[k]
<1>1. ASSUME NEW m \in Market, NEW outs \in SUBSET Outcome, NEW seed \in Seeds,
             NEW ids \in SeedIds(outs, seed), CreateMarket(m, outs, seed, ids)
      PROVE  pool'[k] = pool[k]
  <2>1. m # k
    BY <1>1
  <2> QED BY <1>1, <2>1 DEF CreateMarket, TypeOK
<1>2. ASSUME NEW u \in Account, NEW m \in Market, NEW o \in Outcome, NEW s \in Stakes,
             NEW b \in BetId, PlaceBet(u, m, o, s, b)
      PROVE  pool'[k] = pool[k]
  <2>1. m # k
    BY <1>2
  <2> QED BY <1>2, <2>1 DEF PlaceBet, AddToPool, TypeOK
<1>3. ASSUME ~ \E m \in Market, outs \in SUBSET Outcome, seed \in Seeds :
                 \E ids \in SeedIds(outs, seed) : CreateMarket(m, outs, seed, ids),
             ~ \E u \in Account, m \in Market, o \in Outcome, s \in Stakes,
                  b \in BetId : PlaceBet(u, m, o, s, b)
      PROVE  pool' = pool
  BY <1>3 DEF Next, Operation, SyncUser, AdjustBalance, LockMarket, ResolveMarket,
      ResolveEmptyPool, CancelMarket, RefundAfterRollback, RefundMarketInternal,
      ListBetForSale, CancelListing, BuyListedBet, BuyOnClosedMarket,
      InvalidateStaleListing, CallsLost, vars
<1> QED BY <1>1, <1>2, <1>3

\* A closed market stays as it is.
LEMMA ClosedStays ==
  ASSUME TypeOK, [Next]_vars, NEW k \in Market, Closed(k)
  PROVE  Closed(k)' /\ pool'[k] = pool[k]
<1>1. Closed(k)'
  BY MarketsPersist DEF Closed
<1>2. \A outs \in SUBSET Outcome, seed \in Seeds :
        \A ids \in SeedIds(outs, seed) : ~ CreateMarket(k, outs, seed, ids)
  BY DEF CreateMarket, Closed
<1>3. \A u \in Account, o \in Outcome, s \in Stakes, b \in BetId :
        ~ PlaceBet(u, k, o, s, b)
  BY DEF PlaceBet, TakesBets, Closed
<1> QED BY <1>1, <1>2, <1>3, PoolsStand

\* What a reader has seen stays true of the tables.
LEMMA SoundStays ==
  ASSUME TypeOK, [Next]_vars, NEW s, Sound(s)
  PROVE  Sound(s)'
<1>1. Tidy(s)'
  BY DEF Sound, Tidy, Asking
<1>2. Items(s) \subseteq Items(s)'
  BY BetsPersist, MarketsPersist DEF Items, Created, SameBet
<1>3. InTables(s)'
  BY <1>2 DEF Sound, InTables, Asking
<1>4. ASSUME s.kind \in {"detail", "admin"}
      PROVE  SeenClosed(s)'
  <2>1. Items(s) \subseteq Market
    BY <1>4 DEF Items, Created
  <2>2. \A m \in Items(s) : status[m] \notin {"NONE", "OPEN"} =>
          status'[m] \notin {"NONE", "OPEN"} /\ pool'[m] = pool[m]
    BY <2>1, ClosedStays DEF Closed
  <2>3. SeenClosed(s) /\ DOMAIN s.read \subseteq Items(s)
        /\ (Asking(s) => s.item \in Items(s))
    BY DEF Sound, InTables
  <2>4. ASSUME NEW m \in DOMAIN s.read, s.read[m].status # "OPEN"
        PROVE  status'[m] \notin {"NONE", "OPEN"} /\ s.read[m].pools = pool'[m]
    BY <1>4, <2>2, <2>3, <2>4 DEF SeenClosed, Closed
  <2>5. ASSUME Asking(s), s.todo # Queries(s.kind), s.got.market.status # "OPEN"
        PROVE  /\ status'[s.item] \notin {"NONE", "OPEN"}
               /\ s.todo = ThenBets => s.got.pools = pool'[s.item]
    BY <1>4, <2>2, <2>3, <2>5 DEF SeenClosed, Closed
  <2>6. Asking(s) /\ s.todo = ThenBets /\ s.got.market.status # "OPEN" =>
          s.got.pools = pool'[s.item]
    <3>1. ThenBets # Queries(s.kind)
      BY QueryOrder
    <3> QED BY <2>5, <3>1
  <2> QED BY <2>4, <2>5, <2>6 DEF SeenClosed, Asking, Closed
<1>5. ASSUME s.kind = "profile"
      PROVE  Agrees(s)'
  <2>1. \A b \in Items(s) : bet'[b].market = bet[b].market
    BY <1>5, BetsPersist DEF Items, SameBet
  <2> QED BY <1>5, <2>1 DEF Sound, InTables, Agrees, Asking
<1>6. SeenClosed(s)'
  BY <1>4 DEF SeenClosed
<1>7. Agrees(s)'
  BY <1>5 DEF Agrees
<1> QED BY <1>1, <1>3, <1>6, <1>7 DEF Sound

-----------------------------------------------------------------------------
(* Readers go on while the tables stand still *)

\* What a slot becomes: it stays of its kind, and does not stop caching a market or
\* start to; what it will cache are the pools.
Follows(t, s) ==
  /\ Sound(t) /\ t.kind = s.kind
  /\ s.kind = "odds" => \A m \in Market :
       /\ Caches(t, m) <=> Caches(s, m)
       /\ m \in DOMAIN t.read =>
            \/ m \in DOMAIN s.read /\ t.read[m] = s.read[m]
            \/ t.read[m].pools = pool[m]

LEMMA FetchStep ==
  ASSUME NEW r \in Reader, Sound(slot[r]), Fetch(r)
  PROVE  \E t : Put(r, t) /\ Follows(t, slot[r])
<1>1. PICK s : s = slot[r]
  OBVIOUS
<1>2. Sound(s) /\ s.kind # "free" /\ ~ Asking(s) /\ s.kind \notin {"odds", "detail"}
  BY <1>1 DEF Fetch, Sound, InTables, Asking
<1>3. PICK i \in s.left :
        \/ /\ Put(r, Reads(s, i))
           /\ s.kind = "profile" => Fetched(s, i) = {}
        \/ /\ s.kind = "profile"
           /\ \E k \in Fetched(s, i) :
                Put(r, [s EXCEPT !.left = @ \ {i}, !.read = With(@, i, s.read[k])])
  BY <1>1 DEF Fetch
<1>4. i \in Items(s) /\ i # NoItem /\ s.left \subseteq Items(s)
      /\ DOMAIN s.read \subseteq Items(s)
  BY <1>2, ItemAssumption DEF Sound, InTables, Items, Bets, Created
<1>5. CASE Put(r, Reads(s, i)) /\ (s.kind = "profile" => Fetched(s, i) = {})
  <2>1. PICK t : t = Reads(s, i)
    OBVIOUS
  <2>2. /\ t = [kind |-> s.kind, left |-> s.left \ {i}, item |-> i,
                todo |-> Queries(s.kind), got |-> s.got, read |-> s.read]
    BY <1>2, <2>1 DEF Reads, Sound, Tidy
  <2>3. /\ t.kind = s.kind /\ t.left = s.left \ {i} /\ t.item = i
        /\ t.todo = Queries(s.kind) /\ t.got = s.got /\ t.read = s.read
    BY <2>2
  <2>4. Tidy(t)
    BY <1>2, <2>2, <2>3 DEF Sound, Tidy
  <2>5. InTables(t)
    BY <1>2, <1>4, <2>3 DEF Sound, InTables, Items
  <2>6. SeenClosed(t)
    BY <1>2, <2>3, QueryOrder DEF Sound, SeenClosed
  <2>7. Agrees(t)
    BY <1>2, <1>5, <2>3 DEF Sound, Agrees, Fetched
  <2> QED BY <1>1, <1>2, <1>5, <2>1, <2>3, <2>4, <2>5, <2>6, <2>7 DEF Sound, Follows
<1>6. ASSUME s.kind = "profile", NEW k \in Fetched(s, i),
             Put(r, [s EXCEPT !.left = @ \ {i}, !.read = With(@, i, s.read[k])])
      PROVE  \E t : Put(r, t) /\ Follows(t, slot[r])
  <2>1. PICK t : t = [s EXCEPT !.left = @ \ {i}, !.read = With(@, i, s.read[k])]
    OBVIOUS
  <2>2. PICK read : read = With(s.read, i, s.read[k])
    OBVIOUS
  <2>3. t = [kind |-> s.kind, left |-> s.left \ {i}, item |-> s.item,
             todo |-> s.todo, got |-> s.got, read |-> read]
    BY <1>2, <2>1, <2>2 DEF Sound, Tidy
  <2>4. /\ t.kind = s.kind /\ t.left = s.left \ {i} /\ t.item = s.item
        /\ t.todo = s.todo /\ t.got = s.got /\ t.read = read
    BY <2>3
  <2>5. /\ DOMAIN read = {i} \cup DOMAIN s.read /\ read[i] = s.read[k]
        /\ \A b \in DOMAIN s.read : b # i => read[b] = s.read[b]
    BY <2>2 DEF With
  <2>6. Tidy(t)
    BY <1>2, <2>3, <2>4 DEF Sound, Tidy, Asking
  <2>7. InTables(t)
    BY <1>2, <1>4, <2>4, <2>5 DEF Sound, InTables, Items, Asking
  <2>8. SeenClosed(t)
    BY <1>6, <2>4 DEF SeenClosed
  <2>9. Agrees(t)
    <3>1. \A b \in DOMAIN read : \E c \in DOMAIN s.read :
            bet[b].market = bet[c].market /\ read[b] = s.read[c]
      BY <2>5 DEF Fetched
    <3>2. \A b, c \in DOMAIN s.read :
            bet[b].market = bet[c].market => s.read[b] = s.read[c]
      BY <1>2, <1>6 DEF Sound, Agrees
    <3> QED BY <1>2, <2>4, <3>1, <3>2 DEF Agrees, Asking
  <2> QED BY <1>1, <1>2, <1>6, <2>1, <2>4, <2>6, <2>7, <2>8, <2>9 DEF Sound, Follows
<1> QED BY <1>3, <1>5, <1>6

\* The last answer about an item is kept.
LEMMA KeepsStep ==
  ASSUME NEW s, Sound(s), Asking(s), NEW kept, NEW t,
         s.kind = "odds" => kept.pools = pool[s.item],
         s.kind \in {"detail", "admin"} /\ kept.status # "OPEN" =>
           Closed(s.item) /\ kept.pools = pool[s.item],
         NEW read, read = With(s.read, s.item, kept) \/ (s.kind = "home" /\ read = s.read),
         t = [s EXCEPT !.todo = <<>>, !.got = Blank, !.item = NoItem, !.read = read]
  PROVE  Follows(t, s)
<1>1. t = [kind |-> s.kind, left |-> s.left, item |-> NoItem, todo |-> <<>>,
           got |-> Blank, read |-> read]
  BY DEF Sound, Tidy
<1>2. /\ t.kind = s.kind /\ t.left = s.left /\ t.item = NoItem /\ t.todo = <<>>
      /\ t.got = Blank /\ t.read = read
  BY <1>1
<1>3. /\ DOMAIN read \subseteq {s.item} \cup DOMAIN s.read
      /\ s.kind # "home" =>
           DOMAIN read = {s.item} \cup DOMAIN s.read /\ read[s.item] = kept
      /\ \A x \in DOMAIN s.read : x # s.item => read[x] = s.read[x]
  BY DEF With
<1>4. Tidy(t)
  BY <1>1, <1>2 DEF Sound, Tidy, Asking
<1>5. InTables(t)
  BY <1>2, <1>3 DEF Sound, InTables, Items, Asking
<1>6. SeenClosed(t)
  BY <1>2, <1>3 DEF Sound, SeenClosed, Asking
<1>7. Agrees(t)
  BY <1>2, <1>3 DEF Sound, Agrees, Asking
<1>8. ASSUME s.kind = "odds", NEW m \in Market
      PROVE  /\ Caches(t, m) <=> Caches(s, m)
             /\ m \in DOMAIN t.read =>
                  \/ m \in DOMAIN s.read /\ t.read[m] = s.read[m]
                  \/ t.read[m].pools = pool[m]
  BY <1>2, <1>3, <1>8, ItemAssumption DEF Caches
<1> QED BY <1>2, <1>4, <1>5, <1>6, <1>7, <1>8 DEF Sound, Follows

LEMMA AskStep ==
  ASSUME NEW r \in Reader, Sound(slot[r]), Request(r)
  PROVE  \E t : Put(r, t) /\ Follows(t, slot[r])
<1>1. PICK s : s = slot[r]
  OBVIOUS
<1>2. Sound(s) /\ Asking(s)
  BY <1>1 DEF Request, Asking
<1>3. PICK q : q = Head(s.todo)
  OBVIOUS
<1>4. PICK d : d = With(s.got, q, ResultOf(MarketOf(s), q))
  OBVIOUS
<1>5. /\ DOMAIN d = {q} \cup DOMAIN s.got /\ d[q] = ResultOf(MarketOf(s), q)
      /\ \A x \in DOMAIN s.got : x # q => d[x] = s.got[x]
  BY <1>4 DEF With
<1>6. /\ Len(s.todo) > 1 => Put(r, [s EXCEPT !.todo = Tail(@), !.got = d])
      /\ ~ (Len(s.todo) > 1) =>
           Put(r, [s EXCEPT !.todo = <<>>, !.got = Blank, !.item = NoItem, !.read =
                     IF Keeps(s, d) THEN With(@, s.item, Kept(s, d)) ELSE @])
  BY <1>1, <1>3, <1>4 DEF Request
<1>7. s.kind # "profile" => MarketOf(s) = s.item /\ s.item \in Created
  BY <1>2 DEF Sound, InTables, Items, MarketOf
\* A query is left: the answer is noted.
<1>8. ASSUME NEW todo, Tail(s.todo) = todo, Len(s.todo) > 1,
             \/ todo = ThenPools(s.kind) /\ "market" \in DOMAIN d
             \/ /\ s.kind = "detail" /\ todo = ThenBets
                /\ "market" \in DOMAIN d /\ "pools" \in DOMAIN d,
             s.kind \in {"detail", "admin"} /\ d.market.status # "OPEN" =>
               /\ Closed(s.item)
               /\ todo = ThenBets => d.pools = pool[s.item]
      PROVE  \E t : Put(r, t) /\ Follows(t, slot[r])
  <2>1. PICK t : t = [s EXCEPT !.todo = Tail(@), !.got = d]
    OBVIOUS
  <2>2. t = [kind |-> s.kind, left |-> s.left, item |-> s.item, todo |-> todo,
             got |-> d, read |-> s.read]
    BY <1>2, <1>8, <2>1 DEF Sound, Tidy
  <2>3. /\ t.kind = s.kind /\ t.left = s.left /\ t.item = s.item /\ t.todo = todo
        /\ t.got = d /\ t.read = s.read
    BY <2>2
  <2>4. Tidy(t)
    BY <1>2, <1>8, <2>2, <2>3 DEF Sound, Tidy
  <2>5. InTables(t)
    BY <1>2, <2>3 DEF Sound, InTables, Items, Asking
  <2>6. SeenClosed(t)
    BY <1>2, <1>8, <2>3 DEF Sound, SeenClosed
  <2>7. Agrees(t)
    BY <1>2, <2>3 DEF Sound, Agrees, Asking
  <2> QED BY <1>1, <1>2, <1>6, <1>8, <2>1, <2>3, <2>4, <2>5, <2>6, <2>7
             DEF Sound, Follows, Caches
\* None is left.
<1>9. ASSUME ~ (Len(s.todo) > 1),
             s.kind = "odds" => d.pools = pool[s.item],
             s.kind \in {"detail", "admin"} /\ d.market.status # "OPEN" =>
               Closed(s.item) /\ d.pools = pool[s.item]
      PROVE  \E t : Put(r, t) /\ Follows(t, slot[r])
  <2>1. PICK kept : kept = Kept(s, d)
    OBVIOUS
  <2>2. PICK read : read = IF Keeps(s, d) THEN With(s.read, s.item, kept) ELSE s.read
    OBVIOUS
  <2>3. PICK t : t = [s EXCEPT !.todo = <<>>, !.got = Blank, !.item = NoItem,
                               !.read = read]
    OBVIOUS
  <2>4. Put(r, t)
    BY <1>2, <1>6, <1>9, <2>1, <2>2, <2>3 DEF Sound, Tidy
  <2>5. s.kind = "odds" => kept.pools = pool[s.item]
    BY <1>9, <2>1, KeptOfEach
  <2>6. s.kind \in {"detail", "admin"} /\ kept.status # "OPEN" =>
          Closed(s.item) /\ kept.pools = pool[s.item]
    BY <1>9, <2>1, KeptOfEach
  <2>7. read = With(s.read, s.item, kept) \/ (s.kind = "home" /\ read = s.read)
    <3>1. CASE Keeps(s, d)
      BY <2>2, <3>1
    <3>2. CASE ~ Keeps(s, d)
      <4>1. read = s.read
        BY <2>2, <3>2
      <4> QED BY <3>2, <4>1 DEF Keeps
    <3> QED BY <3>1, <3>2
  <2>8. Follows(t, s)
    BY <1>2, <2>3, <2>5, <2>6, <2>7, KeepsStep
  <2> QED BY <1>1, <2>4, <2>8
<1>10. CASE s.todo = Queries(s.kind)
  <2>1. q = "market" /\ Len(s.todo) > 1 /\ Tail(s.todo) = ThenPools(s.kind)
    BY <1>3, <1>10, QueryOrder
  <2>2. s.kind \in {"detail", "admin"} =>
          d.market.status = status[s.item] /\ status[s.item] # "NONE"
    BY <1>5, <1>7, <2>1, Answers DEF Created
  <2>3. ThenPools(s.kind) # ThenBets
    BY QueryOrder
  <2> QED BY <1>5, <1>8, <2>1, <2>2, <2>3 DEF Closed
<1>11. CASE s.todo = ThenPools(s.kind) /\ "market" \in DOMAIN s.got
  <2>1. q = "pools"
    BY <1>3, <1>11, QueryOrder
  <2>2. d.market = s.got.market /\ d.pools = ResultOf(MarketOf(s), "pools")
    BY <1>5, <1>11, <2>1
  <2>3. s.kind # "profile" => d.pools = pool[s.item]
    BY <1>7, <2>2, Answers
  <2>4. s.kind \in {"detail", "admin"} /\ d.market.status # "OPEN" => Closed(s.item)
    <3>1. ThenPools(s.kind) # Queries(s.kind)
      BY QueryOrder
    <3> QED BY <1>2, <1>11, <2>2, <3>1 DEF Sound, SeenClosed
  <2>5. CASE s.kind = "detail"
    BY <1>5, <1>8, <1>11, <2>1, <2>3, <2>4, <2>5, QueryOrder
  <2>6. CASE s.kind # "detail"
    <3>1. ~ (Len(s.todo) > 1)
      BY <1>11, <2>6, QueryOrder
    <3>2. s.kind \in {"odds", "detail", "admin"} => d.pools = pool[s.item]
      BY <2>3
    <3> QED BY <1>9, <2>4, <3>1, <3>2
  <2> QED BY <2>5, <2>6
<1>12. CASE /\ s.kind = "detail" /\ s.todo = ThenBets
            /\ "market" \in DOMAIN s.got /\ "pools" \in DOMAIN s.got
  <2>1. q = "bets" /\ Len(s.todo) = 1 /\ ThenBets # Queries(s.kind)
    BY <1>3, <1>12, QueryOrder
  <2>2. d.market = s.got.market /\ d.pools = s.got.pools
    BY <1>5, <1>12, <2>1
  <2> QED BY <1>2, <1>9, <1>12, <2>1, <2>2 DEF Sound, SeenClosed
<1> QED BY <1>2, <1>10, <1>11, <1>12 DEF Sound, Tidy

LEMMA UnknownStep ==
  ASSUME NEW r \in Reader, Sound(slot[r]), Unknown(r)
  PROVE  \E t : Put(r, t) /\ Follows(t, slot[r])
<1>1. PICK s : s = slot[r]
  OBVIOUS
<1>2. Sound(s) /\ Asking(s) /\ s.kind = "profile"
  BY <1>1 DEF Unknown, Asking
<1>3. PICK kept : kept = [status |-> ""]
  OBVIOUS
<1>4. PICK read : read = With(s.read, s.item, kept)
  OBVIOUS
<1>5. PICK t : t = [s EXCEPT !.todo = <<>>, !.got = Blank, !.item = NoItem,
                             !.read = read]
  OBVIOUS
<1>6. Put(r, t)
  BY <1>1, <1>2, <1>3, <1>4, <1>5 DEF Unknown, Sound, Tidy
<1>7. /\ s.kind = "odds" => kept.pools = pool[s.item]
      /\ s.kind \in {"detail", "admin"} /\ kept.status # "OPEN" =>
           Closed(s.item) /\ kept.pools = pool[s.item]
  BY <1>2
<1>8. read = With(s.read, s.item, kept) \/ (s.kind = "home" /\ read = s.read)
  BY <1>4
<1>9. Follows(t, s)
  BY <1>2, <1>5, <1>7, <1>8, KeepsStep
<1> QED BY <1>1, <1>6, <1>9

-----------------------------------------------------------------------------
(* Pages: every step keeps the invariant *)

\* A slot is sound after a step if what it holds was before.
LEMMA SoundAt ==
  ASSUME TypeOK, [Next]_vars, NEW q \in Reader, NEW x, Sound(x), slot'[q] = x
  PROVE  Sound(slot[q])'
<1>1. Sound(x)'
  BY SoundStays
<1> QED BY <1>1 DEF Sound, Tidy, InTables, SeenClosed, Agrees, Items, Asking, Closed,
                    Created, Bets

LEMMA SlotsStay ==
  ASSUME PageIInv, [Next]_vars, NEW r \in Reader, NEW t, Put(r, t)
  PROVE  /\ slot' = [q \in Reader |-> slot'[q]] /\ slot'[r] = t
         /\ \A q \in Reader \ {r} : slot'[q] = slot[q] /\ Sound(slot[q])'
<1>1. /\ slot' = [q \in Reader |-> slot'[q]] /\ slot'[r] = t
      /\ \A q \in Reader \ {r} : slot'[q] = slot[q]
  BY DEF PageIInv, PageTypeOK, Put
<1>2. ASSUME NEW q \in Reader \ {r}
      PROVE  Sound(slot[q])'
  <2>1. PICK x : x = slot[q]
    OBVIOUS
  <2>2. Sound(x)
    BY <2>1 DEF PageIInv
  <2> QED BY <1>1, <2>1, <2>2, SoundAt DEF PageIInv
<1> QED BY <1>1, <1>2

\* Where nothing happens to the pools and the odds of a market.
LEMMA OddsStay ==
  ASSUME NEW m \in Market, OddsFit(m), pool'[m] = pool[m], odds'[m] = odds[m],
         m \notin disturbed' => m \notin disturbed,
         \A q \in Reader :
           /\ Caches(slot'[q], m) <=> Caches(slot[q], m)
           /\ Caches(slot[q], m) /\ m \in DOMAIN slot'[q].read =>
                \/ m \in DOMAIN slot[q].read /\ slot'[q].read[m] = slot[q].read[m]
                \/ slot'[q].read[m].pools = pool'[m]
  PROVE  OddsFit(m)'
<1>1. Caching(m)' = Caching(m)
  BY DEF Caching, Caches
<1> QED BY <1>1 DEF OddsFit, Caching

\* A reader goes on, or a page is opened or left.
LEMMA FollowStep ==
  ASSUME PageIInv, NEW r \in Reader, NEW t, Put(r, t),
         \/ Follows(t, slot[r])
         \/ Sound(t) /\ t.kind # "odds" /\ slot[r].kind # "odds",
         UNCHANGED <<vars, seedOf, odds, disturbed>>
  PROVE  PageIInv'
<1>1. [Next]_vars
  OBVIOUS
<1>2. TypeOK'
  BY <1>1, TypeStep DEF PageIInv
<1>3. /\ slot' = [q \in Reader |-> slot'[q]] /\ slot'[r] = t
      /\ \A q \in Reader \ {r} : slot'[q] = slot[q] /\ Sound(slot[q])'
  BY <1>1, SlotsStay
<1>4. Sound(slot[r])'
  BY <1>1, <1>3, SoundAt DEF PageIInv, Follows
<1>5. ASSUME NEW m \in Market
      PROVE  OddsFit(m)'
  <2>1. OddsFit(m) /\ pool' = pool
    BY DEF PageIInv, vars
  <2>2. ASSUME NEW q \in Reader
        PROVE  /\ Caches(slot'[q], m) <=> Caches(slot[q], m)
               /\ Caches(slot[q], m) /\ m \in DOMAIN slot'[q].read =>
                    \/ m \in DOMAIN slot[q].read /\ slot'[q].read[m] = slot[q].read[m]
                    \/ slot'[q].read[m].pools = pool'[m]
    BY <1>3, <2>1 DEF Follows, Caches
  <2> QED BY <2>1, <2>2, OddsStay
<1> QED BY <1>2, <1>3, <1>4, <1>5 DEF PageIInv, PageTypeOK

\* What a slot begins with.
LEMMA SlotSound ==
  ASSUME NEW kind \in Kinds, NEW items, NEW t, t = Slot(kind, items),
         items \subseteq (IF kind = "profile" THEN Bets ELSE Created),
         kind \in {"free", "odds", "detail"} => items = {}
  PROVE  Sound(t) /\ t.kind = kind
<1>1. /\ t.kind = kind /\ t.left = items /\ t.item = NoItem /\ t.todo = <<>>
      /\ t.got = Blank /\ t.read = Blank /\ DOMAIN Blank = {}
  BY DEF Slot, Blank
<1>2. Tidy(t)
  BY <1>1 DEF Tidy, Slot, Asking
<1>3. InTables(t) /\ SeenClosed(t) /\ Agrees(t)
  BY <1>1 DEF InTables, SeenClosed, Agrees, Asking, Items
<1> QED BY <1>1, <1>2, <1>3 DEF Sound

LEMMA ReadsTidy ==
  ASSUME NEW kind \in {"odds", "detail"}, NEW m, NEW t, t = Reads(Slot(kind, {}), m)
  PROVE  /\ t.kind = kind /\ t.left = {} /\ t.item = m /\ t.todo = Queries(kind)
         /\ t.got = Blank /\ t.read = Blank /\ DOMAIN Blank = {}
         /\ Tidy(t)
<1>1. t = [kind |-> kind, left |-> {}, item |-> m, todo |-> Queries(kind),
           got |-> Blank, read |-> Blank]
  BY DEF Reads, Slot
<1>2. /\ t.kind = kind /\ t.left = {} /\ t.item = m /\ t.todo = Queries(kind)
      /\ t.got = Blank /\ t.read = Blank
  BY <1>1
<1>3. DOMAIN Blank = {}
  BY DEF Blank
<1> QED BY <1>1, <1>2, <1>3 DEF Tidy, Kinds

LEMMA OpenSteps ==
  ASSUME PageIInv, NEW r \in Reader,
         \/ OpenHome(r) \/ OpenAdmin(r) \/ Leave(r)
         \/ \E m \in Market : OpenDetail(r, m)
         \/ \E u \in Account : OpenProfile(r, u)
  PROVE  PageIInv'
<1>1. Free.kind = "free"
  BY DEF Free, Slot
<1>2. CASE OpenHome(r)
  <2>1. PICK t : t = Slot("home", Created)
    OBVIOUS
  <2>2. Sound(t) /\ t.kind = "home"
    BY <2>1, SlotSound DEF Kinds
  <2> QED BY <1>1, <1>2, <2>1, <2>2, FollowStep DEF OpenHome, Begins
<1>3. CASE OpenAdmin(r)
  <2>1. PICK t : t = Slot("admin", Created)
    OBVIOUS
  <2>2. Sound(t) /\ t.kind = "admin"
    BY <2>1, SlotSound DEF Kinds
  <2> QED BY <1>1, <1>3, <2>1, <2>2, FollowStep DEF OpenAdmin, Begins
<1>4. CASE Leave(r)
  <2>1. PICK t : t = Free
    OBVIOUS
  <2>2. Sound(t) /\ t.kind = "free"
    BY <2>1, SlotSound DEF Kinds, Free
  <2> QED BY <1>4, <2>1, <2>2, FollowStep DEF Leave
<1>5. ASSUME NEW m \in Market, OpenDetail(r, m)
      PROVE  PageIInv'
  <2>1. PICK t : t = Reads(Slot("detail", {}), m)
    OBVIOUS
  <2>2. /\ t.kind = "detail" /\ t.left = {} /\ t.item = m
        /\ t.todo = Queries("detail") /\ t.read = Blank /\ DOMAIN Blank = {}
        /\ Tidy(t)
    BY <2>1, ReadsTidy
  <2>3. InTables(t)
    BY <1>5, <2>2 DEF OpenDetail, InTables, Items
  <2>4. SeenClosed(t)
    BY <2>2, QueryOrder DEF SeenClosed
  <2>5. Agrees(t)
    BY <2>2 DEF Agrees
  <2> QED BY <1>1, <1>5, <2>1, <2>2, <2>3, <2>4, <2>5, FollowStep
          DEF OpenDetail, Begins, Sound
<1>6. ASSUME NEW u \in Account, OpenProfile(r, u)
      PROVE  PageIInv'
  <2>1. PICK t : t = Slot("profile", {b \in Bets : bet[b].owner = u})
    OBVIOUS
  <2>2. Sound(t) /\ t.kind = "profile"
    BY <2>1, SlotSound DEF Kinds
  <2> QED BY <1>1, <1>6, <2>1, <2>2, FollowStep DEF OpenProfile, Begins
<1> QED BY <1>2, <1>3, <1>4, <1>5, <1>6

\* The slots of the others, and the odds of the other markets, when one slot or none
\* changes.
LEMMA AllSound ==
  ASSUME PageIInv, [Next]_vars, UNCHANGED slot
  PROVE  \A q \in Reader : Sound(slot[q])'
<1>1. TAKE q \in Reader
<1>2. PICK x : x = slot[q]
  OBVIOUS
<1>3. Sound(x)
  BY <1>2 DEF PageIInv
<1> QED BY <1>2, <1>3, SoundAt DEF PageIInv

\* After a commit that can have moved the pools of m alone.
LEMMA ThenCacheStep ==
  ASSUME PageIInv, [Next]_vars, NEW r \in Reader, NEW m \in Market, ThenCache(r, m),
         status'[m] # "NONE", \A k \in Market \ {m} : pool'[k] = pool[k]
  PROVE  PageIInv'
<1>1. TypeOK' /\ UNCHANGED odds
  BY TypeStep DEF PageIInv, ThenCache
<1>2. CASE /\ Begins(r, Reads(Slot("odds", {}), m))
           /\ disturbed' = IF Caching(m) = {} THEN disturbed \ {m}
                           ELSE disturbed \cup {m}
  <2>1. PICK t : t = Reads(Slot("odds", {}), m)
    OBVIOUS
  <2>2. /\ t.kind = "odds" /\ t.left = {} /\ t.item = m /\ t.read = Blank
        /\ DOMAIN Blank = {} /\ Tidy(t)
    BY <2>1, ReadsTidy
  <2>3. Put(r, t) /\ slot[r] = Free
    BY <1>2, <2>1 DEF Begins
  <2>4. Free.kind = "free"
    BY DEF Free, Slot
  <2>5. /\ slot' = [q \in Reader |-> slot'[q]] /\ slot'[r] = t
        /\ \A q \in Reader \ {r} : slot'[q] = slot[q] /\ Sound(slot[q])'
    BY <2>3, SlotsStay
  <2>6. Sound(slot[r])'
    BY <2>2, <2>5 DEF Sound, Tidy, InTables, SeenClosed, Agrees, Items, Created, Asking
  <2>7. ASSUME NEW k \in Market \ {m}
        PROVE  OddsFit(k)'
    <3>1. ASSUME NEW q \in Reader
          PROVE  /\ Caches(slot'[q], k) <=> Caches(slot[q], k)
                 /\ Caches(slot[q], k) /\ k \in DOMAIN slot'[q].read =>
                      k \in DOMAIN slot[q].read /\ slot'[q].read[k] = slot[q].read[k]
      BY <2>2, <2>3, <2>4, <2>5 DEF Caches
    <3>2. k \notin disturbed' => k \notin disturbed
      BY <1>2
    <3>3. OddsFit(k) /\ pool'[k] = pool[k] /\ odds'[k] = odds[k]
      BY <1>1 DEF PageIInv
    <3> QED BY <3>1, <3>2, <3>3, OddsStay
  <2>8. OddsFit(m)'
    <3>1. SUFFICES ASSUME m \notin disturbed'
                   PROVE  /\ Caching(m)' = {r}
                          /\ m \notin DOMAIN slot'[r].read
      BY DEF OddsFit
    <3>2. Caching(m) = {}
      BY <1>2, <3>1
    <3> QED BY <2>2, <2>5, <3>2 DEF Caching, Caches
  <2> QED BY <1>1, <2>5, <2>6, <2>7, <2>8 DEF PageIInv, PageTypeOK
<1>3. CASE disturbed' = disturbed \cup {m} /\ UNCHANGED slot
  <2>1. \A q \in Reader : Sound(slot[q])'
    BY <1>3, AllSound
  <2>2. ASSUME NEW k \in Market, k # m
        PROVE  OddsFit(k)'
    <3>1. OddsFit(k) /\ pool'[k] = pool[k] /\ odds'[k] = odds[k] /\ slot' = slot
          /\ (k \notin disturbed' => k \notin disturbed)
      BY <1>1, <1>3, <2>2 DEF PageIInv
    <3> QED BY <3>1, OddsStay
  <2>3. OddsFit(m)'
    BY <1>3 DEF OddsFit
  <2> QED BY <1>1, <1>3, <2>1, <2>2, <2>3 DEF PageIInv, PageTypeOK
<1> QED BY <1>2, <1>3 DEF ThenCache

LEMMA CommitSteps ==
  ASSUME PageIInv, [Next]_vars, NEW r \in Reader,
         CreateThenCache(r) \/ BetThenCache(r) \/ BuyThenCache(r)
  PROVE  PageIInv'
<1>1. TypeOK
  BY DEF PageIInv
<1>2. CASE CreateThenCache(r)
  <2>1. PICK m \in Market, outs \in SUBSET Outcome, seed \in Seeds :
          \E ids \in SeedIds(outs, seed) :
            CreateMarket(m, outs, seed, ids) /\ ThenCache(r, m)
    BY <1>2 DEF CreateThenCache
  <2>2. status'[m] # "NONE" /\ \A k \in Market \ {m} : pool'[k] = pool[k]
    BY <1>1, <2>1 DEF CreateMarket, TypeOK
  <2> QED BY <2>1, <2>2, ThenCacheStep
<1>3. CASE BetThenCache(r)
  <2>1. PICK u \in Account, m \in Market, o \in Outcome, s \in Stakes, b \in BetId :
          PlaceBet(u, m, o, s, b) /\ ThenCache(r, m)
    BY <1>3 DEF BetThenCache
  <2>2. status'[m] # "NONE" /\ \A k \in Market \ {m} : pool'[k] = pool[k]
    BY <1>1, <2>1 DEF PlaceBet, AddToPool, TakesBets, marketVars, TypeOK
  <2> QED BY <2>1, <2>2, ThenCacheStep
<1>4. CASE BuyThenCache(r)
  <2>1. PICK l \in Listings, u \in Account :
          BuyListedBet(l, u) /\ ThenCache(r, listing[l].market)
    BY <1>4 DEF BuyThenCache
  <2>2. listing[l].market \in Market
    BY <1>1, <2>1 DEF TypeOK, Listings, ListingRow
  <2>3. PICK m \in Market : m = listing[l].market
    BY <2>2
  <2>4. status'[m] # "NONE" /\ \A k \in Market \ {m} : pool'[k] = pool[k]
    BY <2>1, <2>3 DEF BuyListedBet, marketVars
  <2> QED BY <2>1, <2>3, <2>4, ThenCacheStep
<1> QED BY <1>2, <1>3, <1>4

\* Steps that leave the readers alone.
LEMMA QuietSteps ==
  ASSUME PageIInv, [Next]_vars,
         EngineStep \/ (\E m \in Market : Expire(m)) \/ UNCHANGED allVars
  PROVE  PageIInv'
<1>1. TypeOK' /\ slot' = slot /\ disturbed' = disturbed
  BY TypeStep DEF PageIInv, EngineStep, pageVars, Expire, allVars
<1>2. pool' = pool
  BY DEF EngineStep, SyncUser, AdjustBalance, LockMarket, ResolveMarket,
      ResolveEmptyPool, CancelMarket, RefundAfterRollback, RefundMarketInternal,
      ListBetForSale, CancelListing, BuyOnClosedMarket, InvalidateStaleListing,
      CallsLost, Expire, allVars, vars
<1>3. /\ odds' = [m \in Market |-> odds'[m]]
      /\ \A m \in Market : odds'[m] \in {NoOdds, odds[m]}
  BY DEF PageIInv, PageTypeOK, EngineStep, pageVars, Expire, allVars
<1>4. \A q \in Reader : Sound(slot[q])'
  BY <1>1, AllSound
<1>5. ASSUME NEW m \in Market
      PROVE  OddsFit(m)'
  BY <1>1, <1>2, <1>3 DEF PageIInv, OddsFit, Caching, Caches
<1> QED BY <1>1, <1>3, <1>4, <1>5 DEF PageIInv, PageTypeOK

\* A call that caches odds ends.
LEMMA OddsSteps ==
  ASSUME PageIInv, NEW r \in Reader, CacheOdds(r) \/ OddsLost(r)
  PROVE  PageIInv'
<1>1. UNCHANGED vars /\ Put(r, Free) /\ slot[r].kind = "odds"
  BY DEF CacheOdds, OddsLost
<1>2. TypeOK' /\ pool' = pool /\ [Next]_vars
  BY <1>1, TypeStep DEF PageIInv, vars
<1>3. PICK t : t = Free
  OBVIOUS
<1>4. Sound(t) /\ t.kind = "free"
  BY <1>3, SlotSound DEF Kinds, Free
<1>5. /\ slot' = [q \in Reader |-> slot'[q]] /\ slot'[r] = t
      /\ \A q \in Reader \ {r} : slot'[q] = slot[q] /\ Sound(slot[q])'
  BY <1>1, <1>2, <1>3, SlotsStay
<1>6. Sound(slot[r])'
  BY <1>2, <1>4, <1>5, SoundAt DEF PageIInv
<1>7. ASSUME NEW m \in Market, ~ Caches(slot[r], m), odds'[m] = odds[m],
             m \notin disturbed' => m \notin disturbed
      PROVE  OddsFit(m)'
  <2>1. OddsFit(m) /\ pool'[m] = pool[m]
    BY <1>2 DEF PageIInv
  <2>2. ASSUME NEW q \in Reader
        PROVE  /\ Caches(slot'[q], m) <=> Caches(slot[q], m)
               /\ Caches(slot[q], m) /\ m \in DOMAIN slot'[q].read =>
                    m \in DOMAIN slot[q].read /\ slot'[q].read[m] = slot[q].read[m]
    BY <1>4, <1>5, <1>7 DEF Caches
  <2> QED BY <1>7, <2>1, <2>2, OddsStay
<1>8. CASE CacheOdds(r)
  <2>1. /\ odds' = [m \in Market |-> odds'[m]] /\ disturbed' = disturbed
        /\ slot[r].item = NoItem
        /\ \A m \in Market :
             odds'[m] = IF m \in DOMAIN slot[r].read THEN slot[r].read[m].pools
                        ELSE odds[m]
    BY <1>8 DEF CacheOdds, Done
  <2>2. ASSUME NEW m \in Market
        PROVE  OddsFit(m)'
    <3>1. CASE m \in DOMAIN slot[r].read
      <4>1. SUFFICES ASSUME m \notin disturbed'
                     PROVE  Caching(m)' = {} /\ odds'[m] = pool'[m]
        BY DEF OddsFit
      <4>2. OddsFit(m) /\ r \in Caching(m) /\ m \notin disturbed
        BY <1>1, <2>1, <3>1, <4>1 DEF PageIInv, Caching, Caches
      <4>3. \A q \in Caching(m) : q = r
        BY <4>2 DEF OddsFit
      <4>4. slot[r].read[m].pools = pool[m]
        BY <3>1, <4>2 DEF OddsFit
      <4>5. Caching(m)' = {}
        BY <1>4, <1>5, <4>3 DEF Caching, Caches
      <4> QED BY <1>2, <2>1, <3>1, <4>4, <4>5
    <3>2. CASE m \notin DOMAIN slot[r].read
      <4>1. ~ Caches(slot[r], m)
        BY <2>1, <3>2, ItemAssumption DEF Caches
      <4> QED BY <1>7, <2>1, <3>2, <4>1
    <3> QED BY <3>1, <3>2
  <2> QED BY <1>2, <1>5, <1>6, <2>1, <2>2 DEF PageIInv, PageTypeOK
<1>9. CASE OddsLost(r)
  <2>1. odds' = odds /\ disturbed' = disturbed \cup {m \in Market : r \in Caching(m)}
    BY <1>9 DEF OddsLost
  <2>2. ASSUME NEW m \in Market
        PROVE  OddsFit(m)'
    <3>1. CASE Caches(slot[r], m)
      BY <2>1, <3>1 DEF OddsFit, Caching
    <3>2. CASE ~ Caches(slot[r], m)
      BY <1>7, <2>1, <3>2
    <3> QED BY <3>1, <3>2
  <2> QED BY <1>2, <1>5, <1>6, <2>1, <2>2 DEF PageIInv, PageTypeOK
<1> QED BY <1>8, <1>9

LEMMA PageInitIInv == PageInit => PageIInv
<1>1. SUFFICES ASSUME PageInit
               PROVE  PageIInv
  OBVIOUS
<1>2. TypeOK
  BY <1>1, AmountAssumption DEF PageInit, Init, TypeOK, Account
<1>3. \A r \in Reader : slot[r] = Free
  BY <1>1 DEF PageInit
<1>4. PICK t : t = Free
  OBVIOUS
<1>5. Sound(t) /\ t.kind = "free"
  BY <1>4, SlotSound DEF Kinds, Free
<1>6. ASSUME NEW m \in Market
      PROVE  OddsFit(m)
  <2>1. Caching(m) = {}
    BY <1>3, <1>4, <1>5 DEF Caching, Caches
  <2> QED BY <1>1, <2>1 DEF OddsFit, PageInit
<1> QED BY <1>1, <1>2, <1>3, <1>4, <1>5, <1>6 DEF PageInit, PageIInv, PageTypeOK

LEMMA PageIInvStep == PageIInv /\ [PageNext]_allVars => PageIInv'
<1>1. SUFFICES ASSUME PageIInv, [PageNext]_allVars
               PROVE  PageIInv'
  OBVIOUS
<1>2. [Next]_vars
  BY <1>1, EngineGoesOn
<1>3. ASSUME NEW r \in Reader, CreateThenCache(r) \/ BetThenCache(r) \/ BuyThenCache(r)
      PROVE  PageIInv'
  BY <1>1, <1>2, <1>3, CommitSteps
<1>4. ASSUME NEW r \in Reader, CacheOdds(r) \/ OddsLost(r)
      PROVE  PageIInv'
  BY <1>1, <1>4, OddsSteps
<1>5. ASSUME NEW r \in Reader,
             \/ OpenHome(r) \/ OpenAdmin(r) \/ Leave(r)
             \/ \E m \in Market : OpenDetail(r, m)
             \/ \E u \in Account : OpenProfile(r, u)
      PROVE  PageIInv'
  BY <1>1, <1>5, OpenSteps
<1>6. ASSUME NEW r \in Reader, Fetch(r) \/ Request(r) \/ Unknown(r)
      PROVE  PageIInv'
  <2>1. Sound(slot[r])
    BY <1>1 DEF PageIInv
  <2>2. UNCHANGED <<vars, seedOf, odds, disturbed>>
    BY <1>6 DEF Fetch, Request, Unknown
  <2>3. \E t : Put(r, t) /\ Follows(t, slot[r])
    BY <1>6, <2>1, FetchStep, AskStep, UnknownStep
  <2> QED BY <1>1, <2>2, <2>3, FollowStep
<1>7. ASSUME EngineStep \/ (\E m \in Market : Expire(m)) \/ UNCHANGED allVars
      PROVE  PageIInv'
  BY <1>1, <1>2, <1>7, QuietSteps
<1> QED BY <1>1, <1>3, <1>4, <1>5, <1>6, <1>7 DEF PageNext

LEMMA PageIInvInvariant == PageSpec => []PageIInv
BY PageInitIInv, PageIInvStep, PTL DEF PageSpec

-----------------------------------------------------------------------------
(* Pages show what the bets back *)

\* Of a market that exists each outcome has its seed among the house's bets, and
\* keeps it: the house sells nothing.
SeedsHeld(m) ==
  /\ seedOf[m] \in Nat
  /\ status[m] # "NONE" /\ seedOf[m] > 0 =>
       \A o \in outcomes[m] : \E b \in BetsOf(m) :
         /\ bet[b].owner = House /\ bet[b].outcome = o
         /\ bet[b].stake = seedOf[m]

AllSeedsHeld == seedOf = [m \in Market |-> seedOf[m]] /\ \A m \in Market : SeedsHeld(m)

HouseBets(m) == {b \in BetsOf(m) : bet[b].owner = House}

MoreThanSeeds(m) == Cardinality(BetsOf(m)) > SeedBets(m)
HouseHasMore(m) == Cardinality(HouseBets(m)) > SeedBets(m)

\* The volume of a page is of pools that have only grown since, and what it keeps of
\* a market was right when its bets, which stay, were read.
Honest(s) ==
  s.kind \in {"home", "detail"} =>
    /\ Asking(s) /\ s.todo # Queries(s.kind) =>
         /\ s.got.market.outcomes = outcomes[s.item]
         /\ s.got.market.seed = seedOf[s.item]
    /\ Asking(s) /\ s.todo = ThenBets =>
         \A o \in Outcome : s.got.pools[o] \in Nat /\ s.got.pools[o] <= pool[s.item][o]
    /\ \A m \in DOMAIN s.read : s.read[m].live => MoreThanSeeds(m)
    /\ s.kind = "detail" => \A m \in DOMAIN s.read :
         /\ s.read[m].live /\ s.read[m].bettors = {} => HouseHasMore(m)
         /\ \A o \in Outcome :
              /\ s.read[m].pools[o] <= s.read[m].plotted[o]
              /\ s.read[m].status # "OPEN" => s.read[m].pools[o] = s.read[m].plotted[o]

AllHonest == \A r \in Reader : Honest(slot[r])

\* The seed of a market that exists is for good.
LEMMA SeedStays ==
  ASSUME AllSeedsHeld, [PageNext]_allVars
  PROVE  /\ seedOf' = [m \in Market |-> seedOf'[m]]
         /\ \A k \in Created : seedOf'[k] = seedOf[k]
<1>1. ASSUME NEW r \in Reader, CreateThenCache(r)
      PROVE  /\ seedOf' = [m \in Market |-> seedOf'[m]]
             /\ \A k \in Created : seedOf'[k] = seedOf[k]
  <2>1. PICK m \in Market, seed \in Seeds :
          status[m] = "NONE" /\ seedOf' = [seedOf EXCEPT ![m] = seed]
    BY <1>1 DEF CreateThenCache, CreateMarket
  <2> QED BY <2>1 DEF AllSeedsHeld, Created
<1>2. ASSUME NEW r \in Reader,
             \/ BetThenCache(r) \/ BuyThenCache(r) \/ CacheOdds(r) \/ OddsLost(r)
             \/ OpenHome(r) \/ OpenAdmin(r)
             \/ \E m \in Market : OpenDetail(r, m)
             \/ \E u \in Account : OpenProfile(r, u)
             \/ Fetch(r) \/ Request(r) \/ Unknown(r) \/ Leave(r)
      PROVE  seedOf' = seedOf
  BY <1>2 DEF BetThenCache, BuyThenCache, CacheOdds, OddsLost, OpenHome, OpenAdmin,
              OpenDetail, OpenProfile, Fetch, Request, Unknown, Leave
<1>3. CASE EngineStep \/ (\E m \in Market : Expire(m)) \/ UNCHANGED allVars
  BY <1>3 DEF EngineStep, pageVars, Expire, allVars, AllSeedsHeld
<1> QED BY <1>1, <1>2, <1>3 DEF PageNext, AllSeedsHeld

\* The bets on a market stay on it, and the house's stay the house's.
LEMMA BetsStayOn ==
  ASSUME IInv, [Next]_vars, NEW m
  PROVE  BetsOf(m) \subseteq BetsOf(m)' /\ HouseBets(m) \subseteq HouseBets(m)'
<1>1. TypeOK /\ KeepStep
  BY KeepStepHolds DEF IInv
<1>2. BetsOf(m) \subseteq BetsOf(m)'
  BY <1>1, BetsPersist DEF BetsOf, SameBet
<1>3. ASSUME NEW b \in HouseBets(m)
      PROVE  b \in BetsOf(m)' /\ bet'[b].owner = House
  BY <1>1, <1>2, <1>3 DEF HouseBets, KeepStep, BetsOf
<1> QED BY <1>2, <1>3 DEF HouseBets

\* Nothing else creates a market.
LEMMA StillNone ==
  ASSUME TypeOK, [PageNext]_allVars, NEW k \in Market, status[k] = "NONE",
         ~ \E r \in Reader : CreateThenCache(r)
  PROVE  status'[k] = "NONE"
<1>1. ASSUME NEW m \in Market, RefundMarketInternal(m)
      PROVE  status'[k] = "NONE"
  BY <1>1 DEF RefundMarketInternal, Refundable, TypeOK
<1>2. CASE EngineStep
  <2>1. CASE \E m \in Market : CancelMarket(m) \/ RefundAfterRollback(m)
    BY <1>1, <2>1 DEF CancelMarket, RefundAfterRollback, marketVars
  <2>2. CASE \E m \in Market : \/ LockMarket(m)
                               \/ \E w \in Outcome : ResolveMarket(m, w)
    BY <2>2 DEF LockMarket, ResolveMarket, TypeOK
  <2> QED BY <1>2, <2>1, <2>2
          DEF EngineStep, SyncUser, AdjustBalance, ResolveEmptyPool, ListBetForSale,
              CancelListing, BuyOnClosedMarket, InvalidateStaleListing, CallsLost,
              marketVars
<1>3. ASSUME NEW r \in Reader, BetThenCache(r) \/ BuyThenCache(r)
      PROVE  status' = status
  BY <1>3 DEF BetThenCache, BuyThenCache, PlaceBet, BuyListedBet, marketVars
<1>4. ASSUME NEW r \in Reader,
             \/ CacheOdds(r) \/ OddsLost(r) \/ OpenHome(r) \/ OpenAdmin(r)
             \/ \E m \in Market : OpenDetail(r, m)
             \/ \E u \in Account : OpenProfile(r, u)
             \/ Fetch(r) \/ Request(r) \/ Unknown(r) \/ Leave(r)
      PROVE  status' = status
  BY <1>4 DEF CacheOdds, OddsLost, OpenHome, OpenAdmin, OpenDetail, OpenProfile,
              Fetch, Request, Unknown, Leave, vars
<1>5. CASE (\E m \in Market : Expire(m)) \/ UNCHANGED allVars
  BY <1>5 DEF Expire, allVars, vars
<1> QED BY <1>2, <1>3, <1>4, <1>5 DEF PageNext

\* A new market is seeded, and its seeds are the house's bets.
LEMMA SeedsHeldStep ==
  ASSUME IInv, AllSeedsHeld, [PageNext]_allVars
  PROVE  AllSeedsHeld'
<1>1. TypeOK /\ [Next]_vars
  BY EngineGoesOn DEF IInv
<1>2. seedOf' = [m \in Market |-> seedOf'[m]]
  BY SeedStays
<1>3. ASSUME NEW m \in Created
      PROVE  SeedsHeld(m)'
  <2>1. /\ m \in Market /\ seedOf'[m] = seedOf[m]
        /\ outcomes'[m] = outcomes[m] /\ status[m] # "NONE"
    BY <1>1, <1>3, SeedStays, MarketsPersist DEF Created
  <2>2. SeedsHeld(m)
    BY <2>1 DEF AllSeedsHeld
  <2>3. ASSUME seedOf[m] > 0, NEW o \in outcomes[m]
        PROVE  \E b \in BetsOf(m)' : /\ bet'[b].owner = House /\ bet'[b].outcome = o
                                     /\ bet'[b].stake = seedOf[m]
    <3>1. PICK b \in BetsOf(m) : /\ bet[b].owner = House /\ bet[b].outcome = o
                                 /\ bet[b].stake = seedOf[m]
      BY <2>1, <2>2, <2>3 DEF SeedsHeld
    <3>2. b \in BetsOf(m)' /\ bet'[b].owner = House
      BY <1>1, <3>1, BetsStayOn DEF HouseBets
    <3>3. bet'[b].outcome = bet[b].outcome /\ bet'[b].stake = bet[b].stake
      BY <1>1, <3>1, BetsPersist DEF SameBet, BetsOf
    <3> QED BY <3>1, <3>2, <3>3
  <2> QED BY <2>1, <2>2, <2>3 DEF SeedsHeld
<1>4. ASSUME NEW m \in Market, NEW outs \in SUBSET Outcome, NEW seed \in Seeds,
             NEW ids \in SeedIds(outs, seed), CreateMarket(m, outs, seed, ids),
             seedOf' = [seedOf EXCEPT ![m] = seed], NEW k \in Market, k \notin Created
      PROVE  SeedsHeld(k)'
  <2>1. SeedsHeld(k) /\ status[k] = "NONE"
    BY <1>4 DEF AllSeedsHeld, Created
  <2>2. CASE k # m
    BY <1>1, <1>4, <2>1, <2>2 DEF CreateMarket, SeedsHeld, AllSeedsHeld, TypeOK
  <2>3. CASE k = m
    <3>1. /\ seedOf'[k] = seed /\ seed \in Nat /\ outcomes'[k] = outs
      BY <1>1, <1>4, <2>3, AmountAssumption DEF CreateMarket, AllSeedsHeld, TypeOK
    <3>2. ASSUME seed > 0, NEW o \in outs
          PROVE  \E b \in BetsOf(k)' : /\ bet'[b].owner = House /\ bet'[b].outcome = o
                                       /\ bet'[b].stake = seed
      <4>1. /\ ids[o] \in BetId
            /\ \A x \in outs : ids[x] = ids[o] => x = o
        BY <3>2 DEF SeedIds, Injection, IsInjective
      <4>2. (CHOOSE x \in outs : ids[x] = ids[o]) = o
        BY <3>2, <4>1
      <4>3. bet'[ids[o]] = [market |-> m, owner |-> House, original |-> House,
                            outcome |-> o, stake |-> seed]
        BY <1>4, <3>2, <4>1, <4>2 DEF CreateMarket
      <4>4. bet'[ids[o]] \in BetRow
        BY <3>1, <3>2, <4>3 DEF BetRow, Account
      <4>5. ids[o] \in BetsOf(k)'
        BY <2>3, <4>1, <4>3, <4>4, SentinelAssumption DEF BetsOf, Bets
      <4> QED BY <4>3, <4>5
    <3> QED BY <3>1, <3>2 DEF SeedsHeld
  <2> QED BY <2>2, <2>3
<1>5. ASSUME NEW k \in Market, k \notin Created,
             ~ \E r \in Reader : CreateThenCache(r)
      PROVE  SeedsHeld(k)'
  <2>1. status[k] = "NONE" /\ SeedsHeld(k)
    BY <1>5 DEF Created, AllSeedsHeld
  <2>2. seedOf' = seedOf
    BY <1>5 DEF PageNext, EngineStep, pageVars, Expire, allVars, BetThenCache,
                BuyThenCache, CacheOdds, OddsLost, OpenHome, OpenAdmin, OpenDetail,
                OpenProfile, Fetch, Request, Unknown, Leave
  <2>3. status'[k] = "NONE"
    BY <1>1, <1>5, <2>1, StillNone
  <2> QED BY <2>1, <2>2, <2>3 DEF SeedsHeld
<1> QED BY <1>2, <1>3, <1>4, <1>5 DEF AllSeedsHeld, CreateThenCache

\* A pool of a market that exists only grows.
LEMMA PoolsGrow ==
  ASSUME TypeOK, [Next]_vars, NEW k \in Created, NEW j \in Outcome
  PROVE  pool[k][j] \in Nat /\ pool'[k][j] \in Nat /\ pool[k][j] <= pool'[k][j]
<1>1. pool[k][j] \in Nat /\ k \in Market
  BY DEF Created, TypeOK
<1>2. ASSUME NEW m \in Market, NEW outs \in SUBSET Outcome, NEW seed \in Seeds,
             NEW ids \in SeedIds(outs, seed), CreateMarket(m, outs, seed, ids)
      PROVE  pool'[k] = pool[k]
  BY <1>2 DEF CreateMarket, Created, TypeOK
<1>3. ASSUME NEW u \in Account, NEW m \in Market, NEW o \in Outcome, NEW s \in Stakes,
             NEW b \in BetId, PlaceBet(u, m, o, s, b)
      PROVE  pool'[k][j] = pool[k][j] \/ (pool'[k][j] = pool[k][j] + s /\ s \in Nat)
  <2>1. pool' = [pool EXCEPT ![m][o] = @ + s] /\ s \in Nat
    BY <1>3, AmountAssumption DEF PlaceBet, AddToPool
  <2> QED BY <1>1, <2>1 DEF TypeOK
<1> QED BY <1>1, <1>2, <1>3, BetsGrow

\* A market with more in its pools than its seeds has a bet more than its seeds.
LEMMA VolumeAboveSeeds ==
  ASSUME MoneyInv, NEW m \in Created, SeedsHeld(m), NEW d,
         d.market.outcomes = outcomes[m], d.market.seed = seedOf[m],
         \A o \in Outcome : d.pools[o] \in Nat /\ d.pools[o] <= pool[m][o],
         HasRealBets(d)
  PROVE  MoreThanSeeds(m)
<1>1. PICK p, O, s, B : /\ p = d.pools /\ O = outcomes[m] /\ s = seedOf[m]
                        /\ B = BetsOf(m)
  OBVIOUS
<1>2. /\ m \in Market /\ O \in SUBSET Outcome /\ IsFiniteSet(O) /\ Cardinality(O) \in Nat
      /\ s \in Nat /\ B \in SUBSET BetId /\ IsFiniteSet(B) /\ Cardinality(B) \in Nat
  <2>1. m \in Market /\ O \in SUBSET Outcome /\ s \in Nat
    BY <1>1 DEF Created, MoneyInv, IInv, TypeOK, SeedsHeld
  <2>2. B \in SUBSET BetId
    BY <1>1 DEF BetsOf, Bets
  <2>3. IsFiniteSet(O) /\ IsFiniteSet(B)
    BY <2>1, <2>2, OutcomeAssumption, FS_Subset, FiniteBets
  <2> QED BY <2>1, <2>2, <2>3, FS_CardinalityType
\* One pool is above the seed.
<1>3. PICK o \in O : p[o] > s
  <2>1. SUFFICES ASSUME \A o \in O : p[o] <= s
                 PROVE  FALSE
    BY <1>1, <1>2
  <2>2. PICK f : f = [o \in O |-> s]
    OBVIOUS
  <2>3. SumFunctionOnSet(f, O) = s * Cardinality(O)
    BY <1>2, <2>2, SumConstant
  <2>4. \A o \in O : p[o] \in Int /\ f[o] \in Int /\ p[o] <= f[o]
    BY <1>1, <1>2, <2>1, <2>2
  <2>5. SumFunctionOnSet(p, O) <= SumFunctionOnSet(f, O)
    BY <1>2, <2>4, SumMonotonic
  <2>6. SumFunctionOnSet(p, O) > s * Cardinality(O)
    BY <1>1 DEF HasRealBets, Volume, SeedTotal
  <2>7. SumFunctionOnSet(p, O) \in Int /\ s * Cardinality(O) \in Int
    <3>1. \A o \in O : p[o] \in Int
      BY <2>4
    <3> QED BY <1>2, <3>1, SumInt
  <2> QED BY <2>3, <2>5, <2>6, <2>7
<1>4. PICK C : C = OnOutcome(bet, m, o)
  OBVIOUS
<1>5. C \subseteq B /\ (\A b \in C : bet[b].outcome = o /\ bet[b].stake \in Nat)
  <2>1. \A b \in Bets : bet[b] \in BetRow
    BY DEF MoneyInv, IInv, TypeOK, Bets
  <2> QED BY <1>1, <1>4, <2>1, Tables DEF OnOutcome, On, BetRow
<1>6. StakesOf(bet, C) \in Nat /\ StakesOf(bet, C) > s
  <2>1. pool[m][o] = StakesOf(bet, C)
    BY <1>2, <1>4, PoolTables DEF MoneyInv, PoolFits
  <2>2. pool[m][o] \in Nat
    BY <1>2 DEF MoneyInv, IInv, TypeOK
  <2> QED BY <1>1, <1>2, <1>3, <2>1, <2>2
<1>7. CASE s = 0
  <2>1. C # {}
    BY <1>6, <1>7, StakesNone
  <2>2. Cardinality(B) # 0
    BY <1>2, <1>5, <2>1, FS_EmptySet
  <2> QED BY <1>1, <1>2, <1>7, <2>2 DEF MoreThanSeeds, SeedBets
<1>8. CASE s > 0
  <2>1. \A x \in O : \E b \in B : bet[b].outcome = x /\ bet[b].stake = s
    BY <1>1, <1>8 DEF SeedsHeld, Created
  <2>2. PICK f : f = [x \in O |-> CHOOSE b \in B : bet[b].outcome = x /\ bet[b].stake = s]
    OBVIOUS
  <2>3. \A x \in O : f[x] \in B /\ bet[f[x]].outcome = x /\ bet[f[x]].stake = s
    BY <2>1, <2>2
  <2>4. PICK c \in C : c # f[o]
    <3>1. SUFFICES ASSUME \A b \in C : b = f[o]
                   PROVE  FALSE
      OBVIOUS
    <3>2. C # {}
      BY <1>2, <1>6, <1>8, StakesNone
    <3>3. C = {} \cup {f[o]} /\ f[o] \in BetId
      BY <1>2, <2>3, <3>1, <3>2
    <3>4. /\ {} \in SUBSET BetId /\ f[o] \in BetId \ {}
          /\ \A b \in {} \cup {f[o]} : bet[b].stake \in Int
      BY <1>5, <3>3
    <3>5. StakesOf(bet, {} \cup {f[o]}) = bet[f[o]].stake + StakesOf(bet, {})
      BY <3>4, StakesAdd
    <3>6. StakesOf(bet, C) = s + 0
      BY <2>3, <3>3, <3>5, StakesNone
    <3> QED BY <1>2, <1>6, <3>6
  <2>5. PICK R : R = B \ {c}
    OBVIOUS
  <2>6. \A x \in O : f[x] \in R
    BY <1>5, <2>3, <2>4, <2>5
  <2>7. f \in Injection(O, R)
    BY <2>2, <2>3, <2>6 DEF Injection, IsInjective
  <2>8. IsFiniteSet(R) /\ Cardinality(R) = Cardinality(B) - 1
    BY <1>2, <1>5, <2>4, <2>5, FS_RemoveElement
  <2>9. Cardinality(O) <= Cardinality(R)
    BY <2>7, <2>8, FS_Injection
  <2>10. Cardinality(B) > Cardinality(O)
    BY <1>2, <2>8, <2>9
  <2> QED BY <1>1, <1>8, <2>10 DEF MoreThanSeeds, SeedBets
<1> QED BY <1>2, <1>7, <1>8

\* What the page makes of the bets: where it counts nobody, they are all the house's.
LEMMA BetsAnswer ==
  ASSUME MoneyInv, NEW m \in Market, NEW a, a = ResultOf(m, "bets")
  PROVE  /\ a.bettors = {} => HouseBets(m) = BetsOf(m)
         /\ \A o \in Outcome : a.plotted[o] = pool[m][o]
<1>1. PICK owners, stakes :
        /\ owners = {bet[b].owner : b \in BetsOf(m)} \ {House}
        /\ stakes = [o \in Outcome |-> StakeSum({b \in BetsOf(m) : bet[b].outcome = o})]
  OBVIOUS
<1>2. a = [bettors |-> owners, plotted |-> stakes]
  BY <1>1, Zenon DEF ResultOf
<1>3. a.bettors = owners /\ a.plotted = stakes
  BY <1>2
<1>4. \A o \in Outcome : stakes[o] = pool[m][o]
  BY <1>1 DEF MoneyInv, PoolsMatchBets
<1>5. owners = {} => \A b \in BetsOf(m) : bet[b].owner = House
  BY <1>1
<1>6. owners = {} => HouseBets(m) = BetsOf(m)
  BY <1>5 DEF HouseBets
<1> QED BY <1>3, <1>4, <1>6

LEMMA KeptOfPages ==
  ASSUME NEW s, NEW d
  PROVE  /\ s.kind = "home" => Kept(s, d).live = IsLive(d)
         /\ s.kind = "detail" =>
              /\ Kept(s, d).live = IsLive(d)
              /\ Kept(s, d).status = d.market.status /\ Kept(s, d).pools = d.pools
              /\ Kept(s, d).bettors = d.bets.bettors
              /\ Kept(s, d).plotted = d.bets.plotted
<1>1. s.kind = "home" => Kept(s, d) = [live |-> IsLive(d)]
  BY Zenon DEF Kept
<1>2. s.kind = "detail" =>
        Kept(s, d) = [status |-> d.market.status, pools |-> d.pools,
                      live |-> IsLive(d),
                      bettors |-> d.bets.bettors, plotted |-> d.bets.plotted]
  BY Zenon DEF Kept
<1> QED BY <1>1, <1>2

\* What a page has seen stays backed while the engine goes on.
LEMMA HonestStays ==
  ASSUME IInv, [Next]_vars, \A k \in Created : seedOf'[k] = seedOf[k],
         NEW s, Sound(s), Honest(s)
  PROVE  Honest(s)'
<1>1. SUFFICES ASSUME s.kind \in {"home", "detail"}
               PROVE  Honest(s)'
  BY DEF Honest
<1>2. /\ Asking(s) => s.item \in Created
      /\ DOMAIN s.read \subseteq Created
  BY <1>1 DEF Sound, InTables, Items
<1>3. \A m \in Created : outcomes'[m] = outcomes[m] /\ seedOf'[m] = seedOf[m]
  BY MarketsPersist DEF IInv, Created
<1>4. ASSUME NEW m \in Created
      PROVE  /\ MoreThanSeeds(m) => MoreThanSeeds(m)'
             /\ HouseHasMore(m) => HouseHasMore(m)'
  <2>1. SeedBets(m)' = SeedBets(m)
    BY <1>3, <1>4 DEF SeedBets
  <2>2. PICK B, C, H, G : /\ B = BetsOf(m) /\ C = BetsOf(m)'
                          /\ H = HouseBets(m) /\ G = HouseBets(m)'
    OBVIOUS
  <2>3. B \subseteq C /\ H \subseteq G /\ C \subseteq BetId /\ G \subseteq BetId
    BY <2>2, BetsStayOn DEF BetsOf, Bets, HouseBets
  <2>4. IsFiniteSet(C) /\ IsFiniteSet(G)
    BY <2>3, FiniteBets
  <2>5. /\ Cardinality(B) <= Cardinality(C) /\ Cardinality(H) <= Cardinality(G)
        /\ IsFiniteSet(B) /\ IsFiniteSet(H)
    BY <2>3, <2>4, FS_Subset
  <2>6. /\ Cardinality(B) \in Nat /\ Cardinality(C) \in Nat
        /\ Cardinality(H) \in Nat /\ Cardinality(G) \in Nat
    BY <2>4, <2>5, FS_CardinalityType
  <2>7. SeedBets(m) \in Nat
    <3>1. IsFiniteSet(outcomes[m])
      BY <1>4, OutcomeAssumption, FS_Subset DEF IInv, TypeOK, Created
    <3> QED BY <3>1, FS_CardinalityType DEF SeedBets
  <2>8. /\ MoreThanSeeds(m) <=> Cardinality(B) > SeedBets(m)
        /\ MoreThanSeeds(m)' <=> Cardinality(C) > SeedBets(m)'
        /\ HouseHasMore(m) <=> Cardinality(H) > SeedBets(m)
        /\ HouseHasMore(m)' <=> Cardinality(G) > SeedBets(m)'
    BY <2>2 DEF MoreThanSeeds, HouseHasMore
  <2> QED BY <2>1, <2>5, <2>6, <2>7, <2>8
<1>5. ASSUME Asking(s), s.todo = ThenBets, NEW o \in Outcome
      PROVE  s.got.pools[o] \in Nat /\ s.got.pools[o] <= pool'[s.item][o]
  <2>1. PICK k \in Created : k = s.item
    BY <1>2, <1>5
  <2>2. s.got.pools[o] \in Nat /\ s.got.pools[o] <= pool[k][o]
    BY <1>1, <1>5, <2>1 DEF Honest
  <2>3. pool[k][o] \in Nat /\ pool'[k][o] \in Nat /\ pool[k][o] <= pool'[k][o]
    BY PoolsGrow DEF IInv
  <2> QED BY <2>1, <2>2, <2>3
<1>6. ASSUME NEW m \in DOMAIN s.read
      PROVE  /\ s.read[m].live => MoreThanSeeds(m)'
             /\ s.kind = "detail" /\ s.read[m].live /\ s.read[m].bettors = {} =>
                  HouseHasMore(m)'
  BY <1>1, <1>2, <1>4, <1>6 DEF Honest
<1>7. Asking(s) /\ s.todo # Queries(s.kind) =>
        /\ s.got.market.outcomes = outcomes'[s.item]
        /\ s.got.market.seed = seedOf'[s.item]
  BY <1>1, <1>2, <1>3 DEF Honest
<1> QED BY <1>1, <1>5, <1>6, <1>7 DEF Honest, Asking

LEMMA HonestAt ==
  ASSUME IInv, [Next]_vars, \A k \in Created : seedOf'[k] = seedOf[k],
         NEW q \in Reader, NEW x, Sound(x), Honest(x), slot'[q] = x
  PROVE  Honest(slot[q])'
<1>1. Honest(x)'
  BY HonestStays
<1> QED BY <1>1 DEF Honest, Asking, MoreThanSeeds, HouseHasMore, HouseBets, SeedBets,
                    BetsOf, Bets

\* A page that has asked for nothing yet shows nothing.
LEMMA EmptyHonest ==
  ASSUME NEW s, s.read = Blank, s.item = NoItem \/ s.todo = Queries(s.kind)
  PROVE  Honest(s)
<1>1. DOMAIN Blank = {} /\ ThenBets # Queries(s.kind)
  BY QueryOrder DEF Blank
<1> QED BY <1>1 DEF Honest, Asking

\* The last answer about a market is kept.
LEMMA KeepHonest ==
  ASSUME NEW s, Sound(s), Honest(s), Asking(s), NEW kept, NEW t,
         s.kind \in {"home", "detail"} /\ kept.live => MoreThanSeeds(s.item),
         s.kind = "detail" =>
           /\ kept.live /\ kept.bettors = {} => HouseHasMore(s.item)
           /\ \A o \in Outcome :
                /\ kept.pools[o] <= kept.plotted[o]
                /\ kept.status # "OPEN" => kept.pools[o] = kept.plotted[o],
         NEW read, read = With(s.read, s.item, kept) \/ (s.kind = "home" /\ read = s.read),
         t = [s EXCEPT !.todo = <<>>, !.got = Blank, !.item = NoItem, !.read = read]
  PROVE  Honest(t)
<1>1. t = [kind |-> s.kind, left |-> s.left, item |-> NoItem, todo |-> <<>>,
           got |-> Blank, read |-> read]
  BY DEF Sound, Tidy
<1>2. t.kind = s.kind /\ t.item = NoItem /\ t.read = read
  BY <1>1
<1>3. /\ DOMAIN read \subseteq {s.item} \cup DOMAIN s.read
      /\ \A x \in DOMAIN read :
           (x = s.item /\ read[x] = kept) \/ (x \in DOMAIN s.read /\ read[x] = s.read[x])
  BY DEF With
<1> QED BY <1>2, <1>3 DEF Honest, Asking

\* The next query of a page: what it shows of a market rests on the pools that were
\* read first and the bets that were read last.
LEMMA AskHonest ==
  ASSUME MoneyInv, AllSeedsHeld, NEW r \in Reader, Sound(slot[r]), Honest(slot[r]),
         Request(r)
  PROVE  \E t : Put(r, t) /\ Honest(t)
<1>1. PICK s : s = slot[r]
  OBVIOUS
<1>2. Sound(s) /\ Honest(s) /\ Asking(s)
  BY <1>1 DEF Request, Asking
<1>3. PICK q : q = Head(s.todo)
  OBVIOUS
<1>4. PICK d : d = With(s.got, q, ResultOf(MarketOf(s), q))
  OBVIOUS
<1>5. /\ DOMAIN d = {q} \cup DOMAIN s.got /\ d[q] = ResultOf(MarketOf(s), q)
      /\ \A x \in DOMAIN s.got : x # q => d[x] = s.got[x]
  BY <1>4 DEF With
<1>6. /\ Len(s.todo) > 1 => Put(r, [s EXCEPT !.todo = Tail(@), !.got = d])
      /\ ~ (Len(s.todo) > 1) =>
           Put(r, [s EXCEPT !.todo = <<>>, !.got = Blank, !.item = NoItem, !.read =
                     IF Keeps(s, d) THEN With(@, s.item, Kept(s, d)) ELSE @])
  BY <1>1, <1>3, <1>4 DEF Request
<1>7. s.kind # "profile" => MarketOf(s) = s.item /\ s.item \in Created /\ s.item \in Market
  BY <1>2 DEF Sound, InTables, Items, MarketOf, Created
<1>8. TypeOK
  BY DEF MoneyInv, IInv
\* A query is left: the answer is noted.
<1>9. ASSUME NEW todo, Tail(s.todo) = todo, Len(s.todo) > 1,
             s.kind \in {"home", "detail"} =>
               /\ d.market.outcomes = outcomes[s.item] /\ d.market.seed = seedOf[s.item]
               /\ todo = ThenBets => \A o \in Outcome :
                    d.pools[o] \in Nat /\ d.pools[o] <= pool[s.item][o]
      PROVE  \E t : Put(r, t) /\ Honest(t)
  <2>1. PICK t : t = [s EXCEPT !.todo = Tail(@), !.got = d]
    OBVIOUS
  <2>2. t = [kind |-> s.kind, left |-> s.left, item |-> s.item, todo |-> todo,
             got |-> d, read |-> s.read]
    BY <1>2, <1>9, <2>1 DEF Sound, Tidy
  <2>3. /\ t.kind = s.kind /\ t.item = s.item /\ t.todo = todo /\ t.got = d
        /\ t.read = s.read
    BY <2>2
  <2>4. Honest(t)
    BY <1>2, <1>9, <2>3 DEF Honest
  <2> QED BY <1>6, <1>9, <2>1, <2>4
\* None is left.
<1>10. ASSUME ~ (Len(s.todo) > 1),
              s.kind \in {"home", "detail"} =>
                /\ d.market.outcomes = outcomes[s.item] /\ d.market.seed = seedOf[s.item]
                /\ \A o \in Outcome : d.pools[o] \in Nat /\ d.pools[o] <= pool[s.item][o],
              s.kind = "detail" =>
                /\ d.bets = ResultOf(s.item, "bets")
                /\ d.market.status # "OPEN" => d.pools = pool[s.item]
       PROVE  \E t : Put(r, t) /\ Honest(t)
  <2>1. PICK kept : kept = Kept(s, d)
    OBVIOUS
  <2>2. PICK read : read = IF Keeps(s, d) THEN With(s.read, s.item, kept) ELSE s.read
    OBVIOUS
  <2>3. PICK t : t = [s EXCEPT !.todo = <<>>, !.got = Blank, !.item = NoItem,
                               !.read = read]
    OBVIOUS
  <2>4. Put(r, t)
    BY <1>2, <1>6, <1>10, <2>1, <2>2, <2>3 DEF Sound, Tidy
  <2>5. ASSUME s.kind \in {"home", "detail"}, kept.live
        PROVE  MoreThanSeeds(s.item)
    <3>1. HasRealBets(d)
      BY <2>1, <2>5, KeptOfPages DEF IsLive
    <3>2. s.item \in Created /\ SeedsHeld(s.item)
      BY <1>7, <2>5 DEF AllSeedsHeld
    <3> QED BY <1>10, <2>5, <3>1, <3>2, VolumeAboveSeeds
  <2>6. ASSUME s.kind = "detail"
        PROVE  /\ kept.live /\ kept.bettors = {} => HouseHasMore(s.item)
               /\ \A o \in Outcome :
                    /\ kept.pools[o] <= kept.plotted[o]
                    /\ kept.status # "OPEN" => kept.pools[o] = kept.plotted[o]
    <3>1. PICK a : a = ResultOf(s.item, "bets")
      OBVIOUS
    <3>2. /\ kept.status = d.market.status /\ kept.pools = d.pools
          /\ kept.bettors = a.bettors /\ kept.plotted = a.plotted
      BY <1>10, <2>1, <2>6, <3>1, KeptOfPages
    <3>3. /\ a.bettors = {} => HouseBets(s.item) = BetsOf(s.item)
          /\ \A o \in Outcome : a.plotted[o] = pool[s.item][o]
      BY <1>7, <2>6, <3>1, BetsAnswer
    <3>4. kept.live /\ kept.bettors = {} => HouseHasMore(s.item)
      BY <2>5, <2>6, <3>2, <3>3 DEF MoreThanSeeds, HouseHasMore
    <3> QED BY <1>10, <2>6, <3>2, <3>3, <3>4
  <2>7. read = With(s.read, s.item, kept) \/ (s.kind = "home" /\ read = s.read)
    <3>1. CASE Keeps(s, d)
      BY <2>2, <3>1
    <3>2. CASE ~ Keeps(s, d)
      <4>1. read = s.read
        BY <2>2, <3>2
      <4> QED BY <3>2, <4>1 DEF Keeps
    <3> QED BY <3>1, <3>2
  <2>8. s.kind \in {"home", "detail"} /\ kept.live => MoreThanSeeds(s.item)
    BY <2>5
  <2>9. Honest(t)
    BY <1>2, <2>3, <2>6, <2>7, <2>8, KeepHonest
  <2> QED BY <2>4, <2>9
<1>11. CASE s.todo = Queries(s.kind)
  <2>1. q = "market" /\ Len(s.todo) > 1 /\ Tail(s.todo) = ThenPools(s.kind)
    BY <1>3, <1>11, QueryOrder
  <2>2. s.kind \in {"home", "detail"} =>
          d.market.outcomes = outcomes[s.item] /\ d.market.seed = seedOf[s.item]
    BY <1>5, <1>7, <2>1, Answers
  <2>3. ThenPools(s.kind) # ThenBets
    BY QueryOrder
  <2> QED BY <1>9, <2>1, <2>2, <2>3
<1>12. CASE s.todo = ThenPools(s.kind) /\ "market" \in DOMAIN s.got
  <2>1. q = "pools" /\ ThenPools(s.kind) # Queries(s.kind)
    BY <1>3, <1>12, QueryOrder
  <2>2. d.market = s.got.market /\ d.pools = ResultOf(MarketOf(s), "pools")
    BY <1>5, <1>12, <2>1
  <2>3. s.kind # "profile" => d.pools = pool[s.item]
    BY <1>7, <2>2, Answers
  <2>4. s.kind \in {"home", "detail"} =>
          /\ d.market.outcomes = outcomes[s.item] /\ d.market.seed = seedOf[s.item]
          /\ \A o \in Outcome : d.pools[o] \in Nat /\ d.pools[o] <= pool[s.item][o]
    BY <1>2, <1>7, <1>8, <1>12, <2>1, <2>2, <2>3 DEF Honest, TypeOK
  <2>5. CASE s.kind = "detail"
    BY <1>9, <1>12, <2>4, <2>5, QueryOrder
  <2>6. CASE s.kind # "detail"
    <3>1. ~ (Len(s.todo) > 1)
      BY <1>12, <2>6, QueryOrder
    <3>2. s.kind # "detail"
      BY <2>6
    <3> QED BY <1>10, <2>4, <3>1, <3>2
  <2> QED BY <2>5, <2>6
<1>13. CASE /\ s.kind = "detail" /\ s.todo = ThenBets
            /\ "market" \in DOMAIN s.got /\ "pools" \in DOMAIN s.got
  <2>1. q = "bets" /\ Len(s.todo) = 1 /\ ThenBets # Queries(s.kind)
    BY <1>3, <1>13, QueryOrder
  <2>2. /\ d.market = s.got.market /\ d.pools = s.got.pools
        /\ d.bets = ResultOf(s.item, "bets")
    BY <1>5, <1>7, <1>13, <2>1
  <2>3. d.market.status # "OPEN" => d.pools = pool[s.item]
    BY <1>2, <1>13, <2>2 DEF Sound, SeenClosed
  <2>4. /\ d.market.outcomes = outcomes[s.item] /\ d.market.seed = seedOf[s.item]
        /\ \A o \in Outcome : d.pools[o] \in Nat /\ d.pools[o] <= pool[s.item][o]
    BY <1>2, <1>13, <2>1, <2>2 DEF Honest
  <2>5. ~ (Len(s.todo) > 1)
    BY <2>1
  <2> QED BY <1>10, <2>2, <2>3, <2>4, <2>5
<1> QED BY <1>2, <1>11, <1>12, <1>13 DEF Sound, Tidy

\* The other steps of a slot: a page begins, asks for the next of its markets or ends.
LEMMA OtherHonest ==
  ASSUME NEW r \in Reader, Sound(slot[r]), Honest(slot[r]),
         \/ CacheOdds(r) \/ OddsLost(r) \/ OpenHome(r) \/ OpenAdmin(r)
         \/ \E m \in Market : OpenDetail(r, m)
         \/ \E u \in Account : OpenProfile(r, u)
         \/ Fetch(r) \/ Unknown(r) \/ Leave(r)
  PROVE  \E t : Put(r, t) /\ Honest(t)
<1>1. ASSUME NEW kind, NEW items, Put(r, Slot(kind, items))
      PROVE  \E t : Put(r, t) /\ Honest(t)
  <2>1. PICK t : t = Slot(kind, items)
    OBVIOUS
  <2>2. t.read = Blank /\ t.item = NoItem
    BY <2>1 DEF Slot
  <2> QED BY <1>1, <2>1, <2>2, EmptyHonest
<1>2. CASE \/ CacheOdds(r) \/ OddsLost(r) \/ OpenHome(r) \/ OpenAdmin(r) \/ Leave(r)
           \/ \E u \in Account : OpenProfile(r, u)
  BY <1>1, <1>2 DEF CacheOdds, OddsLost, OpenHome, OpenAdmin, OpenProfile, Leave,
                    Begins, Free
<1>3. ASSUME NEW m \in Market, OpenDetail(r, m)
      PROVE  \E t : Put(r, t) /\ Honest(t)
  <2>1. PICK t : t = Reads(Slot("detail", {}), m)
    OBVIOUS
  <2>2. t.read = Blank /\ t.todo = Queries(t.kind)
    BY <2>1, ReadsTidy
  <2> QED BY <1>3, <2>1, <2>2, EmptyHonest DEF OpenDetail, Begins
<1>4. PICK s : s = slot[r]
  OBVIOUS
<1>5. Sound(s) /\ Honest(s)
  BY <1>4
<1>6. ASSUME s.kind = "profile", NEW t, Put(r, t), t.kind = s.kind
      PROVE  \E u : Put(r, u) /\ Honest(u)
  BY <1>6 DEF Honest
<1>7. CASE Fetch(r)
  <2>1. PICK i \in s.left :
          \/ Put(r, Reads(s, i))
          \/ /\ s.kind = "profile"
             /\ \E k \in Fetched(s, i) :
                  Put(r, [s EXCEPT !.left = @ \ {i}, !.read = With(@, i, s.read[k])])
    BY <1>4, <1>7 DEF Fetch
  <2>2. CASE Put(r, Reads(s, i))
    <3>1. PICK t : t = Reads(s, i)
      OBVIOUS
    <3>2. t = [kind |-> s.kind, left |-> s.left \ {i}, item |-> i,
               todo |-> Queries(s.kind), got |-> s.got, read |-> s.read]
      BY <1>5, <3>1 DEF Reads, Sound, Tidy
    <3>3. t.kind = s.kind /\ t.todo = Queries(s.kind) /\ t.read = s.read
      BY <3>2
    <3>4. Honest(t)
      BY <1>5, <3>3, QueryOrder DEF Honest
    <3> QED BY <2>2, <3>1, <3>4
  <2>3. ASSUME s.kind = "profile", NEW k \in Fetched(s, i),
               Put(r, [s EXCEPT !.left = @ \ {i}, !.read = With(@, i, s.read[k])])
        PROVE  \E t : Put(r, t) /\ Honest(t)
    <3>1. PICK t : t = [s EXCEPT !.left = @ \ {i}, !.read = With(@, i, s.read[k])]
      OBVIOUS
    <3>2. PICK read : read = With(s.read, i, s.read[k])
      OBVIOUS
    <3>3. t = [kind |-> s.kind, left |-> s.left \ {i}, item |-> s.item,
               todo |-> s.todo, got |-> s.got, read |-> read]
      BY <1>5, <3>1, <3>2 DEF Sound, Tidy
    <3> QED BY <1>6, <2>3, <3>1, <3>3
  <2> QED BY <2>1, <2>2, <2>3
<1>8. CASE Unknown(r)
  <2>1. s.kind = "profile"
    BY <1>4, <1>8 DEF Unknown
  <2>2. PICK read : read = With(s.read, s.item, [status |-> ""])
    OBVIOUS
  <2>3. PICK t : t = [s EXCEPT !.todo = <<>>, !.got = Blank, !.item = NoItem,
                               !.read = read]
    OBVIOUS
  <2>4. t = [kind |-> s.kind, left |-> s.left, item |-> NoItem, todo |-> <<>>,
             got |-> Blank, read |-> read]
    BY <1>5, <2>3 DEF Sound, Tidy
  <2>5. Put(r, t)
    BY <1>4, <1>5, <1>8, <2>2, <2>3 DEF Unknown, Sound, Tidy
  <2> QED BY <1>6, <2>1, <2>4, <2>5
<1> QED BY <1>2, <1>3, <1>7, <1>8

LEMMA HonestStep ==
  PageIInv /\ MoneyInv /\ AllSeedsHeld /\ AllHonest /\ [PageNext]_allVars => AllHonest'
<1>1. SUFFICES ASSUME PageIInv, MoneyInv, AllSeedsHeld, AllHonest, [PageNext]_allVars,
                      NEW q \in Reader
               PROVE  Honest(slot[q])'
  BY DEF AllHonest
<1>2. /\ IInv /\ [Next]_vars /\ \A k \in Created : seedOf'[k] = seedOf[k]
      /\ \A r \in Reader : Sound(slot[r]) /\ Honest(slot[r])
  BY <1>1, EngineGoesOn, SeedStays DEF PageIInv, MoneyInv, AllHonest
<1>3. ASSUME slot'[q] = slot[q]
      PROVE  Honest(slot[q])'
  <2>1. PICK x : x = slot[q]
    OBVIOUS
  <2> QED BY <1>2, <1>3, <2>1, HonestAt
\* A slot that changes holds nothing of the tables that is not in them now, but for
\* the commit before a call that caches odds, which shows nothing.
<1>4. ASSUME NEW r \in Reader, UNCHANGED <<vars, seedOf>>, NEW t, Put(r, t), Honest(t)
      PROVE  Honest(slot[q])'
  <2>1. CASE q = r
    <3>1. slot'[q] = t
      BY <1>1, <1>4, <2>1 DEF PageIInv, PageTypeOK, Put
    <3>2. Honest(t)'
      BY <1>4 DEF Honest, Asking, MoreThanSeeds, HouseHasMore, HouseBets,
                      SeedBets, BetsOf, Bets, vars
    <3> QED BY <3>1, <3>2 DEF Honest, Asking, MoreThanSeeds, HouseHasMore,
                               HouseBets, SeedBets, BetsOf, Bets
  <2>2. CASE q # r
    BY <1>1, <1>3, <1>4, <2>2 DEF PageIInv, PageTypeOK, Put
  <2> QED BY <2>1, <2>2
<1>5. ASSUME NEW r \in Reader, CreateThenCache(r) \/ BetThenCache(r) \/ BuyThenCache(r)
      PROVE  Honest(slot[q])'
  <2>1. PICK m : ThenCache(r, m)
    BY <1>5 DEF CreateThenCache, BetThenCache, BuyThenCache
  <2>2. PICK t : t = Reads(Slot("odds", {}), m)
    OBVIOUS
  <2>3. Put(r, t) \/ slot' = slot
    BY <2>1, <2>2 DEF ThenCache, Begins
  <2>4. t.kind = "odds"
    BY <2>2, ReadsTidy
  <2>5. slot'[q] = slot[q] \/ slot'[q] = t
    BY <1>1, <2>3 DEF PageIInv, PageTypeOK, Put
  <2>6. ASSUME slot'[q] = t
        PROVE  Honest(slot[q])'
    BY <2>4, <2>6 DEF Honest
  <2> QED BY <1>3, <2>5, <2>6
<1>6. ASSUME NEW r \in Reader,
             \/ CacheOdds(r) \/ OddsLost(r) \/ OpenHome(r) \/ OpenAdmin(r)
             \/ \E m \in Market : OpenDetail(r, m)
             \/ \E u \in Account : OpenProfile(r, u)
             \/ Fetch(r) \/ Unknown(r) \/ Leave(r)
      PROVE  Honest(slot[q])'
  <2>1. UNCHANGED <<vars, seedOf>>
    BY <1>6 DEF CacheOdds, OddsLost, OpenHome, OpenAdmin, OpenDetail, OpenProfile,
                Fetch, Unknown, Leave
  <2>2. \E t : Put(r, t) /\ Honest(t)
    BY <1>2, <1>6, OtherHonest
  <2> QED BY <1>4, <2>1, <2>2
<1>7. ASSUME NEW r \in Reader, Request(r)
      PROVE  Honest(slot[q])'
  <2>1. UNCHANGED <<vars, seedOf>>
    BY <1>7 DEF Request
  <2>2. \E t : Put(r, t) /\ Honest(t)
    BY <1>1, <1>2, <1>7, AskHonest
  <2> QED BY <1>4, <2>1, <2>2
<1>8. CASE EngineStep \/ (\E m \in Market : Expire(m)) \/ UNCHANGED allVars
  BY <1>3, <1>8 DEF EngineStep, pageVars, Expire, allVars
<1> QED BY <1>1, <1>5, <1>6, <1>7, <1>8 DEF PageNext

-----------------------------------------------------------------------------
(* Pages: theorems *)

\* Whatever is read of it, and whenever, the engine is the engine of BetEngine: what
\* is proved of that holds of this.
THEOREM EngineBehindPages == PageSpec => Spec
<1>1. PageInit => Init
  BY DEF PageInit
<1>2. [PageNext]_allVars => [Next]_vars
  BY EngineGoesOn
<1> QED BY <1>1, <1>2, PTL DEF PageSpec, Spec

\* ClosedPageIsFinal: a page that says a market is closed shows the pools it is
\* settled with, for any number of pages, markets and bets: GetMarketDetails reads
\* the row first.
THEOREM ClosedPagesAreFinal == PageSpec => []ClosedPageIsFinal
<1>1. PageIInv => ClosedPageIsFinal
  BY DEF PageIInv, Sound, SeenClosed, ClosedPageIsFinal, Shows, Shown
<1> QED BY <1>1, PageIInvInvariant, PTL

\* OddsFollowBets: the odds that a call caches while it has the market to itself are
\* those of the pools, however many calls come to the other markets meanwhile.
THEOREM OddsAlwaysFollow == PageSpec => []OddsFollowBets
<1>1. PageIInv => OddsFollowBets
  BY DEF PageIInv, OddsFit, OddsFollowBets
<1> QED BY <1>1, PageIInvInvariant, PTL

\* HistoryAgrees: the rows of a betting history agree on the status of a market, for
\* any number of bets and of transitions while the page is put together.
THEOREM HistoriesAgree == PageSpec => []HistoryAgrees
<1>1. PageIInv => HistoryAgrees
  BY DEF PageIInv, Sound, Agrees, HistoryAgrees
<1> QED BY <1>1, PageIInvInvariant, PTL

\* VolumeIsBacked and LiveMeansBets need the engine's invariant as well: what the
\* pools of a page add up to is compared with the stakes of the bets behind them.
LEMMA SeedsInvariant == PageSpec => [](MoneyInv /\ AllSeedsHeld)
<1>1. PageInit => AllSeedsHeld
  BY DEF PageInit, Init, AllSeedsHeld, SeedsHeld
<1>2. MoneyInv /\ AllSeedsHeld /\ [PageNext]_allVars => AllSeedsHeld'
  BY SeedsHeldStep DEF MoneyInv
<1> QED BY <1>1, <1>2, EngineBehindPages, MoneyInvariant, PTL DEF PageSpec

LEMMA HonestInvariant == PageSpec => []AllHonest
<1>1. PageInit => AllHonest
  <2>1. Free.read = Blank /\ Free.item = NoItem
    BY DEF Free, Slot
  <2>2. Honest(Free)
    BY <2>1, EmptyHonest
  <2> QED BY <2>2 DEF PageInit, AllHonest
<1> QED BY <1>1, HonestStep, PageIInvInvariant, SeedsInvariant, PTL DEF PageSpec

\* VolumeIsBacked: the sparkline of a page is drawn from all the bets behind the
\* volume next to it, whatever is bet between the queries of marketDetailPage, for
\* any number of bets, outcomes and readers.
THEOREM VolumesAlwaysBacked == PageSpec => []VolumeIsBacked
<1>1. AllHonest => VolumeIsBacked
  BY DEF AllHonest, Honest, VolumeIsBacked, Shows, Shown
<1> QED BY <1>1, HonestInvariant, PTL

\* LiveMeansBets: "AO VIVO" is never shown of a market with nothing but its seeds,
\* for any seed, number of outcomes, bets and readers, the house among the bettors;
\* where such a page counts nobody, the house has more than the seeds.
THEOREM LiveAlwaysMeansBets == PageSpec => []LiveMeansBets
<1>1. AllHonest => LiveMeansBets
  BY DEF AllHonest, Honest, LiveMeansBets, Shows, Shown, MoreThanSeeds, HouseHasMore,
         HouseBets
<1> QED BY <1>1, HonestInvariant, PTL
=============================================================================
