------------------------------ MODULE Gateway -------------------------------
(***************************************************************************)
(* What a browser is told of a post and what has become of it.  A post to    *)
(* general-backend is checked there and forwarded as one request to           *)
(* bet-backend, which turns the result of its service function into a status  *)
(* code; a JSON route relays the code, a page makes a sentence of it.  After   *)
(* 5 s the handler gives up, and the request may still be on its way.         *)
(*                                                                          *)
(* The posts of Post are followed from the browser to the tables and back;    *)
(* every other post is a step of BetEngine that happens in between.  Each     *)
(* member of Post is posted once at most.                                     *)
(***************************************************************************)
EXTENDS BetEngine

CONSTANTS
  Post,       \* the posts that are followed
  NoAsk,      \* "this post has not been made"
  MaxSanity   \* sanitize.MaxSanityInt

ASSUME MaxSanityAssumption == MaxSanity \in Nat

VARIABLES
  ask,        \* what each post asks for
  at,         \* how far its request has got
  reply,      \* bet-backend's status code, while it is on its way back
  made,       \* the row the reply names
  verdict,    \* what the browser was told
  committed   \* history: the posts whose request has done what was asked

postVars == <<ask, at, reply, made, verdict, committed>>
gatewayVars == <<vars, ask, at, reply, made, verdict, committed>>

NoCode == 0
NoRow == "none"
Stage == {"idle", "sent", "second", "replied", "end"}
Verdicts == {"none", "done", "refused", "unsure"}

-----------------------------------------------------------------------------
(* Requests that pass the checks of general-backend *)

Positive == 1 .. MaxSanity
NonNegative == 0 .. MaxSanity

SyncAsk == [kind : {"sync"}, user : Account, amount : SyncBalances \cap NonNegative]
CreateAsk == [kind : {"create"}, outcomes : {O \in SUBSET Outcome : Cardinality(O) \in 2 .. 10},
              amount : Seeds \cap NonNegative]
BetAsk == [kind : {"bet"}, user : Account, market : Market, outcome : Outcome,
           amount : Stakes \cap Positive]
LockAsk == [kind : {"lock"}, market : Market]
ResolveAsk == [kind : {"resolve"}, market : Market, outcome : Outcome]
CancelAsk == [kind : {"cancel"}, market : Market]
ListAsk == [kind : {"list"}, user : Account, bet : BetId, amount : Prices \cap Positive]
UnlistAsk == [kind : {"unlist"}, user : Account, listing : ListingId]
BuyAsk == [kind : {"buy"}, user : Account, listing : ListingId]

Ask == SyncAsk \cup CreateAsk \cup BetAsk \cup LockAsk \cup ResolveAsk
       \cup CancelAsk \cup ListAsk \cup UnlistAsk \cup BuyAsk

-----------------------------------------------------------------------------
(* bet-backend's answers: the status of a call that is refused, or NoCode *)

CreateRefusal(a) ==
  IF balance[House] < a.amount * Cardinality(a.outcomes) THEN 500 ELSE NoCode

BetRefusal(a) ==
  IF status[a.market] = "NONE" THEN 500
  ELSE IF ~TakesBets(a.market) \/ a.outcome \notin outcomes[a.market] THEN 400
  ELSE IF a.user \notin users THEN 500
  ELSE IF balance[a.user] < a.amount THEN 402 ELSE NoCode

LockRefusal(a) == IF status[a.market] # "OPEN" THEN 500 ELSE NoCode

ResolveRefusal(a) ==
  IF status[a.market] # "LOCKED" \/ a.outcome \notin outcomes[a.market]
  THEN 500 ELSE NoCode

CancelRefusal(a) == IF ~Refundable(a.market) THEN 500 ELSE NoCode

\* ErrBetNotFound, ErrMarketNotOpen, ErrNotBetOwner, ErrCannotListHouseBet and
\* ErrBetAlreadyListed.
ListRefusal(a) ==
  IF a.bet \notin Bets THEN 404
  ELSE IF status[bet[a.bet].market] # "OPEN" THEN 400
  ELSE IF bet[a.bet].owner # a.user THEN 403
  ELSE IF a.user = House THEN 400
  ELSE IF \E l \in Listed : listing[l].bet = a.bet THEN 409 ELSE NoCode

\* ErrListingNotFound, ErrNotListingOwner and ErrListingNotActive.
UnlistRefusal(a) ==
  IF a.listing \notin Listings THEN 404
  ELSE IF listing[a.listing].seller # a.user THEN 403
  ELSE IF a.listing \notin Listed THEN 409 ELSE NoCode

\* On a closed market the call rolls back and goes on: see RollBack.
BuyRefusal(a) ==
  IF a.listing \notin Listings THEN 404
  ELSE IF status[listing[a.listing].market] # "OPEN" THEN NoCode
  ELSE IF a.listing \notin Listed THEN 409
  ELSE IF listing[a.listing].seller = a.user THEN 400
  ELSE IF a.user \notin users THEN 500
  ELSE IF balance[a.user] < listing[a.listing].price THEN 402 ELSE NoCode

Refusal(a) ==
  CASE a.kind = "sync"    -> NoCode
    [] a.kind = "create"  -> CreateRefusal(a)
    [] a.kind = "bet"     -> BetRefusal(a)
    [] a.kind = "lock"    -> LockRefusal(a)
    [] a.kind = "resolve" -> ResolveRefusal(a)
    [] a.kind = "cancel"  -> CancelRefusal(a)
    [] a.kind = "list"    -> ListRefusal(a)
    [] a.kind = "unlist"  -> UnlistRefusal(a)
    [] a.kind = "buy"     -> BuyRefusal(a)

\* The status of a call that is not.
Success(kind) == IF kind \in {"create", "bet", "list"} THEN 201 ELSE 200

\* The service function of a request commits and returns the row it made.
Serves(a, row) ==
  \/ a.kind = "sync" /\ row = NoRow /\ SyncUser(a.user, a.amount)
  \/ a.kind = "create" /\ row \in Market
     /\ \E ids \in SeedIds(a.outcomes, a.amount) :
          CreateMarket(row, a.outcomes, a.amount, ids)
  \/ a.kind = "bet" /\ row \in BetId
     /\ PlaceBet(a.user, a.market, a.outcome, a.amount, row)
  \/ a.kind = "lock" /\ row = NoRow /\ LockMarket(a.market)
  \/ a.kind = "resolve" /\ row = NoRow /\ ResolveMarket(a.market, a.outcome)
  \/ a.kind = "cancel" /\ row = NoRow /\ CancelMarket(a.market)
  \/ a.kind = "list" /\ row \in ListingId
     /\ ListBetForSale(a.bet, a.user, a.amount, row)
  \/ a.kind = "unlist" /\ row = NoRow /\ CancelListing(a.listing, a.user)
  \/ a.kind = "buy" /\ row = NoRow /\ BuyListedBet(a.listing, a.user)

-----------------------------------------------------------------------------
PostInit ==
  /\ Init
  /\ ask = [p \in Post |-> NoAsk]
  /\ at = [p \in Post |-> "idle"]
  /\ reply = [p \in Post |-> NoCode]
  /\ made = [p \in Post |-> NoRow]
  /\ verdict = [p \in Post |-> "none"]
  /\ committed = {}

\* A browser posts; the request is sent.
Submit(p, a) ==
  /\ at[p] = "idle"
  /\ ask' = [ask EXCEPT ![p] = a]
  /\ at' = [at EXCEPT ![p] = "sent"]
  /\ UNCHANGED <<vars, reply, made, verdict, committed>>

\* A malformed post, or one with an amount out of range, goes no further.
RefuseInput(p) ==
  /\ at[p] = "idle"
  /\ at' = [at EXCEPT ![p] = "end"]
  /\ verdict' = [verdict EXCEPT ![p] = "refused"]
  /\ UNCHANGED <<vars, ask, reply, made, committed>>

\* A status goes back, unless nobody waits for it any more.
Reply(p, code) ==
  IF verdict[p] = "none"
  THEN at' = [at EXCEPT ![p] = "replied"] /\ reply' = [reply EXCEPT ![p] = code]
  ELSE at' = [at EXCEPT ![p] = "end"] /\ UNCHANGED reply

Refuse(p) ==
  /\ at[p] = "sent"
  /\ Refusal(ask[p]) # NoCode
  /\ Reply(p, Refusal(ask[p]))
  /\ UNCHANGED <<vars, ask, made, verdict, committed>>

\* The call commits.  When the acknowledgement of the COMMIT is lost, it reports
\* an error all the same.
Accept(p) ==
  /\ at[p] = "sent"
  /\ Refusal(ask[p]) = NoCode
  /\ \E a \in {ask[p]}, row \in Market \cup BetId \cup ListingId \cup {NoRow} :
       Serves(a, row) /\ made' = [made EXCEPT ![p] = row]
  /\ \E code \in {Success(ask[p].kind), 500} : Reply(p, code)
  /\ committed' = committed \cup {p}
  /\ UNCHANGED <<ask, verdict>>

\* A call that rolls back and goes on to a second transaction.
RollBack(p) ==
  /\ at[p] = "sent"
  /\ \E a \in {ask[p]} :
       /\ Refusal(a) = NoCode
       /\ \/ a.kind = "resolve" /\ ResolveEmptyPool(a.market, a.outcome)
          \/ a.kind = "buy" /\ BuyOnClosedMarket(a.listing)
  /\ at' = [at EXCEPT ![p] = "second"]
  /\ UNCHANGED <<ask, reply, made, verdict, committed>>

\* Mutant: the error of RefundMarketInternal is not looked at.
FinishRefundAnyway(p) ==
  LET m == ask[p].market IN
  /\ at[p] = "second" /\ ask[p].kind = "resolve"
  /\ IF m \in refunding THEN RefundAfterRollback(m) ELSE UNCHANGED vars
  /\ Reply(p, 200)
  /\ committed' = committed \cup {p}
  /\ UNCHANGED <<ask, made, verdict>>

\* ResolveMarket refunds and reports success; a market settled in between, or a
\* transaction that is aborted, is an error.
FinishRefund(p) ==
  /\ at[p] = "second" /\ ask[p].kind = "resolve"
  /\ \E m \in {ask[p].market} :
       \/ /\ m \in refunding /\ status[m] \notin Settled
          /\ RefundAfterRollback(m)
          /\ \E code \in {200, 500} : Reply(p, code)
          /\ committed' = committed \cup {p}
       \/ /\ m \in refunding /\ status[m] \in Settled
          /\ RefundAfterRollback(m)
          /\ Reply(p, 500)
          /\ UNCHANGED committed
       \/ /\ m \notin refunding
          /\ Reply(p, 500)
          /\ UNCHANGED <<vars, committed>>
  /\ UNCHANGED <<ask, made, verdict>>

\* ErrListingMarketNoLongerOpen.
FinishPurchase(p) ==
  /\ at[p] = "second" /\ ask[p].kind = "buy"
  /\ \E l \in {ask[p].listing} :
       IF l \in stale THEN InvalidateStaleListing(l) ELSE UNCHANGED vars
  /\ Reply(p, 409)
  /\ UNCHANGED <<ask, made, verdict, committed>>

\* A statement fails, or PostgreSQL aborts the transaction.
Break(p) ==
  /\ at[p] \in {"sent", "second"}
  /\ Reply(p, 500)
  /\ IF at[p] = "second" THEN CallsLost ELSE UNCHANGED vars
  /\ UNCHANGED <<ask, made, verdict, committed>>

-----------------------------------------------------------------------------
(* What the browser is told *)

RelayedVerdict(code) ==
  IF code \in {200, 201} THEN "done" ELSE IF code = 500 THEN "unsure" ELSE "refused"

\* Mutant: the typed client takes 200 for the only success.
ExpectedOK(kind) == 200

\* What the typed client of general-backend takes for success.
Expected(kind) == IF kind \in {"create", "bet", "list"} THEN 201 ELSE 200

\* The pages show bet-backend's message, but for a 404, which the client turns
\* into ErrMarketNotFound, and for the withdrawal of a listing, they have but a
\* general one.  The admin's list shows no error, whatever the status.
PageVerdict(kind, code) ==
  IF kind \in {"lock", "resolve", "cancel"} THEN "unsure"
  ELSE IF code = Expected(kind) THEN "done"
  ELSE IF code \in {404, 500} \/ kind = "unlist" THEN "unsure" ELSE "refused"

Answer(p) ==
  /\ at[p] = "replied" /\ verdict[p] = "none"
  /\ \E v \in {RelayedVerdict(reply[p]), PageVerdict(ask[p].kind, reply[p])} :
       verdict' = [verdict EXCEPT ![p] = v]
  /\ at' = [at EXCEPT ![p] = "end"]
  /\ reply' = [reply EXCEPT ![p] = NoCode]
  /\ UNCHANGED <<vars, ask, made, committed>>

\* ErrUnavailable: a request is lost, or goes on: bet-backend does not learn that
\* nobody waits, and its transactions are not bound to the request.
GiveUp(p) ==
  /\ at[p] \in {"sent", "second", "replied"} /\ verdict[p] = "none"
  /\ verdict' = [verdict EXCEPT ![p] = "unsure"]
  /\ \E s \in {at[p], "end"} :
       /\ at' = [at EXCEPT ![p] = s]
       /\ at[p] = "second" => s = "second"
       /\ at[p] = "replied" => s = "end"
  /\ reply' = [reply EXCEPT ![p] = NoCode]
  /\ UNCHANGED <<vars, ask, made, committed>>

-----------------------------------------------------------------------------
PostStep(p) ==
  \/ \E a \in Ask : Submit(p, a)
  \/ RefuseInput(p)
  \/ Refuse(p) \/ Accept(p) \/ RollBack(p) \/ FinishRefund(p) \/ FinishPurchase(p)
  \/ Break(p)
  \/ Answer(p) \/ GiveUp(p)

PostNext ==
  \/ Next /\ UNCHANGED postVars
  \/ \E p \in Post : PostStep(p)

PostSpec == PostInit /\ [][PostNext]_gatewayVars

-----------------------------------------------------------------------------
(* Properties *)

\* What the tables say for good once a request has done what was asked: its bet at
\* its terms, its listing, a listing sold to it or withdrawn by it and by nobody
\* else, a market that is closed or settled.
Achieved(a, row) ==
  /\ a.kind = "sync" => a.user \in users
  /\ a.kind = "create" => status[row] # "NONE" /\ outcomes[row] = a.outcomes
  /\ a.kind = "bet" =>
       /\ row \in Bets
       /\ bet[row].market = a.market /\ bet[row].original = a.user
       /\ bet[row].outcome = a.outcome /\ bet[row].stake = a.amount
  /\ a.kind = "lock" => status[a.market] \notin {"NONE", "OPEN"}
  /\ a.kind = "resolve" => status[a.market] \in Settled
  /\ a.kind = "cancel" => status[a.market] = "CANCELLED"
  /\ a.kind = "list" =>
       /\ row \in Listings
       /\ listing[row].bet = a.bet /\ listing[row].seller = a.user
       /\ listing[row].price = a.amount
  /\ a.kind = "unlist" => /\ a.listing \in Listings
                         /\ listing[a.listing].status = "CANCELLED"
  /\ a.kind = "buy" => /\ a.listing \in Listings
                      /\ listing[a.listing].status = "SOLD"
                      /\ listing[a.listing].buyer = a.user

\* What a post is told is done can be seen in the tables from then on, whatever
\* other calls do.
DoneMeansDone ==
  \A p \in Post : verdict[p] = "done" => Achieved(ask[p], made[p])

\* A post whose browser was shown a reason why it was refused did nothing and never
\* will: posting it once more is safe.
RefusedMeansNothing == \A p \in Post : verdict[p] = "refused" => p \notin committed
=============================================================================
