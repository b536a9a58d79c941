# A formal model of Tchebet

Tchebet is a pari-mutuel betting platform: users stake reais on the outcomes of
a question, winners share the losing pool less a 3 % commission, and reais come
and go as USDC on Solana. This directory holds TLA+ models of the parts that
keep money and decide about it, the TLC configurations that check them, and
proofs checked by TLAPS. `PROJECT.json` ties every definition to the source
lines it stands for.

    tlc -workers 2 -config Settlement.cfg MCBetEngine     # model-check
    tlapm BetEngineProofs.tla                             # check the proofs

## 1. Inventory

### The services and what each keeps

| part | state | operations |
|---|---|---|
| `bet-backend` engine (`service/market_service.go`) | PostgreSQL tables `users`, `markets`, `pools`, `bets` | CreateMarket, PlaceBet, LockMarket, ResolveMarket, CancelMarket / RefundMarketInternal, SyncUser, AdjustBalance |
| `bet-backend` secondary market (`service/listing_service.go`) | `bet_listings`, `bets.user_id` | ListBetForSale, CancelListing, BuyListedBet, invalidateStaleListing |
| `bet-backend` live odds (`cache/redis.go`) | Redis keys with a TTL, a pub/sub channel | CacheOdds, GetCachedOdds, PublishMarketUpdate |
| `wallet-backend` withdrawals (`service/service.go`) | table `withdrawals`, the treasury's account | RequestWithdrawal, settleWithdrawal, failAndRefund, refund |
| `wallet-backend` deposits (`poller/`, `chain/`, `service/service.go`) | tables `deposits`, `deposit_cursors` | Poller.Run, ScanDeposits, IngestDeposit, SwapSOLToUSDC |
| `wallet-backend` provisioning (`service/service.go`) | `wallet_addresses`, `faucet_claims`, a sequence | ProvisionAccount, FaucetTestUSDC |
| `general-backend` accounts (`store/accounts.go`, `auth/session.go`) | table `accounts`, signed session cookies | Register, Login, Logout, PromoteToAdmin, RequireUser, RequireAdmin |
| `general-backend` forms and JSON (`handlers/`) | none | Deposit (simulated), PlaceBetPage, BuyListingPage, market and wallet forms, relay of `bet-backend`'s routes |
| `general-backend` pages (`handlers/viewbuild.go`) | none | home, market, profile and admin pages, each put together from several requests |
| `solana-rpc-proxy` | none | filters RPC requests |

### How they interact

Browsers reach `general-backend` only. It calls `bet-backend` (5 s timeout) and
`wallet-backend` (60 s timeout) over HTTP. `wallet-backend` keeps no balances:
it calls `POST /users/:id/adjust` of `bet-backend` to debit and credit, so every
movement of money between the ledger and the chain is a sequence of calls to
three systems with no transaction around them. One goroutine of
`wallet-backend` polls the chain for deposits.

### What is hard

* **Concurrency in the engine.** Transactions run at READ COMMITTED and are
  serialised by row locks alone (`SELECT ... FOR UPDATE` on the market, then
  users), on a pool of connections. Two functions consist of two transactions
  with a gap between them: a resolution on an outcome nobody staked on rolls
  back and then refunds, and a purchase on a closed market rolls back and then
  cancels the listing.
* **Reads without a transaction.** A market's row and its pools are read in two
  queries, a page in several requests; the odds are cached after the commit.
* **Money arithmetic.** Integer payouts round down one at a time, in 64 bits;
  deposits round half-up to whole reais.
* **Partial failure in the wallet.** Each call may fail, or take effect without
  its reply arriving. Status updates whose errors are ignored; a refund that
  runs under the context of a request that may be gone; a process that stops
  between two calls.
* **The chain.** A transaction that was broadcast may land, fail, or disappear.
  The chain grows while it is being read.
* **What the browser is told.** A result passes as a status code through two
  handlers and a client, and the handler gives up on requests that go on.
* **Two services, one registration.** `general-backend` has the account and
  `bet-backend` the user, and its handlers give up after 5 s while their
  requests may still land. The simulated deposit reads a balance and writes it
  back through the network.
* **The poller.** Replays after a crash, one cursor for two addresses, one
  goroutine for every account.

### What makes each part correct

* Engine: money is conserved; a market is settled once; what a resolution pays
  is fixed when the market is locked; pools equal the bets they stand for; a
  transaction takes effect as one step.
* Odds and pages: what is shown of a closed market is final; a volume is backed
  by bets; the cached odds are those of the pools.
* Posts: success that is reported is there for good; what was refused for a
  reason never happens.
* Secondary market: a listing that can be bought is for a bet its seller owns on
  an open market; a sale moves the price between two accounts and nothing else;
  what the house owns, its seeds to begin with, is never sold.
* Withdrawals: a debit is paid out or given back, not both, not neither.
* Deposits: credited once, to the right account, never more than received, and
  none is skipped.
* Provisioning: one key per account, the address shown is the address watched,
  one grant per account.
* General backend: one account per address, one user per account; admins come
  from the configured one; no late or repeated request undoes another's money.

`PROJECT.json` lists under `hazards` the lines where these can go wrong.

## 2. The modules

| module | models | composed with |
|---|---|---|
| `Escrow` | what the engine promises about money: pots, accounts, phases | |
| `BetEngine`, `MCBetEngine` | the five tables of `bet-backend` and every function that changes them | `INSTANCE Escrow` |
| `RowLocks`, `MCRowLocks` | the same functions statement by statement, with their row locks | `INSTANCE BetEngine` |
| `MarketPages`, `MCMarketPages` | the odds cache and the pages that read markets | extends `BetEngine` |
| `Gateway`, `MCGateway` | a post, from the browser to the tables and back | extends `BetEngine` |
| `Custody` | what the wallet promises about a withdrawal | |
| `Withdrawals`, `MCWithdrawals` | `RequestWithdrawal`, call by call | `INSTANCE Custody` |
| `Deposits`, `MCDeposits` | the poller, the scanner, the ingestion with its swap | |
| `Provisioning`, `MCProvisioning` | `ProvisionAccount`, `FaucetTestUSDC` | |
| `GeneralBackend`, `MCGeneralBackend` | accounts, sessions, registration, and the forms that move money | |
| `BetEngineProofs`, `RowLocksProofs`, `WithdrawalsProofs`, `DepositsProofs`, `ProvisioningProofs`, `GeneralBackendProofs` | theorems about the module of that name | extends it, TLAPS |
| `CallersProofs` | theorems about `Gateway` and `MarketPages` | extends both and `BetEngineProofs` |
| `FiniteSums` | lemmas: induction over finite sets, sums of functions and folds over sets | TLAPS |

Definitions keep the names of the functions they model. Operators commented
`Mutant:` belong to no specification: each is a plausible bug in the definition
below it, used to confirm that a property notices it.

### BetEngine

One action per database transaction; `RowLocks` shows that the row locks allow
it. The two functions made of two transactions are two actions; `refunding` and
`stale` hold the calls that are in between. A call the code rejects changes
nothing and is no step. `CheckBalance` is the schema's `CHECK (balance >= 0)`;
`CallsLost` is a stop of the process, or a failure of the second transactions.
Ids are fresh UUIDs, so any unused id may be picked. A caller is any account, the
house included: of the functions that a user calls only `ListBetForSale` compares
the caller with `HouseUserID`, and the JSON routes take any id. Where a product can leave
64 bits (`market_service.go:371` and `:399`), `Int64` wraps it and `Quotient`
truncates as Go does; `MaxInt64` is a constant so that a run can reach it.

`SyncUser` overwrites a balance, as `POST /users` does. The amounts it may write
and those of AdjustBalance are constants, as is the cap `MaxBalance` on what
comes in: they bound the model, not the code.

### RowLocks

`db` is what is committed, `wrote` what a call has written and not committed,
`holds` its locks in PostgreSQL's four row modes, `at` its next statement. A
statement is a step: it waits for the lock it `Wants`, re-reads what the holder
committed (READ COMMITTED), and fails, rolls back or goes on as in the code. The
rows a settlement goes through are those of its query in any order, since no
query sorts them. `Victim` is PostgreSQL aborting a call of a circle; a call
begins when a connection of the pool is free. Rows inserted by a transaction are
locked by nobody else, as their ids are new. The tables at the start are
constants, any that fit together (`DatabaseFits`: types, foreign keys, a listing
repeats the market of its bet); those of the run are states that `BetEngine`
reaches.

### MarketPages

Two sorts of calls read. Create, bet and purchase read the market back after
their commit and write its odds to Redis (`ThenCache`, `CacheOdds`), or are lost
on the way; browsers open the home, market, profile and admin pages. Each has a
slot of `Reader`; a query is a step, and `BetEngine` goes on between any two.
The odds stand for the pools they are computed from. `seedOf` is `markets.seed`,
which only these pages read. `disturbed` is a history
variable: the markets whose odds overlapping or lost calls have left.

### Gateway

A post of `Post` is checked, sent, served or refused by `bet-backend` (the
refusals are its handlers' status codes in the order of the checks), and
answered through a page or a JSON route. On the way the handler may give up, the
request or its reply may be lost, a statement may fail, a COMMIT may happen and
not be acknowledged, and the two functions of two transactions may stop in
between. Every other call is a step of `BetEngine`, taken at any time. `verdict`
is what the browser was told: "done", "refused" with a reason, or "unsure".
`committed` is a history variable.

### Withdrawals

One step per call to the ledger, the database or the RPC node. `Replies` gives
the ways such a call may end: acknowledged, failed, or "lost": an error although
it took effect. When the request's context is cancelled every further call
fails, as in the code. `transfer` is what the chain makes of the payout. The
constant `Faults` says which faults a run admits. `unheard` is a history
variable read only by properties: the payouts that were broadcast although
`TransferUSDC` returned an error. Amounts in reais and micro-USDC are distinct
and converted with the code's rounding.

A transaction that creates a token account is abstracted to an RPC call that
succeeds or fails. The debit and the refund are seen as AdjustBalance sees
them: other operations on the same account (bets, payouts) are those of
`BetEngine` and are left out here.

### Deposits

The chain is a sequence of transactions; a position stands for signature and
slot. A pass reads the signatures of the base address, then those of the token
account, and the chain may grow between the two. Each deposit found goes through
insert, swap, credit and the final status, one step each. The single goroutine
is the variables `at`, `step`, `queue`, `hand`, `newCursor`: `queue` is the set of
deposits found and not yet ingested, `hand` the one being ingested, and `IsNext`
gives the order in which they are taken. `Crash` loses them and keeps the tables. A swap that lands appends a transaction that pays the
account's own token account, because the request in `jupiter.go` names no other.
A swap still pending when the process stops is taken to have landed before or
to be lost.

### Provisioning

Concurrent calls for accounts chosen arbitrarily. A derivation index stands for
the key derived from it. The primary keys of `wallet_addresses` and
`faucet_claims` are guards, and a sequence value once drawn is never reused. A
claim is released when its grant fails, under the context of the request: the
history variable `cutShort` names the calls that a fault kept from it.

### GeneralBackend

The variables are the table `accounts`, the balances of `bet-backend`'s table
`users`, the cookie of each browser, and one post per browser: `step` says how
far it has got and `request` what it asks for. A post that reaches `bet-backend`
is served or refused there and then answered. At any moment the handler may give
up (`GiveUp`): the request is then lost, has already been performed, or goes on
as a member of `late` and lands when it likes (`ServeLate`). The history
variables `booked` and `overlapped` are read by `BalancesExplained` only: what
the movements of an account add up to, and the accounts that were moved while a
simulated deposit was between its read and its write. What `bet-backend` does is
reduced to its table of users: a stake is debited, a price is moved, `Payout`
is a credit by the engine. A refusal for a closed market or a sold listing
changes nothing, like a request that was lost.

`INITIAL_ADMIN_EMAIL` is fixed during a behaviour: the code reads it from the
environment of the process. `norm` is the code's lower-casing and trimming, of
which only idempotence is assumed. The forms and JSON routes that forward one
call to `bet-backend` and keep nothing are in `Gateway`; a login chooses any
account of the address, since passwords are left out. The simulated deposit is registered only where no wallet is configured
(`main.go:98-107`), so wallet movements are not interleaved with it.

## 3. What is checked

Deadlock checking is off everywhere: an account may be quiet for ever, calls and
posts are made once, and the ids of a small instance run out.

| run | bounds | shows |
|---|---|---|
| `settlement` | 1 user and the house, 2 markets, 2 outcomes, 3 bets, seed 0 or 10, stakes 33 | pools match bets, payouts are covered, frozen pools, refinement of `Escrow`, refunds complete |
| `row_locks` | 3 calls on 2 connections: one trades or settles, one does anything, one adjusts a balance; 2 markets in two states each | transactions are atomic (refinement of `BetEngine`), deadlocks are settlements', calls end |
| `pages` | 2 readers, 1 user and the house, 1 market, 3 bets, 1 listing | closed pages are final, volumes backed, "live" means bets, odds follow bets, histories agree |
| `gateway` | 1 post of any kind, 2 users and the house, 1 market, 1 bet, 2 listings | done means done, refused means nothing, listings are backed, the house keeps its bets, audit trail, sales are peer to peer |
| `withdraw_faults` | 2 calls, 2 accounts, one unprovisioned, all faults | ledger explained, rows truthful and forward, termination, refinement of `Custody` |
| `deposit_faults` | 2 accounts, 2 outside transactions of any kind, swaps, all faults | credited at most once, credits have rows, nothing invented, the cursor waits for ingestion, only lost swaps stall |
| `provision_faults` | 3 calls, 2 accounts, all faults | address watched, keys distinct, one grant, claims are granted |
| `registration` | 2 browsers, 2 accounts, 3 spellings of 2 addresses, 1 late request, balances to 3, all faults | admins, addresses, users, balances, sign-in |
| `withdraw_lost_broadcast` | one lost reply | **violated**: paid and refunded |
| `payout_width` | 10 stakes of the largest amount, 64-bit products | **violated**: payouts that the pool does not cover |
| `deposit_cursor` | 2 accounts, 2 transfers of USDC or SOL, no fault | **violated**: a cursor passes only what was recorded |
| `deposit_stall` | 2 accounts, 2 transfers, swaps, one of them dropped | **violated**: no account stalls the poller |

**Why the bounds are enough.** A resolution divides a pool of 20 to 99, so the
commission is 0, 1 or 2, shares are fractional, and the dust goes to the house.
Two markets are needed for one settlement to touch another's money, and the house
is the second bettor. In `gateway` two listings of a bet give a sale and a
resale, each to the house or to a user, and none after one to the house.

A circle of waiting calls needs two, and a third call holds rows or a connection
that they want; the tables of `MCDatabase` have a bettor in two markets and bets
of two bettors in one, so that the payouts of two settlements, or of a
settlement and a purchase, cross.

In `pages`, a page is disturbed by commits and not by other pages, and reads no
odds: it is enough to look at one page at a time with nothing cached, and at two
calls that cache odds without a page, which is what the constraint `MCOneSort`
keeps. Two calls suffice for one to overwrite the other. In `gateway` one post
is followed among all the calls that the engine may serve, which are single
steps; a second followed post would be one of those.

`payout_width` counts in units of 10^8 reais, in which `MaxSanityInt` is 10 and
2^63 - 1 is 922 squared units; the wrap shows at the tenth stake.

Two withdrawals suffice for one to use what the other gives back; the amounts 1
to 4 at 9/2 micro-USDC a real lie below the minimum, inside, above the review
threshold and above the maximum, and one has a fraction to round. Two outside
transactions and a swap are enough for each of: replay after a crash, a second
asset in one signature, a second account in one signature, a swap's output
found by a later scan, and an arrival between the two reads of a scan. In
`deposit_cursor` a scan returns more than there is, so that the limit is no cause of
the miss; in `deposit_stall` the second account is the one that starves. Three
calls of one account let two race while the third comes after a claim was
released. In `registration` two browsers give every overlap of two posts, the
late request a third actor, and balances to 3 in steps of 1 a deposit, a sale
and a payout on top of each other; two spellings of one address are what the
unique index must see through.

**Fairness.**
`BetEngine!FairSpec` has no crash and assumes that a call that has rolled back
runs its second transaction: both are in one function, without a wait.
`RowLocks!FairSpec` assumes that a call that can execute its statement does, and
that PostgreSQL ends a circle by aborting one of its calls; both are what the
server does, and a call that waits for a row is only served if its holder ends.
`Withdrawals!FairSpec` assumes that a handler proceeds when it can and that a
client's timeout passes (60 s in `general-backend`); nothing is assumed of the
chain, so a confirmation may never come. `Deposits!FairSpec` assumes that the
poller proceeds and that the chain decides on a swap that was broadcast,
dropping it being a decision. Nothing is assumed of faults: `OnlyLostSwapsStall`
excepts a process that is stopped again and again, which may never reach its second
address, and a swap that was dropped, which is finding 4.

**Refinement.** `ImplementsEscrow` maps a market's pot to the sum of its bets'
stakes while it is not settled, and to 0 after. `Escrow` says that a pot is paid
out exactly, once, and that no account pays at a settlement. `ActsAtomically`
maps the committed rows of `RowLocks` to the tables of `BetEngine`: a COMMIT is
one of its operations, every other statement a stutter. `ImplementsCustody`
maps a withdrawal to the one place its money is at; the only exception `Custody`
makes is a payout the wallet has lost sight of.

## 4. Findings

Each is the counterexample of a run; `PROJECT.json` quotes the comment in the
code it contradicts.

1. *Paid and refunded* (`wallet-backend/service/service.go:322`, run
   `withdraw_lost_broadcast`): every error of `TransferUSDC` leads to a refund,
   also the loss of the reply to a broadcast that lands. `FaucetTestUSDC`
   (line 175) has the same flaw: the claim is released and the grant may be
   drawn again. `OneGrantHeardOf` excepts just these grants.
2. *Payouts beyond 64 bits* (`bet-backend/service/market_service.go:399`, run
   `payout_width`): with stakes that the gateway accepts,
   `stake * poolDistributable` wraps in a market of 10^10 reais. Payouts come
   out negative: winners are debited, or the balance check fails and the market
   cannot be resolved.
3. *A deposit skipped* (`wallet-backend/chain/scanner.go:74`, run
   `deposit_cursor`): the signatures of the base address are read, then those of
   the token account, and the newest of both becomes the one cursor. SOL that
   arrives between the two reads, before USDC that the second one finds, is passed
   and never recorded, although no call fails. `poller.go:66-67` says that the
   unique signature "makes the shared cursor safe", and `scanner.go:6-7` that an
   imprecise cursor "only ever causes a harmless re-scan".
4. *One swap stalls the poller* (`wallet-backend/chain/jupiter.go:107`, run
   `deposit_stall`): its confirmation is awaited without a deadline by the only
   goroutine, although `poller.go:49-50` says that "a single bad account can't
   stall the whole poller". `OnlyLostSwapsStall` says that nothing else does.

Further consequences seen in the models, with how to see them:

* *Neither paid nor refunded* (`service.go:346`): a dropped payout is waited for
  until the client goes, and the refund then runs under the cancelled context.
  `WithdrawLostBroadcast.cfg` with `Faults = {"drop", "cancel"}` and the
  invariant `FailedPayoutRefunded`. In the faucet, the claim then cannot be
  released; `ClaimsAreGranted` excepts these calls.
* *A backlog skipped* (`scanner.go:95`): of more signatures than a scan returns
  (`scanSignatureLimit`) the oldest are passed. `DepositCursor.cfg` with
  `Transfers <- UsdcOnly` and `ScanLimit = 1` violates the property of finding 3.
* *One signature, two deposits* (`service.go:205`): `deposits.signature` is
  unique over all accounts and assets, so of a transaction that pays two
  addresses only the first is recorded. `DepositCursor.cfg` with
  `Transfers <- ToEveryone` violates the same property.
* *A swap credited twice* (`jupiter.go:139`): once for the SOL, once as USDC
  arriving in the watched token account. `NeverInventsUSDC` therefore allows each
  account one more count of what its swaps brought, and no more; without
  `SwappedFor` in it TLC finds the second credit.
* *The house as a customer* (`listing_service.go:175`, `market_service.go:130`):
  nothing compares the buyer or the bettor with `HouseUserID`, and the JSON routes
  of `general-backend` forward any id. The comment at `listing_service.go:171-174`
  says that a sale "must never touch" the house account; it may buy a user's bet,
  which then never leaves it (`HouseKeepsItsBets`). A market in which only the house
  has bet, or has bought what users bet, is shown as live with no bettor counted;
  `LiveMeansBets` says that there is no other such case.
* *An account that cannot bet* (`auth_handlers.go:72`): the account is inserted,
  the provisioning of its user fails, and the advice to try again meets the
  account that is there. `Registration.cfg` with `Id = {i1}`, `Browser = {b1}`,
  `Faults = {"timeout"}`, `MaxLate = 0` violates `AccountsHaveUsers`.
* A debit whose reply is lost leaves neither a row nor a refund
  (`service.go:284`, action `Debit` with reply "lost").
* A deposit that failed once is never credited by a later pass, although
  `poller.go:81` calls it re-scannable: its row keeps it from being ingested
  anew (theorem `RowsAlwaysForward`).
* A simulated deposit undoes a stake, a sale or a payout that falls between its
  read and its write. The code knows (`market_service.go:621-625`,
  `bet-backend/tests/adjust_test.go:69`), and `BalancesExplained` excepts just
  these accounts: without the exception TLC finds the lost movement.
* A bet whose page reported a failure may be placed after all (`ServeLate`,
  `GiveUp`), as nothing tells `bet-backend` that its caller has given up. The
  page then says "não foi possível registrar a aposta", and
  `general-backend/betclient/client.go:42` that the engine "couldn't be reached
  at all". The same answer follows a COMMIT whose acknowledgement is lost, which
  is why a code 500 counts as "unsure" in `Gateway`.
* Settlements deadlock with purchases and with each other: they update users in
  the order of a query, whereas `listing_service.go:245-247` says that "no
  existing function locks two users rows at once". PostgreSQL aborts one of the
  calls, which reports an error and may be repeated: `DeadlocksAreSettlements`
  says that no others occur.
* The admin's forms to lock, resolve and cancel do not look at the status code;
  and a resolution that turned into a refund is answered as a resolution.
* Overlapping bets may leave old odds in Redis until the next bet or the end of
  the key's day: `OddsFollowBets` excepts just these markets.

## 5. What is proved

All theorems hold for every value of the constants that the named assumptions of
the module admit; TLC evaluates these assumptions in every run.

### The betting engine

| theorem (`BetEngineProofs`) | property |
|---|---|
| `TypeCorrect` | `TypeOK`: in particular no balance is negative |
| `ListingsAlwaysBacked` | `ListingsBacked` |
| `HouseAlwaysKeeps` | `HouseKeepsItsBets` |
| `StatusFollowsLifecycle` | a market is settled at most once |
| `ListingsAreTerminal` | a sold or cancelled listing stays as it is |
| `BetsFreeze` | `FrozenOnceClosed` |
| `SalesArePeerToPeer` | `SaleIsPeerToPeer` |
| `PoolsAlwaysMatchBets` | `PoolsMatchBets` |
| `SalesAlwaysLeadToOwner` | `SalesLeadToOwner` |
| `PayoutsAlwaysCovered` | `PayoutsCovered`, while no product wraps |
| `EscrowImplemented` | `ImplementsEscrow`, while no product wraps |

They rest on the assumptions that amounts are integers, the house is no user and
the sentinels are no rows. `TypeOK` is inductive by itself: a payout or a refund
is credited only if `CheckBalance` accepts it, which also covers products that
wrap. `ListingsBacked` is inductive relative to it: each step that closes a
market cancels its listings in the same transaction, a sale takes the bet's only
listing off the market, and a new listing is for a bet its seller owns and that
no other listing offers. `HouseKeepsItsBets` is about steps, and a sale by the
house would break it: `SellersAreUsers` says that no listing that can be bought has
the house as its seller, and by `ListingsBacked` its seller is the owner. `IInv` is
`TypeOK` and these two. `FrozenOnceClosed` and `SaleIsPeerToPeer` need
`ListingsBacked` or `TypeOK` of the state before the step; the others need only
`TypeOK`.

The last four are about sums: what a pool holds, what a resolution pays, how
often a bet was sold. `FiniteSums` provides them. The library states induction
with an operator as parameter, which cannot be instantiated here; `SubsetInduction`
gets along without, by looking at the smallest set that an assertion fails for,
and the laws of `SumFunctionOnSet` follow from it (`IdAssumption`: the ids in
use are finitely many).

* `MoneyInv` is `IInv`, `PoolsMatchBets` and what keeps the latter: `BetsKnown`,
  that bets are on outcomes of markets that exist. Without it CreateMarket could
  set the pools of a market that has bets.
* `TrailInv` adds `ListingsKnown` to `SalesLeadToOwner`: every listing is for a
  bet that exists, so that a new bet begins without a trail. A sale then appends
  one edge to the trail of its bet, from the owner to the buyer.
* `PayoutsCovered` follows from `MoneyInv`: the winners' floors add up to at most
  the floor of the sum (`FloorsLeaveLess`), and what they lose is less than one
  real each.
* `EscrowImplemented` goes action by action: a settlement takes the whole pot,
  because the payouts, the house's share and the remainder are what the stakes
  add up to; a bet is moved to the pot of its market and a sale to none.

`ProductsFit` is the hypothesis that `market_service.go` makes tacitly: 3 times
a pool, and each stake times what is distributed, are below 2^63. It holds in
every state of the run `settlement`, and `payout_width` shows what happens
without it (finding 2).

### Row locks

| theorem (`RowLocksProofs`) | property |
|---|---|
| `LocksAlwaysTyped` | `TypeOK`: locks and uncommitted rows only in transactions, of which there are at most as many as connections |
| `WritersAlwaysApart` | two calls hold no conflicting locks and have not written the same row |
| `DeadlocksAreAlwaysSettlements` | `DeadlocksAreSettlements` |

They hold for any number of calls, connections and rows. The assumptions are what
the schema and the handlers supply: the tables fit together at the start
(`DatabaseAssumption`), a row that is missing is none of them
(`AbsentAssumption`), stakes and prices are positive and seeds not negative, since
other amounts are refused before `BeginTx` (`AmountAssumption`), all sets are
finite (`SizeAssumption`), and ids compare as strings do, in a total order
(`OrderAssumption`).

*Locks.* What a call holds follows from the statement it has come to, for a
settlement up to the rows it has gone through. `Fits` says so of one call: its job names rows that exist, its locks are
those of the statements behind it (`LocksFit`), what its query returned is still
there (`QueryFits`), and each row it has written is there and locked by it, or is
new and known to nobody else (`WritesFit`). `IInv` is `Fits` of every call, `Apart`
of every two, `DatabaseFits` of the committed tables, and the bound of the pool.
`Fits` of one call speaks of tables that others commit to, which is where an
interleaving could hurt; `CommitGrows` says that a commit only adds rows and keeps
what ties them, and `GrownFits` that this leaves every other call as it was. A call
that goes on has waited for those that hold its row, so it stays apart from them
(`StaysApart`).

*Circles.* `CirclesPay` goes down the order of the tables. In a circle no member
waits for the row of a pool, which is locked by the last statement before a
COMMIT only. If nobody in it pays out a settlement, none waits for a user's row
either: the holder would be a purchase in its second user, purchases take the
two in the order of their ids, and among finitely many users one is the last.
Then none waits for a bet's row, a listing's, or a market's, because its holder
would have to wait for what has been ruled out. So a member pays, whose rows come
in the order of an unsorted query (section 4).

### Posts

| theorem (`CallersProofs`, on `Gateway`) | property |
|---|---|
| `EngineBehindGateway` | every behaviour of `Gateway` is one of `BetEngine`: its theorems hold there |
| `DoneStaysDone` | `DoneMeansDone` |
| `RefusedStaysUndone` | `RefusedMeansNothing` |

The argument has two halves. `MarketsPersist`, `BetsPersist` and
`ListingsPersist` say what no step of the engine takes back, whence `AchievedStays`:
what a request has achieved stays achieved. `ServesAchieves` says that the
commit of a request achieves it. `PostFits` ties the two to the codes: a success
code is on its way only for a request that has committed, and a refusal with a
reason only for one that has not and is over.

### Pages and cached odds

| theorem (`CallersProofs`, on `MarketPages`) | property |
|---|---|
| `EngineBehindPages` | every behaviour of `MarketPages` is one of `BetEngine` |
| `ClosedPagesAreFinal` | `ClosedPageIsFinal` |
| `OddsAlwaysFollow` | `OddsFollowBets` |
| `HistoriesAgree` | `HistoryAgrees` |
| `VolumesAlwaysBacked` | `VolumeIsBacked` |
| `LiveAlwaysMeansBets` | `LiveMeansBets` |

They hold for any number of readers, markets and bets, and assume beyond
`BetEngine`'s that "none" is no id. `PoolsStand` says what moves the pools of a
market, `ClosedStays` that a closed one stays as it is; `SoundStays` concludes
that what a reader has seen stays true whatever the engine does. The invariant
`PageIInv` says of each reader which queries are left and which answers have come
(`Tidy`), that it asks for rows that exist (`InTables`), that a status other than
OPEN it holds was read of a market that is closed, and the pools after it
(`SeenClosed`), and that a history never asks for a market it has (`Agrees`). For
the odds, `OddsFit`: of a market that is not disturbed at most one call will cache
the odds, and the pools it has read are those of now. A bet that lands in between
either finds no call under way, or makes the market disturbed.

The last two compare pools that were read first with bets that were read later or
exist now. `AllHonest` says of every reader that the pools it holds are at most
those of now, that a market it shows as live has more bets than its seeds, and that
the house owns more than the seeds of one it shows as live without a bettor: the
pools of a market only grow, its bets stay, and what the house owns it keeps.
`SeedsHeld` gives what "more" is measured by: a seeded market has, for each outcome,
a bet of the house of that seed. By `MoneyInv` the pools are what the bets add up
to, so that pools above the seeds need a bet beside them (`VolumeAboveSeeds`). What
a page has read stays honest while the engine goes on (`HonestStays`).

### The wallet

| theorem | property |
|---|---|
| `WithdrawalsProofs!TypeCorrect` | types; no debit makes a balance negative |
| `SentIsPaid` | `SentMeansPaid` |
| `DebitAlwaysFirst` | nothing is written or paid before the debit |
| `ReviewAlwaysFirst` | what needs an operator is not paid by the service |
| `RowsAlwaysForward` | `RowsMoveForward` |
| `LedgerAlwaysExplained` | `LedgerExplained` |
| `CustodyImplemented` | `ImplementsCustody` |
| `DepositsProofs!CreditedOnceEver` | `CreditedAtMostOnce` |
| `CreditsAlwaysHaveRows` | `CreditsHaveRows` |
| `RowsAlwaysForward` | rows of deposits are rewritten in their status only |
| `USDCNeverInvented` | `NeverInventsUSDC` |
| `CursorAlwaysWaits` | `CursorWaitsForIngest` |
| `TablesCorrect` | types of the tables; the poller holds the row it works on |
| `Rounding` | the conversion to reais rounds to the nearest |
| `ProvisioningProofs!TypeCorrect` | types |
| `AddressesAreWatched` | `GivenAddressIsWatched` |
| `KeysAlwaysDistinct` | `KeysAreDistinct` |
| `OneGrantEver` | `OneGrantHeardOf` |
| `ClaimsAlwaysGranted` | `ClaimsAreGranted` |

*Withdrawals.* The properties relate three systems, and what keeps them is where
the call is. `Progress(c)` says for each statement of a call what is true of its
debit (`Opening`), its row (`RowFits`) and its payout (`PayoutFits`); the only
loose end is a cancelled or unheard call, which may hold a row that lags behind.
`IInv` is `TypeOK` and `Progress` of every call. The simulation goes by the place
of a withdrawal's money: a step of one call moves one withdrawal (`OneMoves`), to
the place `Custody` allows, and leaves the others (`PlaceStays`). `LedgerInv`
adds to `IInv` that the balance of an account is what it had less what its calls
have debited and not refunded; a debit and a refund each move one summand.

*Deposits.* Each signature is followed by itself. `Hand` says what the poller
knows between the insert and the final status: the row is its own, nothing is
credited until the credit, and afterwards exactly the amount of the row. A
signature that has a row is not inserted again, so no second hand can reach it,
also after a crash.

`USDCNeverInvented` allows for the second credit of a swap, and for nothing else.
`BackedInv` says that what is credited for a signature is what it is worth
(`Backed`): the USDC its transaction brought, or the minimum of a swap's quote. For
the SOL, `SwapsCover` gives each credit a swap of its own that the same key has
signed, and `SwapsPay` says that it brought at least that minimum. So the credits of
an account are bounded by what arrived, its swaps counted once more, and half a
real each (`NothingInvented`).

`CursorAlwaysWaits` rests on `Passing`: of what the scan at an address has returned,
a deposit has its row or is still queued, so that nothing is left when the cursor
is saved. That what the scan has *not* returned may be passed all the same is
finding 3; no hypothesis on what arrives is made here.

*Provisioning.* `KeysFit`: an index held by a call is below the sequence, held by
no other call, and that of every row of `wallet_addresses` is held by a call of
its account. `ClaimsFit`: of the calls of an account that may still send, or have
sent and know it, there is one. `ClaimsKept` names for each claim the call that
made it and why it is there; `CallFits` is what a call knows at each step.

### The general backend

`GeneralBackendProofs` proves for any number of accounts, browsers and late
requests, all spellings and amounts, and whatever faults:

| theorem | property |
|---|---|
| `TypeCorrect` | types; no balance is negative |
| `AdminsAlwaysTraceToBootstrap` | `AdminsTraceToBootstrap` |
| `AddressesAlwaysDistinct` | `AddressesAreDistinct` |
| `UsersAlwaysHaveAccounts` | `UsersHaveAccounts` |
| `RegistrationsProvision` | `RegistrationProvisions` |
| `BalancesStayExplained` | `BalancesExplained` |

They rest on the named assumptions of `GeneralBackend`: amounts are positive,
`norm` is idempotent, `NoRow` is no row. The invariants are not inductive alone:
most of them because a request outlives the guards it was sent under. `IInv`
adds what those guards leave behind:

* `PostsFit` and `LateFit`: every request under way or late is for an existing
  account, and a sale is to an existing user. Without them a late provisioning
  could make a user for nobody, and a late sale could credit no row.
* `AddressesNormal`: what is stored is its own normal form, so that the
  comparison of stored addresses is the comparison of normalised ones.
* `PromotersAreAdmins`: the guard of `AdminPromoteUser` still holds when the
  update is made, since no step takes the role away; by
  `AdminsTraceToBootstrap` before the step the configured account is then an
  admin already.
* `AnsweredAreProvisioned`: from the answer of `bet-backend` to the sign-in the
  user stays. `RegistrationsProvision` follows from it.

The proof goes by what an action can touch: `AccountsStep` and `UsersStep` say
once how the tables grow, and the parts of `IInv` follow from them.

`BalancesStayExplained` rests on `IInv` and on `LedgerInv`, whose idea is
`Timely`: a request that is sent or late may be performed now as well as ever. A
registration among them finds no user yet, which `OneProvision` protects (the id
is fresh, so no second request provisions it), and a deposit finds the balance
it has read, or its account is among the overlapped ones. Any movement of
another deposit's account makes it overlapped in the same step.

### Model-checked only

Liveness (`RefundCompletes`, `CallsEnd`, `OnlyLostSwapsStall`), which is beyond
the provers in principle here. `ActsAtomically`: beyond `WritersAlwaysApart` it
needs that what a call has written at its COMMIT is the effect of the action of
`BetEngine`, function by function, with what a settlement adds up in any order of
its rows. The four runs that end in a violation.

## 6. What is not modelled

* Passwords, the signature of session cookies, key derivation, input sanitising
  but for its ranges: no state of their own, or plain arithmetic.
* The wallet forms of `general-backend`, which check their input and forward one
  call to what the wallet modules model; their 60 s timeout is `Cancel` there.
* The balance in the navigation bar and the listings on the market and profile
  pages: single requests, shown as they are read.
* `GetCachedOdds`, which nothing calls, and the channel `market_updates`, to
  which nothing in the repository subscribes.
* The generated templates (`*_templ.go`), wording and layout, team logos, and the
  shares that a market without bets is drawn with (0 and 100 %).
* The RPC proxy, a stateless filter, whose failures are the RPC failures of the
  wallet modules; configuration, start-up and the command line tools.
* Reads that change nothing and return one row.

Where documentation and code disagree beyond the findings: `README.md:24` says
the first account becomes admin, `store/accounts.go` makes it the one named by
`INITIAL_ADMIN_EMAIL`; `service.go:183` says USDC is credited 1:1, line 217
converts it; `service.go:260` says centavos, the ledger holds whole reais.

## 7. Plan

Done: `BetEngine` with `Escrow`, `RowLocks`, `MarketPages` and `Gateway`;
`Withdrawals` with `Custody`; `Deposits`; `Provisioning`; `GeneralBackend`; the
proofs of section 5.

Left: `ActsAtomically` as a theorem for any number of calls. `WritersAlwaysApart`
is its first half. The second is one lemma for each function, that the rows a
call has written so far are those that the action of `BetEngine` changes, as of
the tables now; for a settlement that the payments made and those left add up to
the action's credits, with the laws of `FiniteSums`.
