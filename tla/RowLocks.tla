------------------------------ MODULE RowLocks ------------------------------
(***************************************************************************)
(* The transactions of bet-backend, statement by statement: the row locks   *)
(* each one takes, in the order it takes them, the rows it has written and  *)
(* not yet committed, and the connections of its pool.  BetEngine takes a   *)
(* whole transaction as one step; this module shows that the locks make it  *)
(* one, and where they make transactions wait for each other in a circle.   *)
(*                                                                          *)
(* PostgreSQL runs at READ COMMITTED: a statement that waits for a row sees *)
(* what the holder committed.  Its four row lock modes are those of its     *)
(* manual (13.3.2): an UPDATE takes "nokey", a foreign key "key".  Rows     *)
(* inserted by a transaction are locked by nobody else: their ids are new.  *)
(***************************************************************************)
EXTENDS Integers, FiniteSets, Sequences, SequencesExt

CONSTANTS
  Call,          \* the calls made, each at most once
  Asked(_),      \* what a call may be asked to do
  Connections,   \* db.SetMaxOpenConns
  User, House, Before(_, _),  \* Before: ascending order of the ids as strings
  Market, Outcome, BetId, ListingId,
  NoOutcome, NoUser, Absent,  \* Absent: no such row
  HouseFunds, Stakes, Seeds, Prices, SyncBalances, Deltas, MaxBalance, MaxInt64,
  Database       \* the tables the calls find, reachable in BetEngine

VARIABLES
  db,        \* the rows as committed
  job,       \* what each call was asked to do
  at,        \* the statement each call executes next
  second,    \* the calls in their second transaction
  got,       \* what a call keeps of a query: rows to go through, a balance
  holds,     \* the row locks of each call, with their modes
  wrote      \* the rows each call has written and not committed

vars == <<db, job, at, second, got, holds, wrote>>

Account == User \cup {House}
Op == {"bet", "create", "lock", "resolve", "cancel", "buy", "list", "withdraw",
       "adjust", "sync"}

Job ==
  [op : {"bet"}, user : Account, market : Market, outcome : Outcome, amount : Stakes]
  \cup [op : {"create"}, market : Market, amount : Seeds]
  \cup [op : {"lock", "cancel"}, market : Market]
  \cup [op : {"resolve"}, market : Market, outcome : Outcome]
  \cup [op : {"buy", "withdraw"}, listing : ListingId, user : Account]
  \cup [op : {"list"}, bet : BetId, user : Account, amount : Prices]
  \cup [op : {"adjust"}, user : Account, amount : Deltas]
  \cup [op : {"sync"}, user : Account, amount : SyncBalances]

UserRow(a) == <<"users", a>>
MarketRow(m) == <<"markets", m>>
PoolRow(m, o) == <<"pools", m, o>>
BetRow(b) == <<"bets", b>>
ListingRow(l) == <<"bet_listings", l>>

\* Rows and what they hold: one of them, and some in front of others.
Holding(row, value) == [x \in {row} |-> value]
Over(rows, others) ==
  [x \in DOMAIN rows \cup DOMAIN others |->
     IF x \in DOMAIN rows THEN rows[x] ELSE others[x]]

Row == {UserRow(a) : a \in Account} \cup {MarketRow(m) : m \in Market}
       \cup {PoolRow(m, o) : m \in Market, o \in Outcome}
       \cup {BetRow(b) : b \in BetId} \cup {ListingRow(l) : l \in ListingId}

\* The engine as committed: what BetEngine calls the state, and the calls that
\* are between their two transactions or in the second one.
Committed(row, otherwise) == IF db[row] = Absent THEN otherwise ELSE db[row]
NoMarket == [status |-> "NONE", outcomes |-> {}, winning |-> NoOutcome]

Engine == INSTANCE BetEngine WITH
  NoBet <- Absent, NoListing <- Absent,
  users <- {a \in Account : db[UserRow(a)] # Absent},
  balance <- [a \in Account |-> Committed(UserRow(a), 0)],
  status <- [m \in Market |-> Committed(MarketRow(m), NoMarket).status],
  outcomes <- [m \in Market |-> Committed(MarketRow(m), NoMarket).outcomes],
  winning <- [m \in Market |-> Committed(MarketRow(m), NoMarket).winning],
  pool <- [m \in Market |-> [o \in Outcome |-> Committed(PoolRow(m, o), 0)]],
  bet <- [b \in BetId |-> db[BetRow(b)]],
  listing <- [l \in ListingId |-> db[ListingRow(l)]],
  refunding <- {job[c].market : c \in {d \in second : job[d].op = "resolve"}},
  stale <- {job[c].listing : c \in {d \in second : job[d].op = "buy"}}

MarketRecord == [status : Engine!MarketStatus, outcomes : SUBSET Outcome,
                 winning : Outcome \cup {NoOutcome}]

\* Foreign keys and types of the tables; a listing repeats the market of its bet.
DatabaseFits(tables) ==
  /\ DOMAIN tables = Row
  /\ \A m \in Market : tables[MarketRow(m)] \in MarketRecord \cup {Absent}
  /\ \A b \in BetId : tables[BetRow(b)] \in Engine!BetRow \cup {Absent}
  /\ \A l \in ListingId :
       LET row == tables[ListingRow(l)] IN
       row # Absent => /\ row \in Engine!ListingRow
                       /\ tables[BetRow(row.bet)] # Absent
                       /\ tables[BetRow(row.bet)].market = row.market

ASSUME DatabaseAssumption == \A tables \in Database : DatabaseFits(tables)

ASSUME AbsentAssumption ==
  Absent \notin MarketRecord \cup Engine!BetRow \cup Engine!ListingRow \cup Job

\* A request for other amounts is refused before it begins a transaction.
ASSUME AmountAssumption ==
  Stakes \subseteq Nat \ {0} /\ Prices \subseteq Nat \ {0} /\ Seeds \subseteq Nat

ASSUME SizeAssumption ==
  /\ Connections \in Nat
  /\ IsFiniteSet(Call) /\ IsFiniteSet(User)
  /\ IsFiniteSet(BetId) /\ IsFiniteSet(ListingId)

\* The order in which ids compare as strings.
ASSUME OrderAssumption ==
  /\ \A x, y \in Account : x # y => Before(x, y) \/ Before(y, x)
  /\ \A x, y, z \in Account : Before(x, y) /\ Before(y, z) => Before(x, z)
  /\ \A x \in Account : ~Before(x, x)

-----------------------------------------------------------------------------
(* Locks *)

Conflicts(mode, other) ==
  CASE mode = "key"    -> other = "update"
    [] mode = "share"  -> other \in {"nokey", "update"}
    [] mode = "nokey"  -> other # "key"
    [] mode = "update" -> TRUE

Buyer(c) == job[c].user
Seller(c) == db[ListingRow(job[c].listing)].seller

\* Mutant: the buyer is locked first, whoever has the smaller id.
BuyerFirst(c) == Buyer(c)
FirstUser(c) == IF Before(Seller(c), Buyer(c)) THEN Seller(c) ELSE Buyer(c)
SecondUser(c) == IF FirstUser(c) = Buyer(c) THEN Seller(c) ELSE Buyer(c)

\* Mutant: AdjustBalance reads without FOR UPDATE.
PlainRead(c) == {}
LockedRead(c) == {<<UserRow(job[c].user), "update">>}

HouseGain(c) == LET m == job[c].market IN
  Engine!Commission(Engine!TotalPool(m)) + Engine!Remainder(m, job[c].outcome)

\* The lock that the next statement of a call takes before it is executed.
Wants(c) ==
  CASE at[c] = "market" ->
         {<<MarketRow(job[c].market),
            IF job[c].op = "bet" THEN "share" ELSE "update">>}
    [] at[c] = "betMarket" ->
         {<<MarketRow(db[BetRow(job[c].bet)].market), "share">>}
    [] at[c] = "listingMarket" ->
         {<<MarketRow(db[ListingRow(job[c].listing)].market), "share">>}
    [] at[c] = "read"     -> LockedRead(c)
    [] at[c] = "user"     -> {<<UserRow(job[c].user), "update">>}
    [] at[c] = "write"    -> {<<UserRow(job[c].user), "nokey">>}
    [] at[c] = "first"    -> {<<UserRow(FirstUser(c)), "update">>}
    [] at[c] = "both"     -> {<<UserRow(SecondUser(c)), "update">>}
    [] at[c] = "seed"     -> {<<UserRow(House), "update">>}
    [] at[c] = "pool"     -> {<<PoolRow(job[c].market, job[c].outcome), "nokey">>}
    [] at[c] \in {"listing", "closed"} ->
         {<<ListingRow(job[c].listing), "update">>}
    [] at[c] = "bet"      -> {<<BetRow(job[c].bet), "update">>}
    [] at[c] = "soldBet" ->
         {<<BetRow(db[ListingRow(job[c].listing)].bet), "update">>}
    [] at[c] = "offer"    -> {<<UserRow(job[c].user), "key">>}
    [] at[c] = "listings" /\ got[c] # <<>> -> {<<ListingRow(Head(got[c])), "nokey">>}
    [] at[c] = "pay" /\ got[c] # <<>> -> {<<UserRow(Head(got[c]).user), "nokey">>}
    [] at[c] = "house"    -> {<<UserRow(House), "nokey">>}
    [] OTHER              -> {}

OfferedBy(b) ==
  {l \in ListingId : /\ db[ListingRow(l)] # Absent
                     /\ db[ListingRow(l)].bet = b
                     /\ db[ListingRow(l)].status = "LISTED"}

\* A call waits for another that holds a conflicting lock, or that may free the
\* unique index on LISTED rows by committing.
Waits(c, d) ==
  /\ c # d
  /\ \/ \E w \in Wants(c), h \in holds[d] : w[1] = h[1] /\ Conflicts(w[2], h[2])
     \/ /\ at[c] = "offer"
        /\ \E l \in OfferedBy(job[c].bet) : ListingRow(l) \in DOMAIN wrote[d]

\* Every member waits for a member: the set contains a circle of waits.
Circular(S) == S # {} /\ \A c \in S : \E d \in S : Waits(c, d)
InCircle(c) ==
  /\ \E d \in Call : Waits(c, d)
  /\ \E S \in SUBSET Call : /\ c \in S /\ Circular(S)
                            /\ \A T \in SUBSET S : Circular(T) => T = S

-----------------------------------------------------------------------------
(* Transactions *)

Init ==
  /\ db \in Database
  /\ job \in [Call -> {Absent}]
  /\ at = [c \in Call |-> "new"]
  /\ second = {}
  /\ got = [c \in Call |-> <<>>]
  /\ holds = [c \in Call |-> {}]
  /\ wrote = [c \in Call |-> <<>>]

\* A call has a connection from BeginTx to Commit or Rollback.
Connected == {c \in Call : at[c] \notin {"new", "again", "end"}}
Running == {c \in Call : at[c] \notin {"new", "end"}}

Sees(c, row) == IF row \in DOMAIN wrote[c] THEN wrote[c][row] ELSE db[row]
Exists(c, row) == Sees(c, row) # Absent
At(c, op, statement) ==
  /\ at[c] = statement /\ job[c].op \in op
  /\ ~\E d \in Call : Waits(c, d)

\* The statement takes its lock and writes; the call goes on with another.
GoOn(c, statement, rows) ==
  /\ at' = [at EXCEPT ![c] = statement]
  /\ holds' = [holds EXCEPT ![c] = @ \cup Wants(c)]
  /\ wrote' = [wrote EXCEPT ![c] = Over(rows, @)]
  /\ UNCHANGED <<db, job, second>>
Keep(c, query) == got' = [got EXCEPT ![c] = query]

EndTransaction(c, statement) ==
  /\ at' = [at EXCEPT ![c] = statement]
  /\ holds' = [holds EXCEPT ![c] = {}]
  /\ wrote' = [wrote EXCEPT ![c] = <<>>]
  /\ Keep(c, <<>>)
  /\ UNCHANGED job

\* Mutant: the call returns an error and leaves its transaction open.
ReturnOnly(c) ==
  /\ at' = [at EXCEPT ![c] = "end"]
  /\ second' = second \ {c}
  /\ UNCHANGED <<db, job, got, holds, wrote>>
\* The deferred tx.Rollback of a call that returns an error.
Fail(c) == EndTransaction(c, "end") /\ second' = second \ {c} /\ UNCHANGED db

\* Mutant: the first transaction is still open when the second one begins.
BeginAnother(c) ==
  /\ second' = second \cup {c}
  /\ at' = [at EXCEPT ![c] = "again"]
  /\ Keep(c, <<>>)
  /\ UNCHANGED <<db, job, holds, wrote>>
\* Rollback, before the call begins a second transaction.
RollBack(c) ==
  EndTransaction(c, "again") /\ second' = second \cup {c} /\ UNCHANGED db

Commit(c) ==
  /\ at[c] = "commit"
  /\ db' = Over(wrote[c], db)
  /\ EndTransaction(c, "end") /\ second' = second \ {c}

\* The first statement; what is read before it is never written again.
FirstStatement(j) ==
  CASE j.op \in {"bet", "lock", "resolve", "cancel"} -> "market"
    [] j.op = "create"   -> IF j.amount > 0 THEN "seed" ELSE "insert"
    [] j.op = "buy"      -> "listingMarket"
    [] j.op = "list"     -> "betMarket"
    [] j.op = "withdraw" -> "listing"
    [] j.op = "adjust"   -> "read"
    [] j.op = "sync"     -> "write"

Written(row) == db[row] # Absent \/ \E c \in Call : row \in DOMAIN wrote[c]
New(m) ==
  ~Written(MarketRow(m)) /\ \A c \in Running : job[c].op = "create" => job[c].market # m

\* What a call is asked about exists, but for the id of a new market.
Begin(c) ==
  /\ at[c] = "new"
  /\ Cardinality(Connected) < Connections
  /\ \E j \in Job \cap Asked(c) :
       /\ j.op \in {"buy", "withdraw"} => db[ListingRow(j.listing)] # Absent
       /\ j.op = "list" => db[BetRow(j.bet)] # Absent
       /\ j.op = "create" => New(j.market)
       /\ j.op \in {"bet", "lock", "resolve", "cancel"} =>
            db[MarketRow(j.market)] # Absent
       /\ job' = [job EXCEPT ![c] = j]
       /\ at' = [at EXCEPT ![c] = FirstStatement(j)]
  /\ UNCHANGED <<db, second, got, holds, wrote>>

\* RefundMarketInternal after ResolveMarket, invalidateStaleListing after
\* BuyListedBet.
Again(c) ==
  /\ at[c] = "again"
  /\ Cardinality(Connected) < Connections
  /\ at' = [at EXCEPT ![c] = IF job[c].op = "resolve" THEN "market" ELSE "listing"]
  /\ UNCHANGED <<db, job, second, got, holds, wrote>>

-----------------------------------------------------------------------------
(* CreateMarket, PlaceBet, AdjustBalance, SyncUser *)

CreateSeed(c) ==
  LET total == job[c].amount * Cardinality(Outcome) IN
  /\ At(c, {"create"}, "seed")
  /\ IF Sees(c, UserRow(House)) < total THEN Fail(c)
     ELSE /\ GoOn(c, "insert", Holding(UserRow(House), Sees(c, UserRow(House)) - total))
          /\ UNCHANGED got

\* Ids that are not in use; as the random ids of uuid.New() are alike, one will do.
NewBets == {b \in BetId : ~Written(BetRow(b))}
NewListings == {l \in ListingId : ~Written(ListingRow(l))}

CreateInsert(c) ==
  LET m == job[c].market  seed == job[c].amount IN
  /\ At(c, {"create"}, "insert")
  /\ seed > 0 => ExistsInjection(Outcome, NewBets)
  /\ LET ids == IF seed > 0 THEN CHOOSE f \in Injection(Outcome, NewBets) : TRUE ELSE <<>>
         bets == [row \in {BetRow(ids[o]) : o \in DOMAIN ids} |->
                    [market |-> m, owner |-> House, original |-> House,
                     outcome |-> CHOOSE o \in Outcome : ids[o] = row[2], stake |-> seed]]
         pools == [row \in {PoolRow(m, o) : o \in Outcome} |-> seed]
         market == [status |-> "OPEN", outcomes |-> Outcome, winning |-> NoOutcome]
     IN GoOn(c, "commit", Over(bets, Over(pools, Holding(MarketRow(m), market))))
  /\ UNCHANGED got

BetMarket(c) ==
  LET market == Sees(c, MarketRow(job[c].market)) IN
  /\ At(c, {"bet"}, "market")
  /\ IF market.status = "OPEN" /\ job[c].outcome \in market.outcomes
     THEN GoOn(c, "user", <<>>) /\ UNCHANGED got
     ELSE Fail(c)

BetUser(c) ==
  LET row == UserRow(job[c].user) IN
  /\ At(c, {"bet"}, "user")
  /\ IF Exists(c, row) /\ Sees(c, row) >= job[c].amount
     THEN /\ GoOn(c, "pool", Holding(row, Sees(c, row) - job[c].amount))
          /\ UNCHANGED got
     ELSE Fail(c)

\* The pool's UPDATE and the bet's INSERT, which waits for nothing.
BetPool(c) ==
  LET j == job[c]  row == PoolRow(j.market, j.outcome) IN
  /\ At(c, {"bet"}, "pool")
  /\ NewBets # {}
  /\ LET id == CHOOSE b \in NewBets : TRUE
         placed == [market |-> j.market, owner |-> j.user, original |-> j.user,
                    outcome |-> j.outcome, stake |-> j.amount]
     IN GoOn(c, "commit", Over(Holding(row, Sees(c, row) + j.amount),
                               Holding(BetRow(id), placed)))
  /\ UNCHANGED got

AdjustRead(c) ==
  LET row == UserRow(job[c].user) IN
  /\ At(c, {"adjust"}, "read")
  /\ IF Exists(c, row) /\ Sees(c, row) + job[c].amount >= 0
     THEN GoOn(c, "write", <<>>) /\ Keep(c, <<Sees(c, row) + job[c].amount>>)
     ELSE Fail(c)

\* AdjustBalance writes the sum it has computed, SyncUser what it was given.
WriteBalance(c) ==
  /\ At(c, {"adjust", "sync"}, "write")
  /\ GoOn(c, "commit", Holding(UserRow(job[c].user),
            IF job[c].op = "sync" THEN job[c].amount ELSE Head(got[c])))
  /\ UNCHANGED got

-----------------------------------------------------------------------------
(* LockMarket, ResolveMarket, RefundMarketInternal *)

Refunds(c) == job[c].op = "cancel" \/ c \in second

MarketAllows(c, status) ==
  IF Refunds(c) THEN status \in {"OPEN", "LOCKED"}
  ELSE status = IF job[c].op = "lock" THEN "OPEN" ELSE "LOCKED"

OfferedOn(m) ==
  {l \in ListingId : /\ db[ListingRow(l)] # Absent
                     /\ db[ListingRow(l)].market = m
                     /\ db[ListingRow(l)].status = "LISTED"}

\* The market's row, then the listings that the bulk UPDATE finds.
SettleMarket(c) ==
  LET m == job[c].market IN
  /\ At(c, {"lock", "resolve", "cancel"}, "market")
  /\ IF MarketAllows(c, Sees(c, MarketRow(m)).status)
     THEN /\ GoOn(c, "listings", <<>>)
          /\ \E order \in SetToSeqs(OfferedOn(m)) : Keep(c, order)
     ELSE Fail(c)

\* One listing of the bulk UPDATE, which looks at its status again.
SettleListing(c) ==
  LET row == ListingRow(Head(got[c])) IN
  /\ At(c, {"lock", "resolve", "cancel"}, "listings") /\ got[c] # <<>>
  /\ GoOn(c, "listings",
          IF Sees(c, row).status = "LISTED"
          THEN Holding(row, [Sees(c, row) EXCEPT !.status = "CANCELLED"]) ELSE <<>>)
  /\ Keep(c, Tail(got[c]))

Become(c, status, winning) ==
  LET row == MarketRow(job[c].market)
  IN Holding(row, [db[row] EXCEPT !.status = status, !.winning = winning])

\* The rows of a query on bets, in the order the query returns them.
PayoutsOf(c, bets) ==
  LET m == job[c].market
      amount(b) == IF Refunds(c) THEN db[BetRow(b)].stake
                   ELSE Engine!Payout(db[BetRow(b)].stake, Engine!Distributable(m),
                                      db[PoolRow(m, job[c].outcome)])
  IN {[i \in DOMAIN order |-> [user |-> db[BetRow(order[i])].owner,
                               amount |-> amount(order[i])]] :
        order \in SetToSeqs(bets)}

\* After the listings: the status, the fallback to a refund, or who is paid.
SettleQuery(c) ==
  LET m == job[c].market IN
  /\ At(c, {"lock", "resolve", "cancel"}, "listings") /\ got[c] = <<>>
  /\ IF job[c].op = "lock"
     THEN GoOn(c, "commit", Become(c, "LOCKED", NoOutcome)) /\ UNCHANGED got
     ELSE IF Refunds(c)
     THEN /\ GoOn(c, "pay", <<>>)
          /\ \E list \in PayoutsOf(c, Engine!BetsOf(m)) : Keep(c, list)
     ELSE IF job[c].outcome \notin db[MarketRow(m)].outcomes THEN Fail(c)
     ELSE IF db[PoolRow(m, job[c].outcome)] = 0 THEN RollBack(c)
     ELSE /\ GoOn(c, "pay", <<>>)
          /\ \E list \in PayoutsOf(c, Engine!WinningBets(m, job[c].outcome)) :
               Keep(c, list)

\* One UPDATE of users per bet, in that order.
SettlePay(c) ==
  LET row == UserRow(Head(got[c]).user) IN
  /\ At(c, {"resolve", "cancel"}, "pay") /\ got[c] # <<>>
  /\ GoOn(c, "pay", Holding(row, Sees(c, row) + Head(got[c]).amount))
  /\ Keep(c, Tail(got[c]))

\* The last UPDATE sets the status; a resolution pays the house before it.
SettleStatus(c) ==
  /\ At(c, {"resolve", "cancel"}, "pay") /\ got[c] = <<>>
  /\ IF Refunds(c)
     THEN GoOn(c, "commit", Become(c, "CANCELLED", db[MarketRow(job[c].market)].winning))
     ELSE IF HouseGain(c) > 0 THEN GoOn(c, "house", <<>>)
     ELSE GoOn(c, "commit", Become(c, "RESOLVED", job[c].outcome))
  /\ UNCHANGED got

SettleHouse(c) ==
  LET row == UserRow(House) IN
  /\ At(c, {"resolve"}, "house")
  /\ GoOn(c, "commit", Over(Holding(row, Sees(c, row) + HouseGain(c)),
                            Become(c, "RESOLVED", job[c].outcome)))
  /\ UNCHANGED got

-----------------------------------------------------------------------------
(* ListBetForSale, CancelListing, BuyListedBet *)

ListMarket(c) ==
  /\ At(c, {"list"}, "betMarket")
  /\ IF db[MarketRow(db[BetRow(job[c].bet)].market)].status = "OPEN"
     THEN GoOn(c, "bet", <<>>) /\ UNCHANGED got
     ELSE Fail(c)

ListBet(c) ==
  /\ At(c, {"list"}, "bet")
  /\ IF Engine!MayList(job[c].bet, job[c].user)
     THEN GoOn(c, "offer", <<>>) /\ UNCHANGED got
     ELSE Fail(c)

\* The INSERT, with its foreign key on the seller and the unique index.
ListInsert(c) ==
  LET j == job[c] IN
  /\ At(c, {"list"}, "offer")
  /\ IF OfferedBy(j.bet) # {} THEN Fail(c)
     ELSE /\ NewListings # {}
          /\ LET id == CHOOSE l \in NewListings : TRUE
             IN GoOn(c, "commit", Holding(ListingRow(id),
                      [bet |-> j.bet, market |-> db[BetRow(j.bet)].market,
                       seller |-> j.user, buyer |-> NoUser, price |-> j.amount,
                       status |-> "LISTED"]))
          /\ UNCHANGED got

WithdrawListing(c) ==
  LET row == ListingRow(job[c].listing) IN
  /\ At(c, {"withdraw"}, "listing")
  /\ IF db[row].seller = job[c].user /\ db[row].status = "LISTED"
     THEN /\ GoOn(c, "commit", Holding(row, [db[row] EXCEPT !.status = "CANCELLED"]))
          /\ UNCHANGED got
     ELSE Fail(c)

BuyMarket(c) ==
  LET open == db[MarketRow(db[ListingRow(job[c].listing)].market)].status = "OPEN" IN
  /\ At(c, {"buy"}, "listingMarket")
  /\ GoOn(c, IF open THEN "listing" ELSE "closed", <<>>)
  /\ UNCHANGED got

BuyClosed(c) ==
  /\ At(c, {"buy"}, "closed")
  /\ RollBack(c)

BuyListing(c) ==
  LET row == db[ListingRow(job[c].listing)] IN
  /\ At(c, {"buy"}, "listing") /\ c \notin second
  /\ IF row.status = "LISTED" /\ row.seller # Buyer(c)
     THEN GoOn(c, "soldBet", <<>>) /\ UNCHANGED got
     ELSE Fail(c)

Invalidate(c) ==
  LET row == ListingRow(job[c].listing) IN
  /\ At(c, {"buy"}, "listing") /\ c \in second
  /\ GoOn(c, "commit", IF db[row].status = "LISTED"
                       THEN Holding(row, [db[row] EXCEPT !.status = "CANCELLED"])
                       ELSE <<>>)
  /\ UNCHANGED got

BuyBet(c) ==
  /\ At(c, {"buy"}, "soldBet")
  /\ IF db[BetRow(db[ListingRow(job[c].listing)].bet)].owner = Seller(c)
     THEN GoOn(c, "first", <<>>) /\ UNCHANGED got
     ELSE Fail(c)

BuyFirst(c) ==
  /\ At(c, {"buy"}, "first")
  /\ IF db[UserRow(FirstUser(c))] # Absent
     THEN GoOn(c, "both", <<>>) /\ UNCHANGED got
     ELSE Fail(c)

\* Both users are locked: the four UPDATEs wait for nothing.
BuyPay(c) ==
  LET l == ListingRow(job[c].listing)
      sold == BetRow(db[l].bet)
      from == UserRow(Buyer(c))
      to == UserRow(Seller(c)) IN
  /\ At(c, {"buy"}, "both")
  /\ IF db[UserRow(SecondUser(c))] # Absent /\ db[from] >= db[l].price
     THEN /\ GoOn(c, "commit",
                  Over(Over(Holding(from, db[from] - db[l].price),
                            Holding(to, db[to] + db[l].price)),
                       Over(Holding(sold, [db[sold] EXCEPT !.owner = Buyer(c)]),
                            Holding(l, [db[l] EXCEPT !.status = "SOLD",
                                                     !.buyer = Buyer(c)]))))
          /\ UNCHANGED got
     ELSE Fail(c)

-----------------------------------------------------------------------------
\* PostgreSQL's detector aborts a transaction of the circle; its call fails.
Victim(c) == InCircle(c) /\ Fail(c)

\* The process stops: PostgreSQL rolls back what was not committed.
Crash ==
  /\ Running # {}
  /\ at' = [c \in Call |-> IF c \in Running THEN "end" ELSE at[c]]
  /\ second' = {}
  /\ got' = [c \in Call |-> <<>>]
  /\ holds' = [c \in Call |-> {}]
  /\ wrote' = [c \in Call |-> <<>>]
  /\ UNCHANGED <<db, job>>

Proceed(c) ==
  \/ Again(c) \/ Commit(c)
  \/ CreateSeed(c) \/ CreateInsert(c) \/ BetMarket(c) \/ BetUser(c) \/ BetPool(c)
  \/ AdjustRead(c) \/ WriteBalance(c)
  \/ SettleMarket(c) \/ SettleListing(c) \/ SettleQuery(c) \/ SettlePay(c)
  \/ SettleStatus(c) \/ SettleHouse(c)
  \/ ListMarket(c) \/ ListBet(c) \/ ListInsert(c) \/ WithdrawListing(c)
  \/ BuyMarket(c) \/ BuyClosed(c) \/ BuyListing(c) \/ Invalidate(c) \/ BuyBet(c)
  \/ BuyFirst(c) \/ BuyPay(c)
  \/ Victim(c)

Next == (\E c \in Call : Begin(c) \/ Proceed(c)) \/ Crash

Spec == Init /\ [][Next]_vars

\* A statement that can be executed is, and PostgreSQL looks for deadlocks.
FairSpec == Spec /\ \A c \in Call : WF_vars(Proceed(c))

-----------------------------------------------------------------------------
(* Properties *)

Mode == {"key", "share", "nokey", "update"}

\* The types of the locks and of the uncommitted rows; only a call with a
\* connection has any.
TypeOK ==
  /\ DOMAIN db = Row
  /\ second \subseteq Running
  /\ Cardinality(Connected) <= Connections
  /\ \A c \in Call :
       /\ holds[c] \subseteq Row \X Mode /\ DOMAIN wrote[c] \subseteq Row
       /\ c \notin Connected => holds[c] = {} /\ wrote[c] = <<>>

\* Every transaction takes effect as if it were executed at once when it commits,
\* as BetEngine's operations do, and one that fails has no effect.
ActsAtomically == [][Engine!Next]_(Engine!vars)

Settles(c) == job[c] # Absent /\ job[c].op \in {"resolve", "cancel"}

\* The order "markets, bet_listings, bets, users" (listing_service.go:31-34) keeps
\* deadlocks away: calls wait for each other in a circle only where one of them is
\* a settlement that pays users in the order of a query.
DeadlocksAreSettlements ==
  \A S \in SUBSET Call : Circular(S) =>
    \E c \in S : Settles(c) /\ at[c] \in {"pay", "house"}

\* The calls that were made come to an end, also those that wait for a connection
\* or the rows of others and those that go on with a second transaction.
CallsEnd == []<>(Running = {})
=============================================================================
