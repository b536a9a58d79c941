--------------------------- MODULE RowLocksProofs ---------------------------
(***************************************************************************)
(* What the row locks of bet-backend achieve, for any number of calls,       *)
(* connections, users and rows: no two transactions hold conflicting locks   *)
(* or have written the same row, and calls wait for each other in a circle   *)
(* only around a settlement that is paying.                                  *)
(*                                                                          *)
(* The inductive invariant says of every call, from its job and the          *)
(* statement it executes next, which locks it holds and which rows it has    *)
(* written, and of every two calls that these keep apart.  The tables may be *)
(* any that fit together (DatabaseAssumption).                               *)
(***************************************************************************)
EXTENDS RowLocks, FiniteSums, FiniteSetTheorems, SequenceTheorems, TLAPS

-----------------------------------------------------------------------------
(* The inductive invariant *)

\* The invariant of a call is written for the values of its variables, as they are
\* before or after a step: the job j, the statement st, whether it is in its second
\* transaction, the query q it goes through, its locks H, its writes W, the tables D.

BetRows == {BetRow(b) : b \in BetId}
ListingRows == {ListingRow(l) : l \in ListingId}
MarketRows == {MarketRow(m) : m \in Market}
Settling == {"lock", "resolve", "cancel"}

\* The listings of a market.
ListingsOn(m, D) == {l \in ListingId : /\ D[ListingRow(l)] # Absent
                                       /\ D[ListingRow(l)].market = m}

BuyerIn(j) == j.user
SellerIn(j, D) == D[ListingRow(j.listing)].seller
FirstIn(j, D) == IF Before(SellerIn(j, D), BuyerIn(j)) THEN SellerIn(j, D) ELSE BuyerIn(j)
SecondIn(j, D) == IF FirstIn(j, D) = BuyerIn(j) THEN SellerIn(j, D) ELSE BuyerIn(j)

\* What a job names exists.
JobFits(j, st, D) ==
  /\ j \in Job
  /\ j.op \in {"buy", "withdraw"} => D[ListingRow(j.listing)] # Absent
  /\ j.op = "list" => D[BetRow(j.bet)] # Absent
  /\ j.op \in {"bet"} \cup Settling => D[MarketRow(j.market)] # Absent
  /\ j.op = "create" /\ st # "end" => D[MarketRow(j.market)] = Absent

\* Which locks a call holds at which statement.
BetLocks(j, st, H) ==
  LET m == <<MarketRow(j.market), "share">>
      u == <<UserRow(j.user), "update">>
      p == <<PoolRow(j.market, j.outcome), "nokey">>
  IN \/ st = "market" /\ H = {}
     \/ st = "user"   /\ H = {m}
     \/ st = "pool"   /\ H = {m, u}
     \/ st = "commit" /\ H = {m, u, p}
CreateLocks(j, st, H) ==
  \/ st = "seed" /\ H = {}
  \/ st \in {"insert", "commit"} /\ H \subseteq {<<UserRow(House), "update">>}
AdjustLocks(j, st, H) ==
  \/ st = "read"   /\ H = {}
  \/ st = "write"  /\ H = {<<UserRow(j.user), "update">>}
  \/ st = "commit" /\ H = {<<UserRow(j.user), "update">>, <<UserRow(j.user), "nokey">>}
SyncLocks(j, st, H) ==
  \/ st = "write"  /\ H = {}
  \/ st = "commit" /\ H = {<<UserRow(j.user), "nokey">>}
SettleLocks(j, st, H, D) ==
  \/ st = "market" /\ H = {}
  \/ /\ st \in {"listings", "pay", "house", "commit"}
     /\ st \in {"pay", "house"} => j.op # "lock"
     /\ <<MarketRow(j.market), "update">> \in H
     /\ \A h \in H : \/ h = <<MarketRow(j.market), "update">>
                     \/ \E l \in ListingsOn(j.market, D) : h = <<ListingRow(l), "nokey">>
                     \/ st # "listings" /\ \E a \in Account : h = <<UserRow(a), "nokey">>
ListLocks(j, st, H, D) ==
  LET m == <<MarketRow(D[BetRow(j.bet)].market), "share">>
      b == <<BetRow(j.bet), "update">>
  IN \/ st = "betMarket" /\ H = {}
     \/ st = "bet"          /\ H = {m}
     \/ st = "offer"        /\ H = {m, b}
     \/ st = "commit"       /\ H = {m, b, <<UserRow(j.user), "key">>}
WithdrawLocks(j, st, H) ==
  \/ st = "listing" /\ H = {}
  \/ st = "commit"  /\ H = {<<ListingRow(j.listing), "update">>}
BuyLocks(j, st, two, H, D) ==
  LET m == <<MarketRow(D[ListingRow(j.listing)].market), "share">>
      l == <<ListingRow(j.listing), "update">>
      b == <<BetRow(D[ListingRow(j.listing)].bet), "update">>
      u == <<UserRow(FirstIn(j, D)), "update">>
      v == <<UserRow(SecondIn(j, D)), "update">>
  IN \/ /\ ~two
        /\ \/ st = "listingMarket"       /\ H = {}
           \/ st \in {"listing", "closed"}  /\ H = {m}
           \/ /\ SellerIn(j, D) # BuyerIn(j)
              /\ \/ st = "soldBet" /\ H = {m, l}
                 \/ st = "first"    /\ H = {m, l, b}
                 \/ st = "both"     /\ H = {m, l, b, u}
                 \/ st = "commit"   /\ H = {m, l, b, u, v}
     \/ /\ two
        /\ \/ st = "listing" /\ H = {}
           \/ st = "commit"  /\ H = {l}

LocksFit(j, st, two, H, D) ==
  /\ j.op = "bet"         => BetLocks(j, st, H)
  /\ j.op = "create"      => CreateLocks(j, st, H)
  /\ j.op = "adjust"      => AdjustLocks(j, st, H)
  /\ j.op = "sync"        => SyncLocks(j, st, H)
  /\ j.op \in Settling    => SettleLocks(j, st, H, D)
  /\ j.op = "list"        => ListLocks(j, st, H, D)
  /\ j.op = "withdraw"    => WithdrawLocks(j, st, H)
  /\ j.op = "buy"         => BuyLocks(j, st, two, H, D)

\* The query a settlement goes through.
QueryFits(j, st, q, D) ==
  /\ j.op \in Settling /\ st = "listings" => q \in Seq(ListingsOn(j.market, D))
  /\ j.op \in Settling /\ st = "pay" => \E A : q \in Seq([user : Account, amount : A])

\* A row that is written is there and locked against writing and locking by others,
\* or nobody else can know it.
Known(row, D) ==
  /\ row \in BetRows \cup ListingRows \cup MarketRows => D[row] # Absent
  /\ \A m \in Market, o \in Outcome : row = PoolRow(m, o) => D[MarketRow(m)] # Absent
Updates(row, H, D) ==
  Known(row, D) /\ (<<row, "nokey">> \in H \/ <<row, "update">> \in H)
Creates(j, row) ==
  /\ j.op = "create"
  /\ row = MarketRow(j.market) \/ \E o \in Outcome : row = PoolRow(j.market, o)
Inserts(j, row, D) ==
  \/ row \in BetRows \cup ListingRows /\ D[row] = Absent
  \/ Creates(j, row) /\ D[MarketRow(j.market)] = Absent

\* What is written keeps the tables as they should be.
ValueFits(row, v, D) ==
  /\ row \in MarketRows => v \in MarketRecord
  /\ row \in BetRows => /\ v \in Engine!BetRow
                        /\ D[row] # Absent => v.market = D[row].market
  /\ row \in ListingRows =>
       /\ v \in Engine!ListingRow
       /\ D[BetRow(v.bet)] # Absent /\ D[BetRow(v.bet)].market = v.market
       /\ D[row] # Absent => /\ v.bet = D[row].bet /\ v.market = D[row].market
                             /\ v.seller = D[row].seller

WritesFit(j, st, H, W, D) ==
  /\ \A row \in DOMAIN W :
       /\ row \in Row /\ ValueFits(row, W[row], D)
       /\ Updates(row, H, D) \/ (st = "commit" /\ Inserts(j, row, D))
  /\ j.op = "buy" /\ st # "commit" => DOMAIN W = {}

Idle == {"new", "again", "end"}
Fits(j, st, two, q, H, W, D) ==
  /\ st = "new" => j = Absent
  /\ st # "new" => JobFits(j, st, D)
  /\ st \in Idle => H = {} /\ W = <<>>
  /\ st \notin Idle => LocksFit(j, st, two, H, D) /\ QueryFits(j, st, q, D)
                       /\ WritesFit(j, st, H, W, D)
  /\ two => st \notin {"new", "end"} /\ j.op \in {"resolve", "buy"}
  /\ st = "again" => two

CallFits(c) == Fits(job[c], at[c], c \in second, got[c], holds[c], wrote[c], db)

Shapes ==
  /\ job = [c \in Call |-> job[c]] /\ at = [c \in Call |-> at[c]]
  /\ got = [c \in Call |-> got[c]] /\ holds = [c \in Call |-> holds[c]]
  /\ wrote = [c \in Call |-> wrote[c]] /\ second \subseteq Call

\* Locks that exclude each other have one holder, a row that is written one writer,
\* and a market one creator.
Compatible(H, G) == \A h \in H, g \in G : h[1] = g[1] => ~Conflicts(h[2], g[2])
Apart(c, d) ==
  /\ Compatible(holds[c], holds[d])
  /\ DOMAIN wrote[c] \cap DOMAIN wrote[d] = {}
  /\ at[c] \notin {"new", "end"} /\ at[d] \notin {"new", "end"}
     /\ job[c].op = "create" /\ job[d].op = "create" => job[c].market # job[d].market

IInv ==
  /\ Shapes /\ DatabaseFits(db)
  /\ Cardinality(Connected) <= Connections
  /\ \A c \in Call : CallFits(c)
  /\ \A c, d \in Call : c # d => Apart(c, d)

-----------------------------------------------------------------------------
(* Rows, locks and statements *)

\* The table of a row.
Table(row) == row[1]

\* Rows of different tables or ids are different.
LEMMA Tables ==
  /\ \A x : Table(UserRow(x)) = "users" /\ Table(MarketRow(x)) = "markets"
            /\ Table(BetRow(x)) = "bets" /\ Table(ListingRow(x)) = "bet_listings"
  /\ \A x, y : Table(PoolRow(x, y)) = "pools"
  /\ \A x, y : /\ UserRow(x) = UserRow(y) => x = y
               /\ MarketRow(x) = MarketRow(y) => x = y
               /\ BetRow(x) = BetRow(y) => x = y
               /\ ListingRow(x) = ListingRow(y) => x = y
  /\ \A x, y, z, t : PoolRow(x, y) = PoolRow(z, t) => x = z /\ y = t
BY DEF Table, UserRow, MarketRow, PoolRow, BetRow, ListingRow

\* What a call waits for at its statement, and what it holds by then.
LEMMA WantedAt ==
  ASSUME NEW c \in Call, NEW w \in Wants(c)
  PROVE  /\ Table(w[1]) = "pools" => at[c] = "pool"
         /\ Table(w[1]) = "users" =>
              at[c] \in {"read", "user", "write", "first", "both", "seed", "offer",
                         "pay", "house"}
         /\ Table(w[1]) = "bets" => at[c] \in {"bet", "soldBet"}
         /\ Table(w[1]) = "bet_listings" => at[c] \in {"listing", "closed", "listings"}
         /\ Table(w[1]) = "markets" =>
              at[c] \in {"market", "betMarket", "listingMarket"}
         /\ Table(w[1]) \in {"pools", "users", "bets", "bet_listings", "markets"}
BY Tables DEF Wants, LockedRead

LEMMA HeldAt ==
  ASSUME NEW c \in Call, CallFits(c), NEW h \in holds[c]
  PROVE  /\ at[c] \notin Idle
         /\ Table(h[1]) = "pools" => at[c] = "commit"
         /\ Table(h[1]) = "users" =>
              \/ at[c] \in {"pool", "insert", "commit", "pay", "house"}
              \/ /\ at[c] = "write" /\ job[c].op = "adjust"
                 /\ <<UserRow(job[c].user), "update">> \in holds[c]
              \/ /\ at[c] = "both" /\ job[c].op = "buy" /\ Seller(c) # Buyer(c)
                 /\ h[1] = UserRow(FirstUser(c))
         /\ Table(h[1]) = "bets" => at[c] \in {"offer", "first", "both", "commit"}
         /\ Table(h[1]) = "bet_listings" =>
              \/ at[c] \in {"commit", "soldBet", "first", "both", "pay", "house"}
              \/ /\ at[c] = "listings" /\ job[c].op \in Settling
                 /\ <<MarketRow(job[c].market), "update">> \in holds[c]
                 /\ \E l \in ListingsOn(job[c].market, db) : h[1] = ListingRow(l)
         /\ Table(h[1]) = "markets" =>
              at[c] \notin {"market", "betMarket", "listingMarket"}
<1>1. at[c] \notin Idle /\ JobFits(job[c], at[c], db)
      /\ LocksFit(job[c], at[c], c \in second, holds[c], db)
  BY DEF CallFits, Fits, Idle
<1>2. job[c].op \in Op
  BY <1>1 DEF JobFits, Job, Op
<1>3. CASE job[c].op = "bet"
  BY <1>1, <1>3, Tables DEF LocksFit, BetLocks
<1>4. CASE job[c].op = "create"
  BY <1>1, <1>4, Tables DEF LocksFit, CreateLocks
<1>5. CASE job[c].op = "adjust"
  BY <1>1, <1>5, Tables DEF LocksFit, AdjustLocks
<1>6. CASE job[c].op = "sync"
  BY <1>1, <1>6, Tables DEF LocksFit, SyncLocks
<1>7. CASE job[c].op \in Settling
  BY <1>1, <1>7, Tables DEF LocksFit, SettleLocks
<1>8. CASE job[c].op = "list"
  BY <1>1, <1>8, Tables DEF LocksFit, ListLocks
<1>9. CASE job[c].op = "withdraw"
  BY <1>1, <1>9, Tables DEF LocksFit, WithdrawLocks
<1>10. CASE job[c].op = "buy"
  BY <1>1, <1>10, Tables DEF LocksFit, BuyLocks,
                     FirstUser, Seller, Buyer, FirstIn, SellerIn, BuyerIn
<1> QED BY <1>2, <1>3, <1>4, <1>5, <1>6, <1>7, <1>8, <1>9, <1>10 DEF Op, Settling

-----------------------------------------------------------------------------
(* Steps *)

\* What a step of the call c leaves alone of the others.
Others(c) ==
  \A d \in Call \ {c} :
    /\ job'[d] = job[d] /\ at'[d] = at[d] /\ got'[d] = got[d]
    /\ holds'[d] = holds[d] /\ wrote'[d] = wrote[d]
    /\ d \in second' <=> d \in second

LEMMA OthersFit ==
  ASSUME IInv, NEW c \in Call, Others(c), db' = db
  PROVE  \A d \in Call \ {c} : CallFits(d)'
<1>1. SUFFICES ASSUME NEW d \in Call \ {c}
               PROVE  CallFits(d)'
  OBVIOUS
<1>2. Fits(job[d], at[d], d \in second, got[d], holds[d], wrote[d], db)
  BY DEF IInv, CallFits
<1>3. Fits(job'[d], at'[d], d \in second', got'[d], holds'[d], wrote'[d], db')
  BY <1>2 DEF Others
<1> QED BY <1>3 DEF CallFits

LEMMA OthersApart ==
  ASSUME IInv, NEW c \in Call, Others(c)
  PROVE  \A d, e \in Call \ {c} : d # e => Apart(d, e)'
<1>1. SUFFICES ASSUME NEW d \in Call \ {c}, NEW e \in Call \ {c}, d # e
               PROVE  Apart(d, e)'
  OBVIOUS
<1>2. Apart(d, e)
  BY <1>1 DEF IInv
<1> QED BY <1>1, <1>2 DEF Apart, Others, Compatible

LEMMA Symmetric ==
  ASSUME NEW x \in Mode, NEW y \in Mode
  PROVE  Conflicts(x, y) <=> Conflicts(y, x)
BY DEF Conflicts, Mode

\* The rows that the tables name.
LEMMA RowsNamed ==
  /\ \A x \in Account : UserRow(x) \in Row
  /\ \A x \in Market : MarketRow(x) \in Row
  /\ \A x \in Market, y \in Outcome : PoolRow(x, y) \in Row
  /\ \A x \in BetId : BetRow(x) \in Row
  /\ \A x \in ListingId : ListingRow(x) \in Row
BY DEF Row

\* What a listing that exists refers to.
LEMMA ListingFits ==
  ASSUME NEW D, DatabaseFits(D), NEW l \in ListingId, D[ListingRow(l)] # Absent
  PROVE  /\ D[ListingRow(l)] \in Engine!ListingRow
         /\ D[ListingRow(l)].market \in Market /\ D[ListingRow(l)].seller \in Account
         /\ D[ListingRow(l)].bet \in BetId /\ D[BetRow(D[ListingRow(l)].bet)] # Absent
         /\ D[BetRow(D[ListingRow(l)].bet)].market = D[ListingRow(l)].market
BY DEF DatabaseFits, Engine!ListingRow, Account, Engine!Account

LEMMA BetFits ==
  ASSUME NEW D, DatabaseFits(D), NEW b \in BetId, D[BetRow(b)] # Absent
  PROVE  /\ D[BetRow(b)] \in Engine!BetRow
         /\ D[BetRow(b)].market \in Market /\ D[BetRow(b)].owner \in Account
BY DEF DatabaseFits, Engine!BetRow, Account, Engine!Account

LEMMA MarketFits ==
  ASSUME NEW D, DatabaseFits(D), NEW m \in Market, D[MarketRow(m)] # Absent
  PROVE  D[MarketRow(m)] \in MarketRecord
BY DEF DatabaseFits

\* The job of a call.
LEMMA JobTyped ==
  ASSUME NEW j, NEW st, NEW D, JobFits(j, st, D), DatabaseFits(D)
  PROVE  /\ j.op \in Op /\ j # Absent
         /\ j.op \in {"bet", "create"} \cup Settling => j.market \in Market
         /\ j.op \in {"bet", "resolve"} => j.outcome \in Outcome
         /\ j.op \in {"bet", "buy", "withdraw", "adjust", "sync"} => j.user \in Account
         /\ j.op = "list" => j.user \in Account /\ j.bet \in BetId
                             /\ D[BetRow(j.bet)] # Absent
         /\ j.op \in {"buy", "withdraw"} => /\ j.listing \in ListingId
                                           /\ D[ListingRow(j.listing)] # Absent
BY AbsentAssumption DEF JobFits, Job, Op, Settling

\* Locks are on rows, in a mode of PostgreSQL.
LEMMA LocksTyped ==
  ASSUME NEW c \in Call, CallFits(c), DatabaseFits(db)
  PROVE  holds[c] \subseteq Row \X Mode
<1>1. SUFFICES ASSUME NEW h \in holds[c]
               PROVE  h \in Row \X Mode
  OBVIOUS
<1>2. at[c] \notin Idle
  BY <1>1, HeldAt
<1>3. JobFits(job[c], at[c], db) /\ LocksFit(job[c], at[c], c \in second, holds[c], db)
  BY <1>2 DEF CallFits, Fits, Idle
<1>4. job[c].op \in Op
  BY <1>3, JobTyped
<1>5. CASE job[c].op = "bet"
  BY <1>3, <1>5, JobTyped, RowsNamed DEF LocksFit, BetLocks, Mode, Account
<1>6. CASE job[c].op = "create"
  BY <1>3, <1>6, RowsNamed DEF LocksFit, CreateLocks, Mode, Account
<1>7. CASE job[c].op = "adjust"
  BY <1>3, <1>7, JobTyped, RowsNamed DEF LocksFit, AdjustLocks, Mode, Account
<1>8. CASE job[c].op = "sync"
  BY <1>3, <1>8, JobTyped, RowsNamed DEF LocksFit, SyncLocks, Mode, Account
<1>9. CASE job[c].op \in Settling
  BY <1>3, <1>9, JobTyped, RowsNamed DEF LocksFit, SettleLocks, ListingsOn, Mode
<1>10. CASE job[c].op = "list"
  BY <1>3, <1>10, JobTyped, RowsNamed, BetFits DEF LocksFit, ListLocks, Mode, Account
<1>11. CASE job[c].op = "withdraw"
  BY <1>3, <1>11, JobTyped, RowsNamed DEF LocksFit, WithdrawLocks, Mode
<1>12. CASE job[c].op = "buy"
  <2>1. job[c].user \in Account
    BY <1>3, <1>12, JobTyped DEF Account
  <2>2. PICK l : l = job[c].listing /\ l \in ListingId /\ db[ListingRow(l)] # Absent
    BY <1>3, <1>12, JobTyped
  <2>3. /\ db[ListingRow(l)].market \in Market /\ db[ListingRow(l)].bet \in BetId
        /\ FirstIn(job[c], db) \in Account /\ SecondIn(job[c], db) \in Account
    BY <2>1, <2>2, ListingFits DEF FirstIn, SecondIn, SellerIn, BuyerIn
  <2> QED BY <1>3, <1>12, <2>2, <2>3, RowsNamed DEF LocksFit, BuyLocks, Mode
<1> QED BY <1>4, <1>5, <1>6, <1>7, <1>8, <1>9, <1>10, <1>11, <1>12 DEF Op, Settling

LEMMA WantedModes ==
  ASSUME NEW c \in Call, NEW w \in Wants(c)
  PROVE  w[2] \in Mode
BY DEF Wants, LockedRead, Mode

-----------------------------------------------------------------------------
(* Deadlocks *)

\* A lock excludes itself, and who locks a row for update excludes everybody.
LEMMA UpdateExcludes ==
  ASSUME NEW c \in Call, NEW d \in Call, c # d, IInv, NEW row,
         <<row, "update">> \in holds[c], NEW h \in holds[d]
  PROVE  h[1] # row
<1>1. Compatible(holds[c], holds[d])
  BY DEF IInv, Apart
<1>2. <<row, "update">>[1] = row /\ <<row, "update">>[2] = "update"
  OBVIOUS
<1>3. row = h[1] => ~Conflicts("update", h[2])
  BY <1>1, <1>2 DEF Compatible
<1> QED BY <1>3 DEF Conflicts

\* A lock of a call that waits keeps a member of its circle waiting, or the listing
\* it has written does.
LEMMA WaitsFor ==
  ASSUME NEW c \in Call, NEW d \in Call, Waits(c, d)
  PROVE  \/ \E w \in Wants(c), h \in holds[d] : w[1] = h[1]
         \/ at[c] = "offer" /\ \E l \in OfferedBy(job[c].bet) : ListingRow(l) \in DOMAIN wrote[d]
BY DEF Waits

\* A call that has nothing more to wait for is in no circle.
LEMMA WaitingAt ==
  ASSUME NEW c \in Call, NEW d \in Call, Waits(c, d)
  PROVE  at[c] \notin {"commit", "insert"} \cup Idle
BY WaitsFor DEF Wants, Idle

\* The users that come after the one a purchase waits for.
After(c) == {x \in Account : Before(SecondUser(c), x)}

\* Who pays at its statement is a settlement that pays.
LEMMA PayingAt ==
  ASSUME NEW c \in Call, CallFits(c), at[c] \in {"pay", "house"}
  PROVE  Settles(c)
<1>1. JobFits(job[c], at[c], db) /\ LocksFit(job[c], at[c], c \in second, holds[c], db)
  BY DEF CallFits, Fits, Idle
<1>2. job[c] \in Job /\ job[c].op \in Op
  BY <1>1 DEF JobFits, Job, Op
<1>3. job[c] # Absent
  BY <1>2, AbsentAssumption
<1>4. job[c].op \in {"resolve", "cancel"}
  BY <1>1, <1>2 DEF Op, LocksFit, BetLocks, CreateLocks, AdjustLocks, SyncLocks, SettleLocks,
                    ListLocks, WithdrawLocks, BuyLocks, Settling
<1> QED BY <1>3, <1>4 DEF Settles

\* Who offers a bet has locked its market.
LEMMA OfferAt ==
  ASSUME NEW c \in Call, CallFits(c), at[c] = "offer"
  PROVE  <<MarketRow(db[BetRow(job[c].bet)].market), "share">> \in holds[c]
<1>1. JobFits(job[c], at[c], db) /\ LocksFit(job[c], at[c], c \in second, holds[c], db)
  BY DEF CallFits, Fits, Idle
<1>2. job[c].op \in Op
  BY <1>1 DEF JobFits, Job, Op
<1> QED BY <1>1, <1>2 DEF Op, LocksFit, BetLocks, CreateLocks, AdjustLocks, SyncLocks,
                    SettleLocks, ListLocks, WithdrawLocks, BuyLocks, Settling

\* Listings that are written and not committed are those of the settlement that has
\* locked their market, as long as nobody is paid or at its end.
LEMMA WroteAt ==
  ASSUME NEW c \in Call, CallFits(c), NEW row \in DOMAIN wrote[c],
         Table(row) = "bet_listings", at[c] \notin {"commit", "pay", "house"}
  PROVE  /\ at[c] = "listings" /\ job[c].op \in Settling
         /\ <<MarketRow(job[c].market), "update">> \in holds[c]
         /\ \E l \in ListingsOn(job[c].market, db) : row = ListingRow(l)
<1>0. at[c] \notin Idle
  <2>1. wrote[c] # <<>>
    OBVIOUS
  <2> QED BY <2>1 DEF CallFits, Fits
<1>1. /\ JobFits(job[c], at[c], db)
      /\ LocksFit(job[c], at[c], c \in second, holds[c], db)
      /\ WritesFit(job[c], at[c], holds[c], wrote[c], db)
  BY <1>0 DEF CallFits, Fits, Idle
<1>2. job[c].op # "buy"
  BY <1>1 DEF WritesFit
<1>3. PICK h \in holds[c] : h[1] = row
  BY <1>1 DEF WritesFit, Updates
<1>4. at[c] \notin {"soldBet", "first", "both"}
  <2>1. job[c].op \in Op
    BY <1>1 DEF JobFits, Job, Op
  <2> QED BY <1>1, <1>2, <2>1
             DEF Op, LocksFit, BetLocks, CreateLocks, AdjustLocks, SyncLocks, SettleLocks,
                 ListLocks, WithdrawLocks, Settling
<1> QED BY <1>3, <1>4, HeldAt

\* What a settlement goes through next is a listing of its market.
LEMMA ListingsAt ==
  ASSUME NEW c \in Call, CallFits(c), at[c] = "listings", NEW w \in Wants(c)
  PROVE  /\ <<MarketRow(job[c].market), "update">> \in holds[c]
         /\ \E l \in ListingsOn(job[c].market, db) : w[1] = ListingRow(l)
<1>1. /\ JobFits(job[c], at[c], db) /\ QueryFits(job[c], at[c], got[c], db)
      /\ LocksFit(job[c], at[c], c \in second, holds[c], db)
  BY DEF CallFits, Fits, Idle
<1>2. job[c].op \in Op
  BY <1>1 DEF JobFits, Job, Op
<1>3. job[c].op \in Settling /\ <<MarketRow(job[c].market), "update">> \in holds[c]
  BY <1>1, <1>2 DEF Op, LocksFit, BetLocks, CreateLocks, AdjustLocks, SyncLocks,
                    SettleLocks, ListLocks, WithdrawLocks, BuyLocks, Settling
<1>4. got[c] # <<>> /\ w = <<ListingRow(Head(got[c])), "nokey">>
  BY DEF Wants
<1>5. Head(got[c]) \in ListingsOn(job[c].market, db)
  BY <1>1, <1>3, <1>4, HeadTailProperties DEF QueryFits
<1> QED BY <1>3, <1>4, <1>5

\* Purchases that wait for their second user: the one each waits for comes later
\* than the one before.
LEMMA PurchasesEnd ==
  ASSUME IInv, NEW S \in SUBSET Call,
         \A c \in S : /\ at[c] = "both" /\ Seller(c) # Buyer(c)
                      /\ Seller(c) \in Account /\ Buyer(c) \in Account
                      /\ \E d \in S : FirstUser(d) = SecondUser(c)
  PROVE  S = {}
<1>1. SUFFICES ASSUME S # {}
               PROVE  FALSE
  OBVIOUS
<1>2. \A c \in S : /\ FirstUser(c) \in Account /\ SecondUser(c) \in Account
                   /\ Before(FirstUser(c), SecondUser(c))
  BY OrderAssumption DEF FirstUser, SecondUser
<1>3. IsFiniteSet(Account)
  <2>1. IsFiniteSet(User)
    BY SizeAssumption
  <2> QED BY <2>1, FS_Singleton, FS_Union DEF Account
<1>4. PICK Sets : Sets = {After(c) : c \in S}
  OBVIOUS
<1>5. Sets # {} /\ Sets \subseteq FiniteSubsetsOf(Account)
  <2>1. ASSUME NEW c \in S
        PROVE  After(c) \subseteq Account /\ IsFiniteSet(After(c))
    <3>1. After(c) \subseteq Account
      BY DEF After
    <3> QED BY <1>3, <3>1, FS_Subset
  <2> QED BY <1>1, <1>4, <2>1 DEF FiniteSubsetsOf
<1>6. PICK B \in Sets : \A C \in Sets : C \subseteq B => C = B
  BY <1>5, SmallestSet
<1>7. PICK c \in S : B = After(c)
  BY <1>4, <1>6
<1>8. PICK d \in S : FirstUser(d) = SecondUser(c)
  BY <1>7
<1>9. Before(SecondUser(c), SecondUser(d))
  BY <1>2, <1>8
<1>10. After(d) \subseteq After(c)
  BY <1>2, <1>9, OrderAssumption DEF After
<1>11. SecondUser(d) \in After(c) /\ SecondUser(d) \notin After(d)
  BY <1>2, <1>9, OrderAssumption DEF After
<1> QED BY <1>4, <1>6, <1>7, <1>10, <1>11

\* DeadlocksAreSettlements: in any other circle no member could wait, from the
\* last of the tables in the order of the locks to the first.
LEMMA CirclesPay == IInv => DeadlocksAreSettlements
<1>1. SUFFICES ASSUME IInv, NEW S \in SUBSET Call, Circular(S),
                      \A c \in S : ~(Settles(c) /\ at[c] \in {"pay", "house"})
               PROVE  FALSE
  BY DEF DeadlocksAreSettlements
<1>2. \A c \in S : c \in Call /\ CallFits(c)
  BY <1>1 DEF IInv
<1>3. S # {} /\ \A c \in S : \E d \in S : Waits(c, d)
  BY <1>1 DEF Circular
<1>4. \A c \in S : at[c] \notin {"commit", "insert", "pay", "house"} \cup Idle
  BY <1>1, <1>2, <1>3, PayingAt, WaitingAt
\* Nobody waits for a pool or a user.
<1>5. \A c \in S : at[c] # "pool"
  <2>1. SUFFICES ASSUME NEW c \in S, at[c] = "pool"
                 PROVE  FALSE
    OBVIOUS
  <2>2. PICK d \in S : Waits(c, d)
    BY <1>3
  <2>3. PICK w \in Wants(c), h \in holds[d] : w[1] = h[1]
    BY <1>2, <2>1, <2>2, WaitsFor
  <2>4. Table(w[1]) = "pools"
    BY <2>1, <2>3, Tables DEF Wants
  <2> QED BY <1>2, <1>4, <2>3, <2>4, HeldAt
<1>6. \A c \in S : at[c] = "write" => job[c].op # "adjust"
  <2>1. SUFFICES ASSUME NEW c \in S, at[c] = "write", job[c].op = "adjust"
                 PROVE  FALSE
    OBVIOUS
  <2>2. PICK d \in S : Waits(c, d)
    BY <1>3
  <2>3. PICK w \in Wants(c), h \in holds[d] : w[1] = h[1]
    BY <1>2, <2>1, <2>2, WaitsFor
  <2>4. w[1] = UserRow(job[c].user)
    BY <2>1, <2>3 DEF Wants
  <2>5. <<UserRow(job[c].user), "update">> \in holds[c]
    BY <1>2, <2>1 DEF CallFits, Fits, LocksFit, AdjustLocks, Idle
  <2>6. c # d
    BY <2>2 DEF Waits
  <2> QED BY <1>1, <1>2, <2>3, <2>4, <2>5, <2>6, UpdateExcludes
<1>7. \A d \in S : \A h \in holds[d] : Table(h[1]) = "users" =>
        at[d] = "both" /\ Seller(d) # Buyer(d) /\ h[1] = UserRow(FirstUser(d))
  BY <1>2, <1>4, <1>5, <1>6, HeldAt
<1>8. \A c \in S : at[c] # "both"
  <2> DEFINE P == {c \in S : at[c] = "both"}
  <2>1. ASSUME NEW c \in P
        PROVE  \E d \in P : Seller(d) # Buyer(d) /\ FirstUser(d) = SecondUser(c)
    <3>1. c \in S /\ at[c] = "both"
      BY <2>1
    <3>2. PICK d \in S : Waits(c, d)
      BY <1>3, <3>1
    <3>3. PICK w \in Wants(c), h \in holds[d] : w[1] = h[1]
      BY <1>2, <3>1, <3>2, WaitsFor
    <3>4. w[1] = UserRow(SecondUser(c))
      BY <3>1, <3>3 DEF Wants
    <3>5. Table(h[1]) = "users"
      BY <3>3, <3>4, Tables
    <3>6. at[d] = "both" /\ Seller(d) # Buyer(d) /\ h[1] = UserRow(FirstUser(d))
      BY <1>7, <3>5
    <3> QED BY <3>3, <3>4, <3>6, Tables
  <2>2. ASSUME NEW c \in P
        PROVE  Seller(c) # Buyer(c) /\ Seller(c) \in Account /\ Buyer(c) \in Account
    <3>1. /\ JobFits(job[c], at[c], db)
          /\ LocksFit(job[c], at[c], c \in second, holds[c], db)
      BY <1>2, <2>2 DEF CallFits, Fits, Idle
    <3>2. job[c].op \in Op
      BY <3>1 DEF JobFits, Job, Op
    <3>3. job[c].op = "buy" /\ Seller(c) # Buyer(c)
      BY <3>1, <3>2, <2>2
         DEF Op, LocksFit, BetLocks, CreateLocks, AdjustLocks, SyncLocks, SettleLocks,
             ListLocks, WithdrawLocks, BuyLocks, Settling, Seller, Buyer, SellerIn, BuyerIn
    <3>4. job[c].user \in Account /\ job[c].listing \in ListingId
          /\ db[ListingRow(job[c].listing)] # Absent
      BY <3>1, <3>3 DEF JobFits, Job
    <3>5. db[ListingRow(job[c].listing)] \in Engine!ListingRow
      BY <1>1, <3>4 DEF IInv, DatabaseFits
    <3> QED BY <3>3, <3>4, <3>5 DEF Seller, Buyer, Account, Engine!ListingRow, Engine!Account
  <2>3. P \in SUBSET Call
    OBVIOUS
  <2> HIDE DEF P
  <2>4. P = {}
    <3>1. \A c \in P : at[c] = "both"
      BY DEF P
    <3> QED BY <1>1, <2>1, <2>2, <2>3, <3>1, PurchasesEnd
  <2> QED BY <2>4 DEF P
<1>9. \A c \in S, d \in S : Waits(c, d) =>
        \/ \E w \in Wants(c), h \in holds[d] : w[1] = h[1] /\ Table(w[1]) # "users"
        \/ at[c] = "offer" /\ \E l \in OfferedBy(job[c].bet) : ListingRow(l) \in DOMAIN wrote[d]
  BY <1>2, <1>7, <1>8, WaitsFor
\* Nobody waits for a bet: its holder would be listing it or paying for it.
<1>10. \A c \in S : at[c] # "offer"
  <2>1. SUFFICES ASSUME NEW c \in S, at[c] = "offer"
                 PROVE  FALSE
    OBVIOUS
  <2>2. PICK d \in S : Waits(c, d)
    BY <1>3
  <2>3. \A w \in Wants(c) : Table(w[1]) = "users"
    BY <2>1, Tables DEF Wants
  <2>4. PICK l \in OfferedBy(job[c].bet) : ListingRow(l) \in DOMAIN wrote[d]
    BY <1>9, <2>2, <2>3
  <2>5. /\ <<MarketRow(job[d].market), "update">> \in holds[d]
        /\ \E k \in ListingsOn(job[d].market, db) : ListingRow(l) = ListingRow(k)
    BY <1>2, <1>4, <2>4, Tables, WroteAt
  <2>6. db[ListingRow(l)] # Absent /\ db[ListingRow(l)].market = job[d].market
    BY <2>5, Tables DEF ListingsOn
  <2>7. l \in ListingId /\ db[ListingRow(l)].bet = job[c].bet
    BY <2>4 DEF OfferedBy
  <2>8. db[BetRow(job[c].bet)].market = job[d].market
    BY <1>1, <2>6, <2>7 DEF IInv, DatabaseFits
  <2>9. <<MarketRow(job[d].market), "share">> \in holds[c]
    BY <1>2, <2>1, <2>8, OfferAt
  <2>10. c # d
    BY <2>2 DEF Waits
  <2> QED BY <1>1, <1>2, <2>5, <2>9, <2>10, UpdateExcludes
<1>11. \A c, d \in S : Waits(c, d) =>
         \E w \in Wants(c), h \in holds[d] :
           w[1] = h[1] /\ Table(w[1]) \in {"bet_listings", "markets"}
  <2>1. ASSUME NEW c \in S, NEW d \in S, Waits(c, d)
        PROVE  \E w \in Wants(c), h \in holds[d] :
                 w[1] = h[1] /\ Table(w[1]) \in {"bet_listings", "markets"}
    <3>1. PICK w \in Wants(c), h \in holds[d] : w[1] = h[1] /\ Table(w[1]) # "users"
      BY <1>9, <1>10, <2>1
    <3>2. Table(w[1]) # "pools"
      BY <1>2, <1>5, <3>1, WantedAt
    <3>3. Table(w[1]) # "bets"
      <4>1. at[d] \notin {"offer", "both"} /\ at[d] # "commit"
        BY <1>4, <1>8, <1>10
      <4>2. at[d] # "first"
        <5>1. at[d] = "first" => \A v \in Wants(d) : Table(v[1]) = "users"
          BY Tables DEF Wants
        <5>2. PICK e \in S : Waits(d, e)
          BY <1>3
        <5>3. Waits(d, e) =>
                \E v \in Wants(d), g \in holds[e] : v[1] = g[1] /\ Table(v[1]) # "users"
          BY <1>9, <1>10, <5>2
        <5> QED BY <5>1, <5>2, <5>3
      <4> QED BY <1>2, <3>1, <4>1, <4>2, HeldAt
    <3> QED BY <1>2, <3>1, <3>2, <3>3, WantedAt
  <2> QED BY <2>1
<1>12. \A c \in S : at[c] \in {"listing", "closed", "listings",
                               "market", "betMarket", "listingMarket"}
  BY <1>2, <1>3, <1>11, WantedAt
\* Nobody waits for a listing: its holder would be a settlement that waits for another
\* listing of its market, which is its own.
<1>13. \A c, d \in S : Waits(c, d) /\ at[c] \in {"listing", "closed", "listings"} =>
         /\ at[d] = "listings" /\ <<MarketRow(job[d].market), "update">> \in holds[d]
         /\ \E w \in Wants(c), l \in ListingsOn(job[d].market, db) : w[1] = ListingRow(l)
  <2>1. SUFFICES ASSUME NEW c \in S, NEW d \in S, Waits(c, d),
                        at[c] \in {"listing", "closed", "listings"}
                 PROVE  /\ at[d] = "listings"
                        /\ <<MarketRow(job[d].market), "update">> \in holds[d]
                        /\ \E w \in Wants(c), l \in ListingsOn(job[d].market, db) :
                             w[1] = ListingRow(l)
    OBVIOUS
  <2>2. PICK w \in Wants(c), h \in holds[d] :
               w[1] = h[1] /\ Table(w[1]) \in {"bet_listings", "markets"}
    BY <1>11, <2>1
  <2>3. Table(h[1]) = "bet_listings"
    BY <1>2, <2>1, <2>2, WantedAt
  <2>4. at[d] \notin {"commit", "soldBet", "first", "both", "pay", "house"}
    BY <1>12
  <2>5. /\ at[d] = "listings" /\ <<MarketRow(job[d].market), "update">> \in holds[d]
        /\ \E l \in ListingsOn(job[d].market, db) : h[1] = ListingRow(l)
    BY <1>2, <2>2, <2>3, <2>4, HeldAt
  <2> QED BY <2>2, <2>5
<1>14. \A c \in S : at[c] # "listings"
  <2>1. SUFFICES ASSUME NEW c \in S, at[c] = "listings"
                 PROVE  FALSE
    OBVIOUS
  <2>2. PICK d \in S : Waits(c, d)
    BY <1>3
  <2>3. PICK w \in Wants(c), l \in ListingsOn(job[d].market, db) : w[1] = ListingRow(l)
    BY <1>13, <2>1, <2>2
  <2>4. /\ <<MarketRow(job[c].market), "update">> \in holds[c]
        /\ \E k \in ListingsOn(job[c].market, db) : w[1] = ListingRow(k)
    BY <1>2, <2>1, <2>3, ListingsAt
  <2>5. job[c].market = job[d].market
    BY <2>3, <2>4, Tables DEF ListingsOn
  <2>6. <<MarketRow(job[c].market), "update">> \in holds[d] /\ c # d
    BY <1>13, <2>1, <2>2, <2>5 DEF Waits
  <2> QED BY <1>1, <1>2, <2>4, <2>6, UpdateExcludes
<1>15. \A c \in S : at[c] \in {"market", "betMarket", "listingMarket"}
  BY <1>3, <1>12, <1>13, <1>14
\* So everybody waits for a market, and who holds one is past that.
<1>16. PICK c \in S, d \in S : Waits(c, d)
  BY <1>3
<1>17. PICK w \in Wants(c), h \in holds[d] :
             w[1] = h[1] /\ Table(w[1]) \in {"bet_listings", "markets"}
  BY <1>11, <1>16
<1>18. Table(h[1]) = "markets"
  BY <1>2, <1>15, <1>17, WantedAt
<1> QED BY <1>2, <1>15, <1>18, HeldAt

-----------------------------------------------------------------------------
(* Calls that go on *)

\* A row that is written is there, or is being made and unknown to everybody else.
Fresh(j, row) ==
  \/ row \in BetRows \cup ListingRows /\ ~Written(row)
  \/ Creates(j, row)

\* A call that goes on keeps apart from the others: it has waited for those whose
\* locks exclude its own, and what it writes it has locked or made.
LEMMA StaysApart ==
  ASSUME IInv, NEW c \in Call, NEW rows, NEW statement, GoOn(c, statement, rows),
         at[c] \notin Idle, statement \notin Idle, ~\E d \in Call : Waits(c, d),
         \A row \in DOMAIN rows :
           Updates(row, holds[c] \cup Wants(c), db) \/ Fresh(job[c], row)
  PROVE  \A d \in Call \ {c} : Apart(c, d)'
<1>1. SUFFICES ASSUME NEW d \in Call \ {c}
               PROVE  Apart(c, d)'
  OBVIOUS
<1>2. /\ CallFits(c) /\ CallFits(d) /\ Apart(c, d) /\ DatabaseFits(db) /\ Shapes
  BY DEF IInv
<1>3. /\ holds'[c] = holds[c] \cup Wants(c) /\ holds'[d] = holds[d]
      /\ wrote'[c] = Over(rows, wrote[c]) /\ wrote'[d] = wrote[d]
      /\ job' = job /\ at'[d] = at[d] /\ at'[c] = statement
  BY <1>2 DEF GoOn, Shapes
<1>4. Compatible(holds'[c], holds'[d])
  <2>1. \A w \in Wants(c), h \in holds[d] : w[1] = h[1] => ~Conflicts(w[2], h[2])
    BY <1>1 DEF Waits
  <2> QED BY <1>2, <1>3, <2>1 DEF Apart, Compatible
<1>5. \A h \in holds'[c] \cup holds'[d] : h[2] \in Mode
  BY <1>2, <1>3, LocksTyped, WantedModes
<1>6. DOMAIN wrote'[c] = DOMAIN rows \cup DOMAIN wrote[c]
  BY <1>3 DEF Over
<1>7. ASSUME NEW row \in DOMAIN rows, row \in DOMAIN wrote[d]
      PROVE  FALSE
  <2>0. wrote[d] # <<>>
    BY <1>7
  <2>1. at[d] \notin Idle
    BY <1>2, <2>0 DEF CallFits, Fits
  <2>2. /\ JobFits(job[d], at[d], db) /\ JobFits(job[c], at[c], db)
        /\ WritesFit(job[d], at[d], holds[d], wrote[d], db)
    BY <1>2, <2>1 DEF CallFits, Fits, Idle
  <2>3. Updates(row, holds[d], db) \/ Inserts(job[d], row, db)
    BY <1>7, <2>2 DEF WritesFit
  <2>4. /\ Creates(job[c], row) => db[MarketRow(job[c].market)] = Absent
                                  /\ job[c].market \in Market
        /\ Creates(job[d], row) => db[MarketRow(job[d].market)] = Absent
                                  /\ job[d].market \in Market
        /\ Creates(job[c], row) /\ Creates(job[d], row) => job[c].market # job[d].market
    BY <1>2, <2>1, <2>2, JobTyped DEF Creates, JobFits, Apart, Idle
  <2>5. ~ (Creates(job[c], row) /\ Creates(job[d], row))
    BY <2>4, Tables DEF Creates
  <2>6. \A j \in {job[c], job[d]} : Creates(j, row) =>
          ~Known(row, db) /\ row \notin BetRows \cup ListingRows
    <3>1. \A j \in {job[c], job[d]} : Creates(j, row) =>
            \/ row \in MarketRows /\ db[row] = Absent
            \/ \E o \in Outcome : /\ row = PoolRow(j.market, o) /\ j.market \in Market
                                  /\ db[MarketRow(j.market)] = Absent
      BY <2>4 DEF Creates, MarketRows
    <3> QED BY <3>1, Tables DEF Known, BetRows, ListingRows, MarketRows
  <2>7. ~ (Updates(row, holds'[c], db) /\ Updates(row, holds[d], db))
    <3>1. SUFFICES ASSUME Updates(row, holds'[c], db), Updates(row, holds[d], db)
                   PROVE  FALSE
      OBVIOUS
    <3>2. PICK x \in {"nokey", "update"} : <<row, x>> \in holds'[c]
      BY <3>1 DEF Updates
    <3>3. PICK y \in {"nokey", "update"} : <<row, y>> \in holds'[d]
      BY <1>3, <3>1 DEF Updates
    <3>4. ~Conflicts(x, y)
      BY <1>4, <3>2, <3>3 DEF Compatible
    <3> QED BY <3>2, <3>3, <3>4 DEF Conflicts
  <2>8. CASE Updates(row, holds'[c], db)
    <3>1. Inserts(job[d], row, db) /\ Known(row, db)
      BY <2>3, <2>7, <2>8 DEF Updates
    <3> QED BY <2>6, <3>1 DEF Inserts, Known
  <2>9. CASE row \in BetRows \cup ListingRows /\ ~Written(row)
    BY <1>7, <2>9 DEF Written
  <2>10. CASE Creates(job[c], row)
    BY <2>3, <2>5, <2>6, <2>10 DEF Updates, Inserts
  <2> QED BY <1>3, <1>7, <2>8, <2>9, <2>10 DEF Fresh
<1>8. DOMAIN wrote'[c] \cap DOMAIN wrote'[d] = {}
  BY <1>2, <1>3, <1>6, <1>7 DEF Apart
<1>9. at'[c] \notin {"new", "end"} /\ at'[d] \notin {"new", "end"}
      /\ job'[c].op = "create" /\ job'[d].op = "create" => job'[c].market # job'[d].market
  BY <1>2, <1>3 DEF Apart, Idle
<1> QED BY <1>4, <1>8, <1>9 DEF Apart

\* What is written: rows by a statement, in front of those by earlier ones.
LEMMA WritesAdd ==
  ASSUME NEW j, NEW st, NEW statement, NEW H, NEW G, NEW W, NEW D, NEW rows,
         WritesFit(j, st, H, W, D), H \subseteq G, st # "commit",
         j.op = "buy" /\ statement # "commit" => DOMAIN rows = {},
         \A row \in DOMAIN rows :
           /\ row \in Row /\ ValueFits(row, rows[row], D)
           /\ Updates(row, G, D) \/ (statement = "commit" /\ Inserts(j, row, D))
  PROVE  WritesFit(j, statement, G, Over(rows, W), D)
<1>1. PICK V : V = Over(rows, W)
  OBVIOUS
<1>2. /\ DOMAIN V = DOMAIN rows \cup DOMAIN W
      /\ \A row \in DOMAIN rows : V[row] = rows[row]
      /\ \A row \in DOMAIN W \ DOMAIN rows : V[row] = W[row]
  BY <1>1 DEF Over
<1>3. ASSUME NEW row \in DOMAIN V
      PROVE  /\ row \in Row /\ ValueFits(row, V[row], D)
             /\ Updates(row, G, D) \/ (statement = "commit" /\ Inserts(j, row, D))
  <2>1. CASE row \in DOMAIN rows
    BY <1>2, <2>1
  <2>2. CASE row \notin DOMAIN rows
    BY <1>2, <1>3, <2>2 DEF WritesFit, Updates
  <2> QED BY <2>1, <2>2
<1>4. j.op = "buy" /\ statement # "commit" => DOMAIN V = {}
  BY <1>2 DEF WritesFit
<1> QED BY <1>1, <1>3, <1>4 DEF WritesFit

\* A call that executes a statement of its transaction.
LEMMA GoesOn ==
  ASSUME IInv, NEW c \in Call, NEW rows, NEW statement, NEW query,
         GoOn(c, statement, rows), got' = [got EXCEPT ![c] = query],
         at[c] \notin Idle \cup {"commit"}, statement \notin Idle,
         ~\E d \in Call : Waits(c, d),
         LocksFit(job[c], statement, c \in second, holds[c] \cup Wants(c), db),
         QueryFits(job[c], statement, query, db),
         job[c].op = "buy" /\ statement # "commit" => DOMAIN rows = {},
         \A row \in DOMAIN rows :
           /\ row \in Row /\ ValueFits(row, rows[row], db)
           /\ \/ Updates(row, holds[c] \cup Wants(c), db)
              \/ statement = "commit" /\ Fresh(job[c], row)
  PROVE  IInv'
<1>1. /\ CallFits(c) /\ DatabaseFits(db) /\ Shapes
  BY DEF IInv
<1>2. /\ holds'[c] = holds[c] \cup Wants(c) /\ wrote'[c] = Over(rows, wrote[c])
      /\ at'[c] = statement /\ got'[c] = query
      /\ job' = job /\ second' = second /\ db' = db
  BY <1>1 DEF GoOn, Shapes
<1>3. Others(c)
  BY <1>1 DEF GoOn, Shapes, Others
<1>4. Shapes'
  BY <1>1 DEF GoOn, Shapes
<1>5. Connected' = Connected
  BY <1>2, <1>3 DEF Connected, Others, Idle
<1>6. /\ job[c] # Absent /\ JobFits(job[c], at[c], db)
      /\ WritesFit(job[c], at[c], holds[c], wrote[c], db)
      /\ c \in second => job[c].op \in {"resolve", "buy"}
  BY <1>1, JobTyped DEF CallFits, Fits, Idle
<1>7. JobFits(job[c], statement, db)
  BY <1>6 DEF JobFits, Idle
<1>8. WritesFit(job[c], statement, holds[c] \cup Wants(c), Over(rows, wrote[c]), db)
  <2>1. \A row : Fresh(job[c], row) => Inserts(job[c], row, db)
    BY <1>6 DEF Fresh, Inserts, Creates, Written, JobFits, Idle
  <2> QED BY <1>6, <2>1, WritesAdd
<1>9. CallFits(c)'
  <2>1. Fits(job[c], statement, c \in second, query, holds[c] \cup Wants(c),
             Over(rows, wrote[c]), db)
    BY <1>6, <1>7, <1>8 DEF Fits, Idle
  <2>2. Fits(job'[c], at'[c], c \in second', got'[c], holds'[c], wrote'[c], db')
    BY <1>2, <2>1
  <2> QED BY <2>2 DEF CallFits
<1>10. \A d \in Call \ {c} : Apart(c, d)'
  BY StaysApart
<1>11. ASSUME NEW d \in Call \ {c}
       PROVE  Apart(d, c)'
  <2>1. \A e \in Call : CallFits(e)'
    BY <1>2, <1>3, <1>9, OthersFit
  <2>2. DatabaseFits(db)'
    BY <1>1, <1>2
  <2>3. Compatible(holds'[c], holds'[d]) /\ DOMAIN wrote'[c] \cap DOMAIN wrote'[d] = {}
    BY <1>10 DEF Apart
  <2>4. \A h \in holds'[c] \cup holds'[d] : h[2] \in Mode
    <3>1. \A h \in holds'[c] : h[2] \in Mode
      BY <1>1, <1>2, LocksTyped, WantedModes
    <3>2. CallFits(d) /\ holds'[d] = holds[d]
      BY <1>3 DEF IInv, Others
    <3> QED BY <1>1, <3>1, <3>2, LocksTyped
  <2>5. Compatible(holds'[d], holds'[c])
    BY <2>3, <2>4, Symmetric DEF Compatible
  <2> QED BY <1>10, <2>3, <2>5 DEF Apart
<1> QED
  <2>1. \A d \in Call : CallFits(d)'
    BY <1>2, <1>3, <1>9, OthersFit
  <2>2. \A d, e \in Call : d # e => Apart(d, e)'
    BY <1>3, <1>10, <1>11, OthersApart
  <2>3. DatabaseFits(db)' /\ (Cardinality(Connected) <= Connections)'
    BY <1>1, <1>2, <1>5 DEF IInv
  <2> QED BY <1>4, <2>1, <2>2, <2>3 DEF IInv

-----------------------------------------------------------------------------
(* Calls that end *)

\* The pool of connections is not exceeded by calls that return one.
LEMMA CardinalityKept ==
  ASSUME IInv, Connected' \subseteq Connected
  PROVE  (Cardinality(Connected) <= Connections)'
<1>1. PICK X, Y : X = Connected /\ Y = Connected'
  OBVIOUS
<1>2. IsFiniteSet(X) /\ Y \subseteq X /\ Cardinality(X) <= Connections
  BY <1>1, SizeAssumption, FS_Subset DEF Connected, IInv
<1>3. /\ Cardinality(Y) <= Cardinality(X) /\ IsFiniteSet(Y)
      /\ Cardinality(X) \in Nat /\ Cardinality(Y) \in Nat
  BY <1>2, FS_Subset, FS_CardinalityType
<1>4. Cardinality(Y) <= Connections
  BY <1>2, <1>3, SizeAssumption
<1> QED BY <1>1, <1>4

\* A call that rolls back, for good or before its second transaction.
LEMMA Ends ==
  ASSUME IInv, NEW c \in Call, NEW statement, EndTransaction(c, statement), db' = db,
         at[c] \notin Idle,
         \/ statement = "end" /\ second' = second \ {c}
         \/ /\ statement = "again" /\ second' = second \cup {c}
            /\ job[c].op \in {"resolve", "buy"}
  PROVE  IInv'
<1>1. /\ CallFits(c) /\ DatabaseFits(db) /\ Shapes
  BY DEF IInv
<1>2. /\ holds'[c] = {} /\ wrote'[c] = <<>> /\ at'[c] = statement /\ got'[c] = <<>>
      /\ job' = job
      /\ c \in second' <=> statement = "again"
  BY <1>1 DEF EndTransaction, Keep, Shapes
<1>3. Others(c)
  BY <1>1 DEF EndTransaction, Keep, Shapes, Others
<1>4. Shapes'
  BY <1>1 DEF EndTransaction, Keep, Shapes
<1>5. (Cardinality(Connected) <= Connections)'
  <2>1. Connected' \subseteq Connected
    BY <1>2, <1>3 DEF Connected, Others, Idle
  <2> QED BY <2>1, CardinalityKept
<1>6. JobFits(job[c], at[c], db)
  BY <1>1 DEF CallFits, Fits, Idle
<1>7. Fits(job'[c], at'[c], c \in second', got'[c], holds'[c], wrote'[c], db')
  <2>1. JobFits(job[c], statement, db)
    BY <1>6 DEF JobFits, Idle
  <2>2. JobFits(job'[c], at'[c], db')
    BY <1>2, <2>1
  <2>3. /\ at'[c] \in {"again", "end"} /\ holds'[c] = {} /\ wrote'[c] = <<>>
        /\ c \in second' => at'[c] # "end" /\ job'[c].op \in {"resolve", "buy"}
        /\ at'[c] = "again" => c \in second'
    BY <1>2
  <2> QED BY <2>2, <2>3 DEF Fits, Idle
<1>8. \A d \in Call : Apart(c, d)' /\ Apart(d, c)'
  <2>1. at'[c] = "end" \/ job'[c].op # "create"
    BY <1>2
  <2>2. DOMAIN wrote'[c] = {}
    BY <1>2
  <2> QED BY <1>2, <2>1, <2>2 DEF Apart, Compatible
<1> QED BY <1>1, <1>3, <1>4, <1>5, <1>7, <1>8, OthersFit, OthersApart DEF IInv, CallFits

\* Rows are only added, and what ties them to each other stays.
Grows(D, E) ==
  /\ \A row \in BetRows \cup ListingRows \cup MarketRows :
       D[row] # Absent => E[row] # Absent
  /\ \A b \in BetId : D[BetRow(b)] # Absent => E[BetRow(b)].market = D[BetRow(b)].market
  /\ \A l \in ListingId : D[ListingRow(l)] # Absent =>
       /\ E[ListingRow(l)].bet = D[ListingRow(l)].bet
       /\ E[ListingRow(l)].market = D[ListingRow(l)].market
       /\ E[ListingRow(l)].seller = D[ListingRow(l)].seller

\* A call is not disturbed by rows that come and are not its own.
LEMMA GrownFits ==
  ASSUME NEW j, NEW st, NEW two, NEW q, NEW H, NEW W, NEW D, NEW E,
         Fits(j, st, two, q, H, W, D), DatabaseFits(D), Grows(D, E),
         \A row \in DOMAIN W :
           row \in BetRows \cup ListingRows /\ D[row] = Absent => E[row] = Absent,
         j.op = "create" /\ st \notin {"new", "end"} => E[MarketRow(j.market)] = Absent
  PROVE  Fits(j, st, two, q, H, W, E)
<1>0. /\ \A x \in BetId : BetRow(x) \in BetRows
      /\ \A x \in ListingId : ListingRow(x) \in ListingRows
      /\ \A x \in Market : MarketRow(x) \in MarketRows
  BY DEF BetRows, ListingRows, MarketRows
<1>1. ASSUME st # "new"
      PROVE  JobFits(j, st, E)
  <2>1. JobFits(j, st, D)
    BY <1>1 DEF Fits
  <2> QED BY <1>0, <1>1, <2>1, JobTyped DEF JobFits, Grows, Settling
<1>2. ASSUME st \notin Idle
      PROVE  LocksFit(j, st, two, H, E) /\ QueryFits(j, st, q, E) /\ WritesFit(j, st, H, W, E)
  <2>1. /\ JobFits(j, st, D) /\ LocksFit(j, st, two, H, D)
        /\ QueryFits(j, st, q, D) /\ WritesFit(j, st, H, W, D)
    BY <1>2 DEF Fits, Idle
  <2>2. \A m : ListingsOn(m, D) \subseteq ListingsOn(m, E)
    BY <1>0 DEF ListingsOn, Grows
  <2>3. LocksFit(j, st, two, H, E)
    <3>1. j.op \in Settling => SettleLocks(j, st, H, E)
      BY <2>1, <2>2 DEF LocksFit, SettleLocks
    <3>2. j.op = "list" => ListLocks(j, st, H, E)
      <4>1. j.op = "list" => E[BetRow(j.bet)].market = D[BetRow(j.bet)].market
        BY <2>1, JobTyped DEF Grows
      <4> QED BY <2>1, <4>1 DEF LocksFit, ListLocks
    <3>3. j.op = "buy" => BuyLocks(j, st, two, H, E)
      <4>1. j.op = "buy" => /\ E[ListingRow(j.listing)].market = D[ListingRow(j.listing)].market
                            /\ E[ListingRow(j.listing)].bet = D[ListingRow(j.listing)].bet
                            /\ E[ListingRow(j.listing)].seller = D[ListingRow(j.listing)].seller
        BY <2>1, JobTyped DEF Grows
      <4> QED BY <2>1, <4>1 DEF LocksFit, BuyLocks, FirstIn, SecondIn, SellerIn, BuyerIn
    <3> QED BY <2>1, <3>1, <3>2, <3>3 DEF LocksFit
  <2>4. QueryFits(j, st, q, E)
    <3>1. \A m : q \in Seq(ListingsOn(m, D)) => q \in Seq(ListingsOn(m, E))
      BY <2>2
    <3> QED BY <2>1, <3>1 DEF QueryFits
  <2>5. WritesFit(j, st, H, W, E)
    <3>1. ASSUME NEW row \in DOMAIN W
          PROVE  /\ row \in Row /\ ValueFits(row, W[row], E)
                 /\ Updates(row, H, E) \/ (st = "commit" /\ Inserts(j, row, E))
      <4>1. /\ row \in Row /\ ValueFits(row, W[row], D)
            /\ Updates(row, H, D) \/ (st = "commit" /\ Inserts(j, row, D))
        BY <2>1, <3>1 DEF WritesFit
      <4>2. ValueFits(row, W[row], E)
        BY <1>0, <3>1, <4>1, ListingFits DEF ValueFits, Grows, Engine!ListingRow, BetRows, ListingRows
      <4>3. Known(row, D) => Known(row, E)
        BY <1>0 DEF Known, Grows
      <4>4. st = "commit" /\ Inserts(j, row, D) => Inserts(j, row, E)
        BY <3>1 DEF Inserts, Creates
      <4> QED BY <4>1, <4>2, <4>3, <4>4 DEF Updates
    <3> QED BY <2>1, <3>1 DEF WritesFit
  <2> QED BY <2>3, <2>4, <2>5
<1> QED BY <1>1, <1>2 DEF Fits

\* A commit keeps the tables as they should be.
LEMMA CommitGrows ==
  ASSUME NEW j, NEW st, NEW H, NEW W, NEW D, NEW E, WritesFit(j, st, H, W, D),
         DatabaseFits(D), E = Over(W, D)
  PROVE  DatabaseFits(E) /\ Grows(D, E)
<1>0. /\ \A x \in BetId : BetRow(x) \in BetRows /\ BetRow(x) \in Row
      /\ \A x \in ListingId : ListingRow(x) \in ListingRows /\ ListingRow(x) \in Row
      /\ \A x \in Market : MarketRow(x) \in MarketRows /\ MarketRow(x) \in Row
  BY RowsNamed DEF BetRows, ListingRows, MarketRows
<1>1. /\ DOMAIN D = Row /\ DOMAIN W \subseteq Row
      /\ \A row \in DOMAIN W : ValueFits(row, W[row], D)
  BY DEF WritesFit, DatabaseFits
<1>2. /\ DOMAIN E = Row
      /\ \A row \in DOMAIN W : E[row] = W[row]
      /\ \A row \in Row \ DOMAIN W : E[row] = D[row]
  BY <1>1 DEF Over
<1>3. ASSUME NEW m \in Market
      PROVE  /\ E[MarketRow(m)] \in MarketRecord \cup {Absent}
             /\ D[MarketRow(m)] # Absent => E[MarketRow(m)] # Absent
  BY <1>0, <1>1, <1>2, AbsentAssumption DEF ValueFits, DatabaseFits
<1>4. ASSUME NEW b \in BetId
      PROVE  /\ E[BetRow(b)] \in Engine!BetRow \cup {Absent}
             /\ D[BetRow(b)] # Absent => /\ E[BetRow(b)] # Absent
                                         /\ E[BetRow(b)].market = D[BetRow(b)].market
  BY <1>0, <1>1, <1>2, AbsentAssumption DEF ValueFits, DatabaseFits
<1>5. ASSUME NEW l \in ListingId
      PROVE  /\ E[ListingRow(l)] # Absent =>
                  /\ E[ListingRow(l)] \in Engine!ListingRow
                  /\ E[BetRow(E[ListingRow(l)].bet)] # Absent
                  /\ E[BetRow(E[ListingRow(l)].bet)].market = E[ListingRow(l)].market
             /\ D[ListingRow(l)] # Absent =>
                  /\ E[ListingRow(l)] # Absent
                  /\ E[ListingRow(l)].bet = D[ListingRow(l)].bet
                  /\ E[ListingRow(l)].market = D[ListingRow(l)].market
                  /\ E[ListingRow(l)].seller = D[ListingRow(l)].seller
  <2>1. CASE ListingRow(l) \notin DOMAIN W
    <3>1. E[ListingRow(l)] = D[ListingRow(l)]
      BY <1>0, <1>2, <2>1
    <3> QED BY <1>4, <3>1, ListingFits
  <2>2. CASE ListingRow(l) \in DOMAIN W
    <3>1. PICK v : v = W[ListingRow(l)] /\ E[ListingRow(l)] = v
      BY <1>2, <2>2
    <3>2. /\ v \in Engine!ListingRow
          /\ D[BetRow(v.bet)] # Absent /\ D[BetRow(v.bet)].market = v.market
          /\ D[ListingRow(l)] # Absent => /\ v.bet = D[ListingRow(l)].bet
                                          /\ v.market = D[ListingRow(l)].market
                                          /\ v.seller = D[ListingRow(l)].seller
      BY <1>0, <1>1, <2>2, <3>1 DEF ValueFits
    <3>3. v.bet \in BetId /\ v # Absent
      BY <3>2, AbsentAssumption DEF Engine!ListingRow
    <3> QED BY <1>4, <3>1, <3>2, <3>3
  <2> QED BY <2>1, <2>2
<1>6. DatabaseFits(E)
  BY <1>2, <1>3, <1>4, <1>5 DEF DatabaseFits
<1>7. Grows(D, E)
  BY <1>3, <1>4, <1>5 DEF Grows, BetRows, ListingRows, MarketRows
<1> QED BY <1>6, <1>7

\* The writes of a transaction go into the tables at once.
LEMMA CommitStep ==
  ASSUME IInv, NEW c \in Call, Commit(c)
  PROVE  IInv'
<1>1. /\ CallFits(c) /\ DatabaseFits(db) /\ Shapes /\ at[c] = "commit"
  BY DEF IInv, Commit
<1>2. /\ holds'[c] = {} /\ wrote'[c] = <<>> /\ at'[c] = "end" /\ got'[c] = <<>>
      /\ job' = job /\ c \notin second' /\ db' = Over(wrote[c], db)
  BY <1>1 DEF Commit, EndTransaction, Keep, Shapes
<1>3. Others(c)
  BY <1>1 DEF Commit, EndTransaction, Keep, Shapes, Others
<1>4. Shapes'
  BY <1>1 DEF Commit, EndTransaction, Keep, Shapes
<1>5. (Cardinality(Connected) <= Connections)'
  <2>1. Connected' \subseteq Connected
    BY <1>2, <1>3 DEF Connected, Others, Idle
  <2> QED BY <2>1, CardinalityKept
<1>6. JobFits(job[c], at[c], db) /\ WritesFit(job[c], at[c], holds[c], wrote[c], db)
  BY <1>1 DEF CallFits, Fits, Idle
<1>7. PICK E : E = db'
  OBVIOUS
<1>8. DatabaseFits(E) /\ Grows(db, E)
  BY <1>1, <1>2, <1>6, <1>7, CommitGrows
<1>9. \A row \in Row \ DOMAIN wrote[c] : E[row] = db[row]
  BY <1>1, <1>2, <1>7 DEF Over, DatabaseFits
<1>10. ASSUME NEW d \in Call \ {c}
       PROVE  CallFits(d)'
  <2>1. Fits(job[d], at[d], d \in second, got[d], holds[d], wrote[d], db) /\ Apart(c, d)
    BY DEF IInv, CallFits
  <2>2. \A row \in DOMAIN wrote[d] :
          row \in BetRows \cup ListingRows /\ db[row] = Absent => E[row] = Absent
    <3>1. \A row \in BetRows \cup ListingRows : row \in Row
      BY RowsNamed DEF BetRows, ListingRows
    <3> QED BY <1>9, <2>1, <3>1 DEF Apart
  <2>3. job[d].op = "create" /\ at[d] \notin {"new", "end"} =>
          E[MarketRow(job[d].market)] = Absent
    <3>1. SUFFICES ASSUME job[d].op = "create", at[d] \notin {"new", "end"}
                   PROVE  E[MarketRow(job[d].market)] = Absent
      OBVIOUS
    <3>2. PICK m : m = job[d].market
      OBVIOUS
    <3>3. JobFits(job[d], at[d], db)
      BY <2>1, <3>1 DEF Fits
    <3>4. m \in Market /\ db[MarketRow(m)] = Absent
      BY <1>1, <3>1, <3>2, <3>3, JobTyped DEF JobFits
    <3>5. MarketRow(m) \in DOMAIN wrote[c] => Creates(job[c], MarketRow(m))
      <4>1. MarketRow(m) \in MarketRows /\ MarketRow(m) \notin BetRows \cup ListingRows
        BY <3>4, Tables DEF MarketRows, BetRows, ListingRows
      <4> QED BY <1>6, <3>4, <4>1 DEF WritesFit, Updates, Known, Inserts
    <3>6. ~Creates(job[c], MarketRow(m))
      BY <1>1, <2>1, <3>1, <3>2, Tables DEF Creates, Apart
    <3> QED BY <1>9, <3>2, <3>4, <3>5, <3>6, RowsNamed
  <2>4. Fits(job[d], at[d], d \in second, got[d], holds[d], wrote[d], E)
    BY <1>1, <1>8, <2>1, <2>2, <2>3, GrownFits
  <2>5. Fits(job'[d], at'[d], d \in second', got'[d], holds'[d], wrote'[d], E)
    BY <1>3, <2>4 DEF Others
  <2> QED BY <1>7, <2>5 DEF CallFits
<1>11. CallFits(c)'
  <2>1. JobFits(job[c], "end", E)
    BY <1>1, <1>6, <1>8, JobTyped
       DEF JobFits, Grows, BetRows, ListingRows, MarketRows, Settling
  <2>2. JobFits(job'[c], at'[c], db')
    BY <1>2, <1>7, <2>1
  <2> QED BY <1>2, <2>2 DEF CallFits, Fits, Idle
<1>12. \A d \in Call : Apart(c, d)' /\ Apart(d, c)'
  <2>1. DOMAIN wrote'[c] = {}
    BY <1>2
  <2> QED BY <1>2, <2>1 DEF Apart, Compatible
<1>13. DatabaseFits(db)'
  BY <1>7, <1>8
<1> QED BY <1>3, <1>4, <1>5, <1>10, <1>11, <1>12, <1>13, OthersApart DEF IInv

-----------------------------------------------------------------------------
(* What a statement writes *)

\* An UPDATE of a balance.
LEMMA UserWritten ==
  ASSUME NEW x \in Account, NEW v, NEW H, NEW D,
         <<UserRow(x), "nokey">> \in H \/ <<UserRow(x), "update">> \in H
  PROVE  /\ UserRow(x) \in Row /\ ValueFits(UserRow(x), v, D) /\ Updates(UserRow(x), H, D)
BY Tables, RowsNamed
   DEF ValueFits, Updates, Known, BetRows, ListingRows, MarketRows
\* Of a pool.
LEMMA PoolWritten ==
  ASSUME NEW m \in Market, NEW o \in Outcome, NEW v, NEW H, NEW D,
         <<PoolRow(m, o), "nokey">> \in H, D[MarketRow(m)] # Absent
  PROVE  /\ PoolRow(m, o) \in Row /\ ValueFits(PoolRow(m, o), v, D)
         /\ Updates(PoolRow(m, o), H, D)
BY Tables, RowsNamed
   DEF ValueFits, Updates, Known, BetRows, ListingRows, MarketRows
\* Of a market.
LEMMA MarketWritten ==
  ASSUME NEW m \in Market, NEW v \in MarketRecord, NEW H, NEW D,
         <<MarketRow(m), "update">> \in H, D[MarketRow(m)] # Absent
  PROVE  /\ MarketRow(m) \in Row /\ ValueFits(MarketRow(m), v, D)
         /\ Updates(MarketRow(m), H, D)
BY Tables, RowsNamed
   DEF ValueFits, Updates, Known, BetRows, ListingRows, MarketRows
\* Of a listing, in its status or buyer.
LEMMA ListingWritten ==
  ASSUME NEW l \in ListingId, NEW v \in Engine!ListingRow, NEW H, NEW D,
         <<ListingRow(l), "nokey">> \in H \/ <<ListingRow(l), "update">> \in H,
         DatabaseFits(D), D[ListingRow(l)] # Absent,
         v.bet = D[ListingRow(l)].bet, v.market = D[ListingRow(l)].market,
         v.seller = D[ListingRow(l)].seller
  PROVE  /\ ListingRow(l) \in Row /\ ValueFits(ListingRow(l), v, D)
         /\ Updates(ListingRow(l), H, D)
BY Tables, RowsNamed, ListingFits
   DEF ValueFits, Updates, Known, BetRows, ListingRows, MarketRows
\* Of a bet, in its owner.
LEMMA BetWritten ==
  ASSUME NEW b \in BetId, NEW v \in Engine!BetRow, NEW H, NEW D,
         <<BetRow(b), "update">> \in H, D[BetRow(b)] # Absent,
         v.market = D[BetRow(b)].market
  PROVE  /\ BetRow(b) \in Row /\ ValueFits(BetRow(b), v, D) /\ Updates(BetRow(b), H, D)
BY Tables, RowsNamed
   DEF ValueFits, Updates, Known, BetRows, ListingRows, MarketRows

\* An INSERT of a bet, and of a listing on a bet that is there.
LEMMA NewBetWritten ==
  ASSUME NEW b \in NewBets, NEW v \in Engine!BetRow, NEW j
  PROVE  BetRow(b) \in Row /\ ValueFits(BetRow(b), v, db) /\ Fresh(j, BetRow(b))
BY Tables, RowsNamed
   DEF NewBets, ValueFits, Fresh, Written, BetRows, ListingRows, MarketRows
LEMMA NewListingWritten ==
  ASSUME NEW l \in NewListings, NEW v \in Engine!ListingRow, NEW j,
         db[BetRow(v.bet)] # Absent, db[BetRow(v.bet)].market = v.market
  PROVE  ListingRow(l) \in Row /\ ValueFits(ListingRow(l), v, db)
         /\ Fresh(j, ListingRow(l))
BY Tables, RowsNamed
   DEF NewListings, ValueFits, Fresh, Written, BetRows, ListingRows, MarketRows
\* The rows of a new market.
LEMMA NewMarketWritten ==
  ASSUME NEW j, j.op = "create", j.market \in Market, NEW D
  PROVE  /\ \A v \in MarketRecord : ValueFits(MarketRow(j.market), v, D)
         /\ MarketRow(j.market) \in Row /\ Fresh(j, MarketRow(j.market))
         /\ \A v : \A o \in Outcome :
              /\ PoolRow(j.market, o) \in Row /\ ValueFits(PoolRow(j.market, o), v, D)
              /\ Fresh(j, PoolRow(j.market, o))
BY Tables, RowsNamed
   DEF ValueFits, Fresh, Creates, BetRows, ListingRows, MarketRows

\* One row, and rows in front of others.
LEMMA HoldingOne ==
  ASSUME NEW row, NEW v
  PROVE  DOMAIN Holding(row, v) = {row} /\ Holding(row, v)[row] = v
BY DEF Holding

LEMMA OverBoth ==
  ASSUME NEW f, NEW g
  PROVE  /\ DOMAIN Over(f, g) = DOMAIN f \cup DOMAIN g
         /\ \A x \in DOMAIN f \cup DOMAIN g :
              Over(f, g)[x] = f[x] \/ (x \in DOMAIN g /\ Over(f, g)[x] = g[x])
         /\ \A x \in DOMAIN f : Over(f, g)[x] = f[x]
BY DEF Over

\* What is known of a call that can execute its statement.
LEMMA Executing ==
  ASSUME IInv, NEW c \in Call, NEW ops, NEW statement, At(c, ops, statement),
         statement \notin Idle
  PROVE  /\ at[c] = statement /\ job[c].op \in ops /\ ~\E d \in Call : Waits(c, d)
         /\ JobFits(job[c], statement, db) /\ QueryFits(job[c], statement, got[c], db)
         /\ LocksFit(job[c], statement, c \in second, holds[c], db)
         /\ WritesFit(job[c], statement, holds[c], wrote[c], db)
         /\ c \in second => job[c].op \in {"resolve", "buy"}
         /\ DatabaseFits(db) /\ DOMAIN got = Call /\ got[c] = got[c]
BY DEF At, IInv, CallFits, Fits, Idle, Shapes

\* The two ways to roll back.
LEMMA FailStep ==
  ASSUME IInv, NEW c \in Call, at[c] \notin Idle, Fail(c)
  PROVE  IInv'
BY Ends DEF Fail

LEMMA RollBackStep ==
  ASSUME IInv, NEW c \in Call, at[c] \notin Idle, RollBack(c),
         job[c].op \in {"resolve", "buy"}
  PROVE  IInv'
BY Ends DEF RollBack

LEMMA NoRows == DOMAIN <<>> = {}
OBVIOUS

\* The rows that a call with the locks G writes and goes on to a statement.
RowsFit(j, statement, G, rows, D) ==
  \A row \in DOMAIN rows :
    /\ row \in Row /\ ValueFits(row, rows[row], D)
    /\ Updates(row, G, D) \/ (statement = "commit" /\ Fresh(j, row))

\* No row, one, and those of two.
LEMMA RowsNone ==
  ASSUME NEW j, NEW statement, NEW G, NEW D
  PROVE  RowsFit(j, statement, G, <<>>, D) /\ DOMAIN <<>> = {}
BY NoRows DEF RowsFit

LEMMA RowsOne ==
  ASSUME NEW j, NEW statement, NEW G, NEW D, NEW row \in Row, NEW v,
         ValueFits(row, v, D),
         Updates(row, G, D) \/ (statement = "commit" /\ Fresh(j, row))
  PROVE  RowsFit(j, statement, G, Holding(row, v), D)
<1>1. PICK f : f = Holding(row, v) /\ DOMAIN f = {row} /\ f[row] = v
  BY HoldingOne
<1>2. RowsFit(j, statement, G, f, D)
  BY <1>1 DEF RowsFit
<1> QED BY <1>1, <1>2

LEMMA RowsBoth ==
  ASSUME NEW j, NEW statement, NEW G, NEW D, NEW f, NEW g,
         RowsFit(j, statement, G, f, D), RowsFit(j, statement, G, g, D)
  PROVE  RowsFit(j, statement, G, Over(f, g), D)
<1>1. SUFFICES ASSUME NEW row \in DOMAIN Over(f, g)
               PROVE  /\ row \in Row /\ ValueFits(row, Over(f, g)[row], D)
                      /\ Updates(row, G, D) \/ (statement = "commit" /\ Fresh(j, row))
  BY DEF RowsFit
<1>2. CASE row \in DOMAIN f
  <2>1. Over(f, g)[row] = f[row]
    BY <1>2, OverBoth
  <2> QED BY <1>2, <2>1 DEF RowsFit
<1>3. CASE row \notin DOMAIN f
  <2>1. row \in DOMAIN g /\ Over(f, g)[row] = g[row]
    BY <1>1, <1>3 DEF Over
  <2> QED BY <2>1 DEF RowsFit
<1> QED BY <1>2, <1>3

\* A statement after which no query is gone through.
LEMMA GoesToNext ==
  ASSUME IInv, NEW c \in Call, NEW rows, NEW statement, GoOn(c, statement, rows),
         got' = got \/ \E query : Keep(c, query),
         at[c] \notin Idle \cup {"commit"}, statement \notin Idle,
         ~\E d \in Call : Waits(c, d),
         LocksFit(job[c], statement, c \in second, holds[c] \cup Wants(c), db),
         statement \notin {"listings", "pay"} \/ job[c].op \notin Settling,
         job[c].op = "buy" /\ statement # "commit" => DOMAIN rows = {},
         RowsFit(job[c], statement, holds[c] \cup Wants(c), rows, db)
  PROVE  IInv'
<1>1. \A query : QueryFits(job[c], statement, query, db)
  BY DEF QueryFits
<1>2. got = [got EXCEPT ![c] = got[c]]
  BY DEF IInv, Shapes
<1>3. PICK query : got' = [got EXCEPT ![c] = query]
  BY <1>2 DEF Keep
<1> QED BY <1>1, <1>3, GoesOn DEF RowsFit

-----------------------------------------------------------------------------
(* Bets, new markets and balances: each statement keeps the invariant *)

\* PlaceBet: the market, the bettor, the pool and the bet.
LEMMA BetMarketStep ==
  ASSUME IInv, NEW c \in Call, BetMarket(c)
  PROVE  IInv'
<1>1. At(c, {"bet"}, "market")
  BY DEF BetMarket
<1>2. /\ at[c] = "market" /\ job[c].op = "bet" /\ ~\E d \in Call : Waits(c, d)
      /\ LocksFit(job[c], at[c], c \in second, holds[c], db)
  BY <1>1, Executing DEF Idle
<1>3. LocksFit(job[c], "user", c \in second, holds[c] \cup Wants(c), db)
  BY <1>2 DEF LocksFit, BetLocks, Wants, Settling
<1>4. CASE GoOn(c, "user", <<>>) /\ UNCHANGED got
  BY <1>2, <1>3, <1>4, RowsNone, GoesToNext DEF Idle
<1> QED BY <1>2, <1>4, FailStep DEF BetMarket, Idle

LEMMA BetUserStep ==
  ASSUME IInv, NEW c \in Call, BetUser(c)
  PROVE  IInv'
<1>1. At(c, {"bet"}, "user")
  BY DEF BetUser
<1>2. /\ at[c] = "user" /\ job[c].op = "bet" /\ ~\E d \in Call : Waits(c, d)
      /\ LocksFit(job[c], at[c], c \in second, holds[c], db)
      /\ JobFits(job[c], at[c], db) /\ DatabaseFits(db)
  BY <1>1, Executing DEF Idle
<1>3. LocksFit(job[c], "pool", c \in second, holds[c] \cup Wants(c), db)
  BY <1>2 DEF LocksFit, BetLocks, Wants, Settling
<1>4. ASSUME NEW v
      PROVE  RowsFit(job[c], "pool", holds[c] \cup Wants(c),
                     Holding(UserRow(job[c].user), v), db)
  <2>1. job[c].user \in Account
    BY <1>2, JobTyped DEF Account
  <2>2. <<UserRow(job[c].user), "update">> \in holds[c] \cup Wants(c)
    BY <1>2 DEF Wants
  <2> QED BY <2>1, <2>2, UserWritten, RowsOne
<1>5. ASSUME NEW v, GoOn(c, "pool", Holding(UserRow(job[c].user), v)), UNCHANGED got
      PROVE  IInv'
  <2>1. PICK rows : rows = Holding(UserRow(job[c].user), v)
    OBVIOUS
  <2>2. RowsFit(job[c], "pool", holds[c] \cup Wants(c), rows, db) /\ GoOn(c, "pool", rows)
    BY <1>4, <1>5, <2>1
  <2> QED BY <1>2, <1>3, <1>5, <2>2, GoesToNext DEF Idle
<1> QED BY <1>2, <1>5, FailStep DEF BetUser, Idle

LEMMA BetPoolStep ==
  ASSUME IInv, NEW c \in Call, BetPool(c)
  PROVE  IInv'
<1>1. At(c, {"bet"}, "pool")
  BY DEF BetPool
<1>2. /\ at[c] = "pool" /\ job[c].op = "bet" /\ ~\E d \in Call : Waits(c, d)
      /\ LocksFit(job[c], at[c], c \in second, holds[c], db)
      /\ JobFits(job[c], at[c], db) /\ DatabaseFits(db)
  BY <1>1, Executing DEF Idle
<1>3. LocksFit(job[c], "commit", c \in second, holds[c] \cup Wants(c), db)
  BY <1>2 DEF LocksFit, BetLocks, Wants, Settling
<1>4. PICK j : j = job[c]
  OBVIOUS
<1>5. /\ j.market \in Market /\ j.outcome \in Outcome /\ j.user \in Account
      /\ j.amount \in Nat \ {0} /\ db[MarketRow(j.market)] # Absent
  BY <1>2, <1>4, JobTyped, AmountAssumption DEF JobFits, Job, Account
<1>6. PICK placed : placed = [market |-> j.market, owner |-> j.user, original |-> j.user,
                              outcome |-> j.outcome, stake |-> j.amount]
  OBVIOUS
<1>7. placed \in Engine!BetRow
  BY <1>5, <1>6 DEF Engine!BetRow, Engine!Account, Account
<1>8. PICK id \in NewBets :
        id = CHOOSE b \in NewBets : TRUE
  BY DEF BetPool
<1>9. RowsFit(j, "commit", holds[c] \cup Wants(c), Holding(BetRow(id), placed), db)
  BY <1>7, <1>8, NewBetWritten, RowsOne
<1>10. ASSUME NEW v
       PROVE  RowsFit(j, "commit", holds[c] \cup Wants(c),
                      Holding(PoolRow(j.market, j.outcome), v), db)
  <2>1. <<PoolRow(j.market, j.outcome), "nokey">> \in holds[c] \cup Wants(c)
    BY <1>2, <1>4 DEF Wants
  <2> QED BY <1>5, <2>1, PoolWritten, RowsOne
<1>11. PICK v, rows :
         /\ rows = Over(Holding(PoolRow(j.market, j.outcome), v), Holding(BetRow(id), placed))
         /\ GoOn(c, "commit", rows) /\ UNCHANGED got
  BY <1>4, <1>6, <1>8 DEF BetPool
<1>12. RowsFit(job[c], "commit", holds[c] \cup Wants(c), rows, db)
  BY <1>4, <1>9, <1>10, <1>11, RowsBoth
<1>13. GoOn(c, "commit", rows) /\ got' = got
  BY <1>11
<1> QED BY <1>2, <1>3, <1>12, <1>13, GoesToNext DEF Idle

\* CreateMarket: the seeds of the house, then the rows of the market.
LEMMA CreateSeedStep ==
  ASSUME IInv, NEW c \in Call, CreateSeed(c)
  PROVE  IInv'
<1>1. At(c, {"create"}, "seed")
  BY DEF CreateSeed
<1>2. /\ at[c] = "seed" /\ job[c].op = "create" /\ ~\E d \in Call : Waits(c, d)
      /\ LocksFit(job[c], at[c], c \in second, holds[c], db)
  BY <1>1, Executing DEF Idle
<1>3. Wants(c) = {<<UserRow(House), "update">>}
  BY <1>2 DEF Wants
<1>4. LocksFit(job[c], "insert", c \in second, holds[c] \cup Wants(c), db)
  BY <1>2, <1>3 DEF LocksFit, CreateLocks, Settling
<1>5. ASSUME NEW v, GoOn(c, "insert", Holding(UserRow(House), v)), UNCHANGED got
      PROVE  IInv'
  <2>1. PICK rows : rows = Holding(UserRow(House), v)
    OBVIOUS
  <2>2. House \in Account
    BY DEF Account
  <2>3. RowsFit(job[c], "insert", holds[c] \cup Wants(c), rows, db)
    BY <1>3, <2>1, <2>2, UserWritten, RowsOne
  <2>4. GoOn(c, "insert", rows) /\ got' = got
    BY <1>5, <2>1
  <2> QED BY <1>2, <1>4, <2>3, <2>4, GoesToNext DEF Idle
<1> QED BY <1>2, <1>5, FailStep DEF CreateSeed, Idle

LEMMA CreateInsertStep ==
  ASSUME IInv, NEW c \in Call, CreateInsert(c)
  PROVE  IInv'
<1>1. At(c, {"create"}, "insert")
  BY DEF CreateInsert
<1>2. /\ at[c] = "insert" /\ job[c].op = "create" /\ ~\E d \in Call : Waits(c, d)
      /\ LocksFit(job[c], at[c], c \in second, holds[c], db)
      /\ JobFits(job[c], at[c], db) /\ DatabaseFits(db)
  BY <1>1, Executing DEF Idle
<1>3. PICK G : G = holds[c] \cup Wants(c)
  OBVIOUS
<1>4. LocksFit(job[c], "commit", c \in second, G, db)
  BY <1>2, <1>3 DEF LocksFit, CreateLocks, Settling, Wants
<1>5. PICK j, m, seed : j = job[c] /\ m = j.market /\ seed = j.amount
  OBVIOUS
<1>6. j.op = "create" /\ m \in Market /\ seed \in Nat
  BY <1>2, <1>5, JobTyped, AmountAssumption DEF JobFits, Job
<1>7. PICK ids : ids = IF seed > 0 THEN CHOOSE f \in Injection(Outcome, NewBets) : TRUE
                       ELSE <<>>
  OBVIOUS
<1>8. /\ \A o \in DOMAIN ids : o \in Outcome /\ ids[o] \in NewBets
      /\ DOMAIN ids # {} => seed > 0
  <2>1. CASE seed > 0
    <3>1. Injection(Outcome, NewBets) # {}
      BY <1>5, <2>1 DEF CreateInsert, ExistsInjection
    <3>2. ids \in Injection(Outcome, NewBets)
      BY <1>7, <2>1, <3>1
    <3> QED BY <2>1, <3>2 DEF Injection
  <2>2. CASE ~(seed > 0)
    BY <1>7, <2>2, NoRows
  <2> QED BY <2>1, <2>2
<1>9. PICK bets : bets =
        [row \in {BetRow(ids[o]) : o \in DOMAIN ids} |->
           [market |-> m, owner |-> House, original |-> House,
            outcome |-> CHOOSE o \in Outcome : ids[o] = row[2], stake |-> seed]]
  OBVIOUS
<1>10. RowsFit(j, "commit", G, bets, db)
  <2>1. SUFFICES ASSUME NEW row \in DOMAIN bets
                 PROVE  row \in Row /\ ValueFits(row, bets[row], db) /\ Fresh(j, row)
    BY DEF RowsFit
  <2>2. PICK o \in DOMAIN ids : row = BetRow(ids[o])
    BY <1>9, <2>1
  <2>3. o \in Outcome /\ ids[o] = row[2] /\ seed \in Nat \ {0} /\ ids[o] \in NewBets
    BY <1>6, <1>8, <2>2 DEF BetRow
  <2>4. bets[row] \in Engine!BetRow
    <3>1. (CHOOSE x \in Outcome : ids[x] = row[2]) \in Outcome
      BY <2>3
    <3> QED BY <1>6, <1>9, <2>1, <2>3, <3>1 DEF Engine!BetRow, Engine!Account
  <2> QED BY <2>2, <2>3, <2>4, NewBetWritten
<1>11. PICK pools : pools = [row \in {PoolRow(m, o) : o \in Outcome} |-> seed]
  OBVIOUS
<1>12. RowsFit(j, "commit", G, pools, db)
  <2>1. SUFFICES ASSUME NEW row \in DOMAIN pools
                 PROVE  row \in Row /\ ValueFits(row, pools[row], db) /\ Fresh(j, row)
    BY DEF RowsFit
  <2>2. PICK o \in Outcome : row = PoolRow(m, o)
    BY <1>11, <2>1
  <2> QED BY <1>5, <1>6, <2>2, NewMarketWritten
<1>13. PICK market : market = [status |-> "OPEN", outcomes |-> Outcome,
                               winning |-> NoOutcome]
  OBVIOUS
<1>14. RowsFit(j, "commit", G, Holding(MarketRow(m), market), db)
  <2>1. market \in MarketRecord
    BY <1>13 DEF MarketRecord, Engine!MarketStatus
  <2> QED BY <1>5, <1>6, <2>1, NewMarketWritten, RowsOne
<1>15. PICK rows : rows = Over(bets, Over(pools, Holding(MarketRow(m), market)))
  OBVIOUS
<1>16. RowsFit(job[c], "commit", holds[c] \cup Wants(c), rows, db)
  BY <1>3, <1>5, <1>10, <1>12, <1>14, <1>15, RowsBoth
<1>17. GoOn(c, "commit", rows) /\ got' = got
  BY <1>5, <1>7, <1>9, <1>11, <1>13, <1>15 DEF CreateInsert
<1> QED BY <1>2, <1>3, <1>4, <1>16, <1>17, GoesToNext DEF Idle

\* AdjustBalance and SyncUser.
LEMMA AdjustReadStep ==
  ASSUME IInv, NEW c \in Call, AdjustRead(c)
  PROVE  IInv'
<1>1. At(c, {"adjust"}, "read")
  BY DEF AdjustRead
<1>2. /\ at[c] = "read" /\ job[c].op = "adjust" /\ ~\E d \in Call : Waits(c, d)
      /\ LocksFit(job[c], at[c], c \in second, holds[c], db)
  BY <1>1, Executing DEF Idle
<1>3. LocksFit(job[c], "write", c \in second, holds[c] \cup Wants(c), db)
  BY <1>2 DEF LocksFit, AdjustLocks, Wants, LockedRead, Settling
<1>4. ASSUME NEW query, GoOn(c, "write", <<>>), Keep(c, query)
      PROVE  IInv'
  BY <1>2, <1>3, <1>4, RowsNone, GoesToNext DEF Idle
<1> QED BY <1>2, <1>4, FailStep DEF AdjustRead, Idle

LEMMA WriteBalanceStep ==
  ASSUME IInv, NEW c \in Call, WriteBalance(c)
  PROVE  IInv'
<1>1. At(c, {"adjust", "sync"}, "write")
  BY DEF WriteBalance
<1>2. /\ at[c] = "write" /\ job[c].op \in {"adjust", "sync"}
      /\ ~\E d \in Call : Waits(c, d)
      /\ LocksFit(job[c], at[c], c \in second, holds[c], db)
      /\ JobFits(job[c], at[c], db) /\ DatabaseFits(db)
  BY <1>1, Executing DEF Idle
<1>3. Wants(c) = {<<UserRow(job[c].user), "nokey">>}
  BY <1>2 DEF Wants
<1>4. LocksFit(job[c], "commit", c \in second, holds[c] \cup Wants(c), db)
  BY <1>2, <1>3 DEF LocksFit, AdjustLocks, SyncLocks, Settling
<1>5. PICK v, rows : /\ rows = Holding(UserRow(job[c].user), v)
                     /\ GoOn(c, "commit", rows) /\ got' = got
  BY DEF WriteBalance
<1>6. job[c].user \in Account
  BY <1>2, JobTyped DEF Account
<1>7. RowsFit(job[c], "commit", holds[c] \cup Wants(c), rows, db)
  BY <1>3, <1>5, <1>6, UserWritten, RowsOne
<1>8. GoOn(c, "commit", rows) /\ got' = got /\ at[c] \notin Idle \cup {"commit"}
  BY <1>2, <1>5 DEF Idle
<1> QED BY <1>2, <1>4, <1>7, <1>8, GoesToNext DEF Idle

-----------------------------------------------------------------------------
(* Settlements *)

\* A settlement takes the lock of its market first, then those of listings, then
\* those of users.
LEMMA SettlementLocks ==
  ASSUME NEW j, NEW st, NEW statement, NEW two, NEW H, NEW G, NEW D,
         j.op \in Settling, SettleLocks(j, st, H, D),
         statement \in {"listings", "pay", "house", "commit"},
         statement \in {"pay", "house"} => j.op # "lock",
         statement = "listings" => st \in {"market", "listings"},
         st = "market" => <<MarketRow(j.market), "update">> \in G,
         \A g \in G : \/ g = <<MarketRow(j.market), "update">>
                      \/ \E l \in ListingsOn(j.market, D) : g = <<ListingRow(l), "nokey">>
                      \/ statement # "listings" /\ \E a \in Account : g = <<UserRow(a), "nokey">>
  PROVE  LocksFit(j, statement, two, H \cup G, D)
<1>1. SettleLocks(j, statement, H \cup G, D)
  <2>1. \A h \in H : \/ h = <<MarketRow(j.market), "update">>
                     \/ \E l \in ListingsOn(j.market, D) : h = <<ListingRow(l), "nokey">>
                     \/ statement # "listings" /\ \E a \in Account : h = <<UserRow(a), "nokey">>
    BY DEF SettleLocks
  <2>2. <<MarketRow(j.market), "update">> \in H \cup G
    BY DEF SettleLocks
  <2> QED BY <2>1, <2>2 DEF SettleLocks
<1> QED BY <1>1 DEF LocksFit, Settling

\* What a settlement holds and knows at its statement.
LEMMA SettlementAt ==
  ASSUME IInv, NEW c \in Call, NEW ops, NEW statement, At(c, ops, statement),
         ops \subseteq Settling, statement \in {"market", "listings", "pay", "house"}
  PROVE  /\ at[c] = statement /\ at[c] \notin Idle \cup {"commit"}
         /\ job[c].op \in ops /\ job[c].op \in Settling
         /\ ~\E d \in Call : Waits(c, d)
         /\ SettleLocks(job[c], statement, holds[c], db)
         /\ QueryFits(job[c], statement, got[c], db)
         /\ job[c].market \in Market /\ db[MarketRow(job[c].market)] \in MarketRecord
         /\ db[MarketRow(job[c].market)] # Absent
         /\ job[c].op = "resolve" => job[c].outcome \in Outcome
<1>1. statement \notin Idle
  BY DEF Idle
<1>2. /\ at[c] = statement /\ job[c].op \in ops /\ ~\E d \in Call : Waits(c, d)
      /\ JobFits(job[c], statement, db) /\ QueryFits(job[c], statement, got[c], db)
      /\ LocksFit(job[c], statement, c \in second, holds[c], db) /\ DatabaseFits(db)
  BY <1>1, Executing
<1>3. job[c].op \in Settling
  BY <1>2
<1>4. PICK m : m = job[c].market /\ m \in Market /\ db[MarketRow(m)] # Absent
  BY <1>2, <1>3, JobTyped DEF JobFits
<1>5. db[MarketRow(m)] \in MarketRecord
  BY <1>2, <1>4, MarketFits
<1>6. job[c].op = "resolve" => job[c].outcome \in Outcome
  BY <1>2, JobTyped
<1>7. SettleLocks(job[c], statement, holds[c], db)
  BY <1>2, <1>3 DEF LocksFit
<1> QED BY <1>2, <1>3, <1>4, <1>5, <1>6, <1>7 DEF Idle

\* LockMarket, ResolveMarket and RefundMarketInternal: the market and its offers.
LEMMA SettleMarketStep ==
  ASSUME IInv, NEW c \in Call, SettleMarket(c)
  PROVE  IInv'
<1>1. At(c, {"lock", "resolve", "cancel"}, "market")
  BY DEF SettleMarket
<1>2. /\ at[c] = "market" /\ at[c] \notin Idle \cup {"commit"} /\ job[c].op \in Settling
      /\ ~\E d \in Call : Waits(c, d)
      /\ SettleLocks(job[c], "market", holds[c], db)
  BY <1>1, SettlementAt DEF Settling
<1>3. Wants(c) = {<<MarketRow(job[c].market), "update">>}
  BY <1>2 DEF Wants, Settling
<1>4. LocksFit(job[c], "listings", c \in second, holds[c] \cup Wants(c), db)
  BY <1>2, <1>3, SettlementLocks
<1>5. ASSUME NEW order \in SetToSeqs(OfferedOn(job[c].market)),
             GoOn(c, "listings", <<>>), Keep(c, order)
      PROVE  IInv'
  <2>1. order \in Seq(OfferedOn(job[c].market))
    <3>1. PICK n : order \in [n -> OfferedOn(job[c].market)]
                   /\ n = 1..Cardinality(OfferedOn(job[c].market))
      BY <1>5 DEF SetToSeqs
    <3>2. IsFiniteSet(OfferedOn(job[c].market))
      BY SizeAssumption, FS_Subset DEF OfferedOn
    <3>3. Cardinality(OfferedOn(job[c].market)) \in Nat
      BY <3>2, FS_CardinalityType
    <3> QED BY <3>1, <3>3
  <2>2. order \in Seq(ListingsOn(job[c].market, db))
    <3>1. OfferedOn(job[c].market) \subseteq ListingsOn(job[c].market, db)
      BY DEF OfferedOn, ListingsOn
    <3> QED BY <2>1, <3>1
  <2>3. QueryFits(job[c], "listings", order, db)
    BY <2>2 DEF QueryFits
  <2>4. \A row \in DOMAIN <<>> : FALSE
    BY NoRows
  <2>5. got' = [got EXCEPT ![c] = order]
    BY <1>5 DEF Keep
  <2> QED BY <1>2, <1>4, <1>5, <2>3, <2>4, <2>5, NoRows, GoesOn DEF Idle
<1> QED BY <1>2, <1>5, FailStep DEF SettleMarket, Idle

\* What a call sees of a listing is a version of the listing that is committed.
LEMMA ListingSeen ==
  ASSUME IInv, NEW c \in Call, at[c] \notin Idle, NEW l \in ListingId,
         db[ListingRow(l)] # Absent
  PROVE  LET row == Sees(c, ListingRow(l)) IN
         /\ row \in Engine!ListingRow /\ row.bet = db[ListingRow(l)].bet
         /\ row.market = db[ListingRow(l)].market /\ row.seller = db[ListingRow(l)].seller
<1>1. DatabaseFits(db) /\ WritesFit(job[c], at[c], holds[c], wrote[c], db)
  BY DEF IInv, CallFits, Fits
<1>2. PICK r : r = ListingRow(l) /\ r \in ListingRows
  BY DEF ListingRows
<1>3. CASE r \in DOMAIN wrote[c]
  <2>1. ValueFits(r, wrote[c][r], db) /\ Sees(c, r) = wrote[c][r]
    BY <1>1, <1>3 DEF WritesFit, Sees
  <2> QED BY <1>2, <2>1 DEF ValueFits
<1>4. CASE r \notin DOMAIN wrote[c]
  BY <1>1, <1>2, <1>4, ListingFits DEF Sees
<1> QED BY <1>3, <1>4

LEMMA SettleListingStep ==
  ASSUME IInv, NEW c \in Call, SettleListing(c)
  PROVE  IInv'
<1>1. At(c, {"lock", "resolve", "cancel"}, "listings") /\ got[c] # <<>>
  BY DEF SettleListing
<1>2. /\ at[c] = "listings" /\ at[c] \notin Idle \cup {"commit"} /\ job[c].op \in Settling
      /\ ~\E d \in Call : Waits(c, d)
      /\ SettleLocks(job[c], "listings", holds[c], db)
      /\ QueryFits(job[c], "listings", got[c], db)
  BY <1>1, SettlementAt DEF Settling
<1>3. PICK m, q, l : m = job[c].market /\ q = got[c] /\ l = Head(q)
  OBVIOUS
<1>4. l \in ListingsOn(m, db) /\ Tail(q) \in Seq(ListingsOn(m, db))
  <2>1. q \in Seq(ListingsOn(m, db)) /\ q # <<>>
    BY <1>1, <1>2, <1>3 DEF QueryFits
  <2> QED BY <1>3, <2>1, HeadTailProperties
<1>5. l \in ListingId /\ db[ListingRow(l)] # Absent
  BY <1>4 DEF ListingsOn
<1>6. Wants(c) = {<<ListingRow(l), "nokey">>}
  BY <1>1, <1>2, <1>3 DEF Wants
<1>7. LocksFit(job[c], "listings", c \in second, holds[c] \cup Wants(c), db)
  BY <1>2, <1>3, <1>4, <1>6, SettlementLocks
<1>8. QueryFits(job[c], "listings", Tail(q), db)
  BY <1>3, <1>4 DEF QueryFits
<1>9. PICK row : row = Sees(c, ListingRow(l))
  OBVIOUS
<1>10. /\ row \in Engine!ListingRow /\ row.bet = db[ListingRow(l)].bet
       /\ row.market = db[ListingRow(l)].market /\ row.seller = db[ListingRow(l)].seller
  BY <1>2, <1>5, <1>9, ListingSeen
<1>11. PICK rows :
         /\ rows = IF row.status = "LISTED"
                   THEN Holding(ListingRow(l), [row EXCEPT !.status = "CANCELLED"]) ELSE <<>>
         /\ GoOn(c, "listings", rows) /\ Keep(c, Tail(q))
  BY <1>3, <1>9 DEF SettleListing
<1>12. RowsFit(job[c], "listings", holds[c] \cup Wants(c), rows, db)
  <2>1. PICK v : v = [row EXCEPT !.status = "CANCELLED"]
    OBVIOUS
  <2>2. /\ v \in Engine!ListingRow /\ v.bet = row.bet /\ v.market = row.market
        /\ v.seller = row.seller
    BY <1>10, <2>1 DEF Engine!ListingRow, Engine!ListingStatus
  <2>3. DatabaseFits(db)
    BY DEF IInv
  <2>4. RowsFit(job[c], "listings", holds[c] \cup Wants(c), Holding(ListingRow(l), v), db)
    BY <1>5, <1>6, <1>10, <2>2, <2>3, ListingWritten, RowsOne
  <2> QED BY <1>11, <2>1, <2>4, RowsNone
<1>13. job[c].op = "buy" /\ "listings" # "commit" => DOMAIN rows = {}
  BY <1>2 DEF Settling
<1> QED BY <1>2, <1>7, <1>8, <1>11, <1>12, <1>13, GoesOn DEF Idle, RowsFit, Keep

\* The UPDATE of a market's status.
LEMMA Becomes ==
  ASSUME NEW c \in Call, NEW m \in Market, m = job[c].market, NEW H, NEW G,
         db[MarketRow(m)] \in MarketRecord, db[MarketRow(m)] # Absent, NEW st,
         SettleLocks(job[c], st, H, db), st # "market", H \subseteq G,
         NEW status \in Engine!MarketStatus, NEW winning \in Outcome \cup {NoOutcome},
         NEW statement
  PROVE  RowsFit(job[c], statement, G, Become(c, status, winning), db)
<1>1. PICK v : v = [db[MarketRow(m)] EXCEPT !.status = status, !.winning = winning]
  OBVIOUS
<1>2. v \in MarketRecord
  BY <1>1 DEF MarketRecord
<1>3. <<MarketRow(m), "update">> \in G
  BY DEF SettleLocks
<1>4. RowsFit(job[c], statement, G, Holding(MarketRow(m), v), db)
  BY <1>2, <1>3, MarketWritten, RowsOne
<1> QED BY <1>1, <1>4 DEF Become

\* Who is paid by a settlement.
LEMMA PaymentsFit ==
  ASSUME IInv, NEW c \in Call, NEW bets \in SUBSET BetId,
         \A b \in bets : db[BetRow(b)] # Absent, NEW list \in PayoutsOf(c, bets)
  PROVE  QueryFits(job[c], "pay", list, db)
<1>1. PICK order \in SetToSeqs(bets) :
        /\ DOMAIN list = DOMAIN order
        /\ \A i \in DOMAIN order : /\ list[i] = [user |-> list[i].user, amount |-> list[i].amount]
                                   /\ list[i].user = db[BetRow(order[i])].owner
        /\ list = [i \in DOMAIN list |-> list[i]]
  BY DEF PayoutsOf
<1>2. PICK n : n = Cardinality(bets) /\ n \in Nat /\ order \in [1..n -> bets]
  <2>1. IsFiniteSet(bets)
    BY SizeAssumption, FS_Subset
  <2> QED BY <2>1, FS_CardinalityType DEF SetToSeqs
<1>3. PICK A : A = {list[i].amount : i \in 1..n}
  OBVIOUS
<1>4. \A i \in 1..n : list[i] \in [user : Account, amount : A]
  <2>1. DatabaseFits(db)
    BY DEF IInv
  <2> QED BY <1>1, <1>2, <1>3, <2>1, BetFits
<1>5. list \in [1..n -> [user : Account, amount : A]]
  BY <1>1, <1>2, <1>4
<1>6. list \in Seq([user : Account, amount : A])
  <2>1. PICK S : S = [user : Account, amount : A]
    OBVIOUS
  <2>2. list \in [1..n -> S] /\ n \in Nat
    BY <1>2, <1>5, <2>1
  <2>3. list \in Seq(S)
    BY <2>2
  <2> QED BY <2>1, <2>3
<1> QED BY <1>6 DEF QueryFits, Settling

\* The status of a lock, the fallback to a refund, or the bets that are paid.
LEMMA SettleQueryStep ==
  ASSUME IInv, NEW c \in Call, SettleQuery(c)
  PROVE  IInv'
<1>1. At(c, {"lock", "resolve", "cancel"}, "listings") /\ got[c] = <<>>
  BY DEF SettleQuery
<1>2. /\ at[c] = "listings" /\ at[c] \notin Idle \cup {"commit"} /\ job[c].op \in Settling
      /\ ~\E d \in Call : Waits(c, d)
      /\ SettleLocks(job[c], "listings", holds[c], db)
      /\ job[c].market \in Market /\ db[MarketRow(job[c].market)] \in MarketRecord
      /\ db[MarketRow(job[c].market)] # Absent
  BY <1>1, SettlementAt DEF Settling
<1>3. Wants(c) = {}
  BY <1>1, <1>2 DEF Wants
<1>4. /\ LocksFit(job[c], "commit", c \in second, holds[c] \cup Wants(c), db)
      /\ job[c].op # "lock" => LocksFit(job[c], "pay", c \in second, holds[c] \cup Wants(c), db)
  BY <1>2, <1>3, SettlementLocks
<1>5. CASE job[c].op = "lock"
  <2>1. PICK rows : /\ rows = Become(c, "LOCKED", NoOutcome)
                    /\ GoOn(c, "commit", rows) /\ got' = got
    BY <1>5 DEF SettleQuery
  <2>2. "LOCKED" \in Engine!MarketStatus /\ NoOutcome \in Outcome \cup {NoOutcome}
    BY DEF Engine!MarketStatus
  <2>3. RowsFit(job[c], "commit", holds[c] \cup Wants(c), rows, db)
    BY <1>2, <2>1, <2>2, Becomes
  <2>4. GoOn(c, "commit", rows) /\ "commit" \notin Idle /\ "commit" \notin {"listings", "pay"}
    BY <2>1 DEF Idle
  <2> QED BY <1>2, <1>4, <2>1, <2>3, <2>4, GoesToNext
<1>6. ASSUME NEW bets \in SUBSET BetId, \A b \in bets : db[BetRow(b)] # Absent,
             NEW list \in PayoutsOf(c, bets), job[c].op # "lock",
             GoOn(c, "pay", <<>>), Keep(c, list)
      PROVE  IInv'
  <2>1. QueryFits(job[c], "pay", list, db)
    BY <1>6, PaymentsFit
  <2>2. got' = [got EXCEPT ![c] = list]
    BY <1>6 DEF Keep
  <2>3. \A row \in DOMAIN <<>> : FALSE
    BY NoRows
  <2> QED BY <1>2, <1>4, <1>6, <2>1, <2>2, <2>3, NoRows, GoesOn DEF Idle
<1>7. /\ Engine!BetsOf(job[c].market) \in SUBSET BetId
      /\ \A b \in Engine!BetsOf(job[c].market) : db[BetRow(b)] # Absent
  BY DEF Engine!BetsOf, Engine!Bets
<1>8. /\ Engine!WinningBets(job[c].market, job[c].outcome) \in SUBSET BetId
      /\ \A b \in Engine!WinningBets(job[c].market, job[c].outcome) : db[BetRow(b)] # Absent
  BY <1>7 DEF Engine!WinningBets
<1>9. CASE job[c].op # "lock" /\ Refunds(c)
  <2>1. PICK bets : bets = Engine!BetsOf(job[c].market)
    OBVIOUS
  <2>2. PICK list \in PayoutsOf(c, bets) : GoOn(c, "pay", <<>>) /\ Keep(c, list)
    BY <1>9, <2>1 DEF SettleQuery
  <2> QED BY <1>6, <1>7, <1>9, <2>1, <2>2
<1>10. CASE job[c].op # "lock" /\ ~Refunds(c)
  <2>1. job[c].op = "resolve"
    BY <1>2, <1>10 DEF Refunds, Settling
  <2>2. \/ Fail(c) \/ RollBack(c)
        \/ /\ GoOn(c, "pay", <<>>)
           /\ \E list \in PayoutsOf(c, Engine!WinningBets(job[c].market, job[c].outcome)) :
                Keep(c, list)
    BY <1>10 DEF SettleQuery
  <2>3. PICK bets : bets = Engine!WinningBets(job[c].market, job[c].outcome)
    OBVIOUS
  <2>4. ASSUME NEW list \in PayoutsOf(c, bets), GoOn(c, "pay", <<>>), Keep(c, list)
        PROVE  IInv'
    BY <1>6, <1>8, <1>10, <2>3, <2>4
  <2> QED BY <1>2, <2>1, <2>2, <2>3, <2>4, FailStep, RollBackStep DEF Idle
<1> QED BY <1>5, <1>9, <1>10

LEMMA SettlePayStep ==
  ASSUME IInv, NEW c \in Call, SettlePay(c)
  PROVE  IInv'
<1>1. At(c, {"resolve", "cancel"}, "pay") /\ got[c] # <<>>
  BY DEF SettlePay
<1>2. /\ at[c] = "pay" /\ at[c] \notin Idle \cup {"commit"} /\ job[c].op \in Settling
      /\ job[c].op # "lock" /\ ~\E d \in Call : Waits(c, d)
      /\ SettleLocks(job[c], "pay", holds[c], db)
      /\ QueryFits(job[c], "pay", got[c], db)
  BY <1>1, SettlementAt DEF Settling
<1>3. PICK q, a : q = got[c] /\ a = Head(q).user
  OBVIOUS
<1>4. a \in Account /\ \E A : Tail(q) \in Seq([user : Account, amount : A])
  <2>1. PICK A : q \in Seq([user : Account, amount : A])
    BY <1>2, <1>3 DEF QueryFits
  <2>2. PICK S : S = [user : Account, amount : A]
    OBVIOUS
  <2>3. Head(q) \in S /\ Tail(q) \in Seq(S)
    BY <1>1, <1>3, <2>1, <2>2, HeadTailProperties
  <2> QED BY <1>3, <2>2, <2>3
<1>5. Wants(c) = {<<UserRow(a), "nokey">>}
  BY <1>1, <1>2, <1>3 DEF Wants
<1>6. LocksFit(job[c], "pay", c \in second, holds[c] \cup Wants(c), db)
  BY <1>2, <1>4, <1>5, SettlementLocks
<1>7. QueryFits(job[c], "pay", Tail(q), db)
  BY <1>4 DEF QueryFits
<1>8. PICK v, rows : rows = Holding(UserRow(a), v) /\ GoOn(c, "pay", rows) /\ Keep(c, Tail(q))
  BY <1>3 DEF SettlePay
<1>9. RowsFit(job[c], "pay", holds[c] \cup Wants(c), rows, db)
  BY <1>4, <1>5, <1>8, UserWritten, RowsOne
<1>10. GoOn(c, "pay", rows) /\ got' = [got EXCEPT ![c] = Tail(q)]
  BY <1>8 DEF Keep
<1>11. /\ job[c].op = "buy" /\ "pay" # "commit" => DOMAIN rows = {}
       /\ "pay" \notin Idle
  BY <1>2 DEF Settling, Idle
<1>12. \A row \in DOMAIN rows :
         /\ row \in Row /\ ValueFits(row, rows[row], db)
         /\ \/ Updates(row, holds[c] \cup Wants(c), db)
            \/ "pay" = "commit" /\ Fresh(job[c], row)
  BY <1>9 DEF RowsFit
<1> QED BY <1>2, <1>6, <1>7, <1>10, <1>11, <1>12, GoesOn

LEMMA SettleStatusStep ==
  ASSUME IInv, NEW c \in Call, SettleStatus(c)
  PROVE  IInv'
<1>1. At(c, {"resolve", "cancel"}, "pay") /\ got[c] = <<>> /\ got' = got
  BY DEF SettleStatus
<1>2. /\ at[c] = "pay" /\ at[c] \notin Idle \cup {"commit"} /\ job[c].op \in Settling
      /\ job[c].op \in {"resolve", "cancel"} /\ ~\E d \in Call : Waits(c, d)
      /\ SettleLocks(job[c], "pay", holds[c], db)
      /\ job[c].market \in Market /\ db[MarketRow(job[c].market)] \in MarketRecord
      /\ db[MarketRow(job[c].market)] # Absent
      /\ job[c].op = "resolve" => job[c].outcome \in Outcome
  BY <1>1, SettlementAt DEF Settling
<1>3. Wants(c) = {}
  BY <1>1, <1>2 DEF Wants
<1>4. /\ LocksFit(job[c], "commit", c \in second, holds[c] \cup Wants(c), db)
      /\ LocksFit(job[c], "house", c \in second, holds[c] \cup Wants(c), db)
  BY <1>2, <1>3, SettlementLocks
<1>5. ASSUME NEW status \in Engine!MarketStatus, NEW winning \in Outcome \cup {NoOutcome},
             GoOn(c, "commit", Become(c, status, winning))
      PROVE  IInv'
  <2>1. PICK rows : rows = Become(c, status, winning) /\ GoOn(c, "commit", rows)
    BY <1>5
  <2>2. RowsFit(job[c], "commit", holds[c] \cup Wants(c), rows, db)
    BY <1>2, <2>1, Becomes
  <2> QED BY <1>1, <1>2, <1>4, <2>1, <2>2, GoesToNext DEF Idle
<1>6. CASE GoOn(c, "house", <<>>)
  BY <1>1, <1>2, <1>4, <1>6, RowsNone, GoesToNext DEF Idle
<1>7. /\ "CANCELLED" \in Engine!MarketStatus /\ "RESOLVED" \in Engine!MarketStatus
      /\ db[MarketRow(job[c].market)].winning \in Outcome \cup {NoOutcome}
  BY <1>2 DEF Engine!MarketStatus, MarketRecord
<1>8. CASE Refunds(c)
  BY <1>5, <1>7, <1>8 DEF SettleStatus
<1>9. CASE ~Refunds(c)
  BY <1>2, <1>5, <1>6, <1>7, <1>9 DEF SettleStatus, Refunds
<1> QED BY <1>8, <1>9

LEMMA SettleHouseStep ==
  ASSUME IInv, NEW c \in Call, SettleHouse(c)
  PROVE  IInv'
<1>1. At(c, {"resolve"}, "house") /\ got' = got
  BY DEF SettleHouse
<1>2. /\ at[c] = "house" /\ at[c] \notin Idle \cup {"commit"} /\ job[c].op \in Settling
      /\ ~\E d \in Call : Waits(c, d)
      /\ SettleLocks(job[c], "house", holds[c], db)
      /\ job[c].market \in Market /\ db[MarketRow(job[c].market)] \in MarketRecord
      /\ db[MarketRow(job[c].market)] # Absent /\ job[c].outcome \in Outcome
  BY <1>1, SettlementAt DEF Settling
<1>3. Wants(c) = {<<UserRow(House), "nokey">>} /\ House \in Account
  BY <1>2 DEF Wants, Account
<1>4. LocksFit(job[c], "commit", c \in second, holds[c] \cup Wants(c), db)
  BY <1>2, <1>3, SettlementLocks
<1>5. PICK v, rows : /\ rows = Over(Holding(UserRow(House), v),
                                    Become(c, "RESOLVED", job[c].outcome))
                     /\ GoOn(c, "commit", rows)
  BY DEF SettleHouse
<1>6. RowsFit(job[c], "commit", holds[c] \cup Wants(c), Holding(UserRow(House), v), db)
  BY <1>3, UserWritten, RowsOne
<1>7. RowsFit(job[c], "commit", holds[c] \cup Wants(c),
              Become(c, "RESOLVED", job[c].outcome), db)
  <2>1. "RESOLVED" \in Engine!MarketStatus
    BY DEF Engine!MarketStatus
  <2> QED BY <1>2, <2>1, Becomes
<1>8. RowsFit(job[c], "commit", holds[c] \cup Wants(c), rows, db)
  BY <1>5, <1>6, <1>7, RowsBoth
<1>9. GoOn(c, "commit", rows) /\ "commit" \notin Idle /\ "commit" \notin {"listings", "pay"}
  BY <1>5 DEF Idle
<1> QED BY <1>1, <1>2, <1>4, <1>8, <1>9, GoesToNext

-----------------------------------------------------------------------------
(* The secondary market *)

\* ListBetForSale: the market, the bet, the listing.
LEMMA ListMarketStep ==
  ASSUME IInv, NEW c \in Call, ListMarket(c)
  PROVE  IInv'
<1>1. At(c, {"list"}, "betMarket")
  BY DEF ListMarket
<1>2. /\ at[c] = "betMarket" /\ job[c].op = "list" /\ ~\E d \in Call : Waits(c, d)
      /\ LocksFit(job[c], at[c], c \in second, holds[c], db)
  BY <1>1, Executing DEF Idle
<1>3. LocksFit(job[c], "bet", c \in second, holds[c] \cup Wants(c), db)
  BY <1>2 DEF LocksFit, ListLocks, Wants, Settling
<1>4. CASE GoOn(c, "bet", <<>>) /\ UNCHANGED got
  BY <1>2, <1>3, <1>4, RowsNone, GoesToNext DEF Idle
<1> QED BY <1>2, <1>4, FailStep DEF ListMarket, Idle

LEMMA ListBetStep ==
  ASSUME IInv, NEW c \in Call, ListBet(c)
  PROVE  IInv'
<1>1. At(c, {"list"}, "bet")
  BY DEF ListBet
<1>2. /\ at[c] = "bet" /\ job[c].op = "list" /\ ~\E d \in Call : Waits(c, d)
      /\ LocksFit(job[c], at[c], c \in second, holds[c], db)
  BY <1>1, Executing DEF Idle
<1>3. LocksFit(job[c], "offer", c \in second, holds[c] \cup Wants(c), db)
  BY <1>2 DEF LocksFit, ListLocks, Wants, Settling
<1>4. CASE GoOn(c, "offer", <<>>) /\ UNCHANGED got
  BY <1>2, <1>3, <1>4, RowsNone, GoesToNext DEF Idle
<1> QED BY <1>2, <1>4, FailStep DEF ListBet, Idle

LEMMA ListInsertStep ==
  ASSUME IInv, NEW c \in Call, ListInsert(c)
  PROVE  IInv'
<1>1. At(c, {"list"}, "offer")
  BY DEF ListInsert
<1>2. /\ at[c] = "offer" /\ job[c].op = "list" /\ ~\E d \in Call : Waits(c, d)
      /\ LocksFit(job[c], at[c], c \in second, holds[c], db)
      /\ JobFits(job[c], at[c], db) /\ DatabaseFits(db)
  BY <1>1, Executing DEF Idle
<1>3. LocksFit(job[c], "commit", c \in second, holds[c] \cup Wants(c), db)
  BY <1>2 DEF LocksFit, ListLocks, Wants, Settling
<1>4. PICK j : j = job[c]
  OBVIOUS
<1>5. /\ j.user \in Account /\ j.bet \in BetId /\ j.amount \in Nat \ {0}
      /\ db[BetRow(j.bet)] # Absent /\ db[BetRow(j.bet)].market \in Market
  <2>1. j.user \in Account /\ j.bet \in BetId /\ db[BetRow(j.bet)] # Absent
    BY <1>2, <1>4, JobTyped
  <2>2. j.amount \in Nat \ {0}
    BY <1>2, <1>4, AmountAssumption DEF JobFits, Job
  <2> QED BY <1>2, <2>1, <2>2, BetFits
<1>6. PICK v : v = [bet |-> j.bet, market |-> db[BetRow(j.bet)].market,
                    seller |-> j.user, buyer |-> NoUser, price |-> j.amount,
                    status |-> "LISTED"]
  OBVIOUS
<1>7. /\ v \in Engine!ListingRow /\ db[BetRow(v.bet)] # Absent
      /\ db[BetRow(v.bet)].market = v.market
  BY <1>5, <1>6 DEF Engine!ListingRow, Engine!Account, Account, Engine!ListingStatus
<1>8. CASE OfferedBy(j.bet) = {}
  <2>0. PICK id \in NewListings :
          GoOn(c, "commit", Holding(ListingRow(id), v)) /\ got' = got
    BY <1>4, <1>6, <1>8 DEF ListInsert
  <2>1. PICK rows :
          rows = Holding(ListingRow(id), v) /\ GoOn(c, "commit", rows) /\ got' = got
    BY <2>0
  <2>2. RowsFit(job[c], "commit", holds[c] \cup Wants(c), rows, db)
    BY <1>7, <2>1, NewListingWritten, RowsOne
  <2>3. GoOn(c, "commit", rows) /\ "commit" \notin Idle /\ "commit" \notin {"listings", "pay"}
    BY <2>1 DEF Idle
  <2>4. at[c] \notin Idle \cup {"commit"}
    BY <1>2 DEF Idle
  <2> QED BY <1>2, <1>3, <2>1, <2>2, <2>3, <2>4, GoesToNext
<1> QED BY <1>2, <1>4, <1>8, FailStep DEF ListInsert, Idle

\* The UPDATE of a listing that sets its status.
LEMMA StatusSet ==
  ASSUME DatabaseFits(db), NEW l \in ListingId, db[ListingRow(l)] # Absent, NEW G,
         <<ListingRow(l), "update">> \in G, NEW j, NEW statement,
         NEW status \in Engine!ListingStatus
  PROVE  RowsFit(j, statement, G,
                 Holding(ListingRow(l), [db[ListingRow(l)] EXCEPT !.status = status]), db)
<1>1. PICK row, v : row = db[ListingRow(l)] /\ v = [row EXCEPT !.status = status]
  OBVIOUS
<1>2. row \in Engine!ListingRow
  BY <1>1, ListingFits
<1>3. /\ v \in Engine!ListingRow /\ v.bet = row.bet /\ v.market = row.market
      /\ v.seller = row.seller
  BY <1>1, <1>2 DEF Engine!ListingRow
<1> QED BY <1>1, <1>3, ListingWritten, RowsOne

\* CancelListing.
LEMMA WithdrawListingStep ==
  ASSUME IInv, NEW c \in Call, WithdrawListing(c)
  PROVE  IInv'
<1>1. At(c, {"withdraw"}, "listing")
  BY DEF WithdrawListing
<1>2. /\ at[c] = "listing" /\ job[c].op = "withdraw" /\ ~\E d \in Call : Waits(c, d)
      /\ LocksFit(job[c], at[c], c \in second, holds[c], db)
      /\ JobFits(job[c], at[c], db) /\ DatabaseFits(db)
  BY <1>1, Executing DEF Idle
<1>3. PICK l : l = job[c].listing /\ l \in ListingId /\ db[ListingRow(l)] # Absent
  BY <1>2, JobTyped
<1>4. Wants(c) = {<<ListingRow(l), "update">>}
  BY <1>2, <1>3 DEF Wants
<1>5. LocksFit(job[c], "commit", c \in second, holds[c] \cup Wants(c), db)
  BY <1>2, <1>3, <1>4 DEF LocksFit, WithdrawLocks, Settling
<1>6. ASSUME GoOn(c, "commit", Holding(ListingRow(l),
                                       [db[ListingRow(l)] EXCEPT !.status = "CANCELLED"])),
             got' = got
      PROVE  IInv'
  <2>1. PICK rows :
          rows = Holding(ListingRow(l), [db[ListingRow(l)] EXCEPT !.status = "CANCELLED"])
    OBVIOUS
  <2>2. "CANCELLED" \in Engine!ListingStatus
    BY DEF Engine!ListingStatus
  <2>3. RowsFit(job[c], "commit", holds[c] \cup Wants(c), rows, db)
    BY <1>2, <1>3, <1>4, <2>1, <2>2, StatusSet
  <2>4. GoOn(c, "commit", rows) /\ "commit" \notin Idle /\ "commit" \notin {"listings", "pay"}
    BY <1>6, <2>1 DEF Idle
  <2>5. at[c] \notin Idle \cup {"commit"}
    BY <1>2 DEF Idle
  <2> QED BY <1>2, <1>5, <1>6, <2>3, <2>4, <2>5, GoesToNext
<1> QED BY <1>2, <1>3, <1>6, FailStep DEF WithdrawListing, Idle

\* What a purchase holds and knows at its statement.
LEMMA PurchaseAt ==
  ASSUME IInv, NEW c \in Call, NEW statement, At(c, {"buy"}, statement),
         statement \notin Idle \cup {"commit"}
  PROVE  /\ at[c] = statement /\ at[c] \notin Idle \cup {"commit"} /\ job[c].op = "buy"
         /\ DatabaseFits(db) /\ ~\E d \in Call : Waits(c, d)
         /\ BuyLocks(job[c], statement, c \in second, holds[c], db)
         /\ Buyer(c) = BuyerIn(job[c]) /\ Seller(c) = SellerIn(job[c], db)
         /\ FirstUser(c) = FirstIn(job[c], db) /\ SecondUser(c) = SecondIn(job[c], db)
         /\ Buyer(c) \in Account /\ Seller(c) \in Account
         /\ job[c].listing \in ListingId /\ db[ListingRow(job[c].listing)] # Absent
         /\ db[ListingRow(job[c].listing)].bet \in BetId
         /\ db[BetRow(db[ListingRow(job[c].listing)].bet)] # Absent
<1>1. /\ at[c] = statement /\ job[c].op = "buy" /\ ~\E d \in Call : Waits(c, d)
      /\ DatabaseFits(db) /\ JobFits(job[c], statement, db)
      /\ LocksFit(job[c], statement, c \in second, holds[c], db)
  BY Executing
<1>2. PICK l : l = job[c].listing /\ l \in ListingId /\ db[ListingRow(l)] # Absent
  BY <1>1, JobTyped
<1>3. job[c].user \in Account
  BY <1>1, JobTyped DEF Account
<1>4. /\ db[ListingRow(l)].seller \in Account /\ db[ListingRow(l)].bet \in BetId
      /\ db[BetRow(db[ListingRow(l)].bet)] # Absent
  BY <1>1, <1>2, ListingFits
<1>5. BuyLocks(job[c], statement, c \in second, holds[c], db)
  BY <1>1 DEF LocksFit
<1> QED BY <1>1, <1>2, <1>3, <1>4, <1>5
        DEF Buyer, Seller, BuyerIn, SellerIn, FirstUser, SecondUser, FirstIn, SecondIn

\* A statement of a purchase that takes a lock only.
LEMMA PurchaseGoes ==
  ASSUME IInv, NEW c \in Call, NEW statement, NEW next, At(c, {"buy"}, statement),
         statement \notin Idle \cup {"commit"}, next \notin Idle,
         BuyLocks(job[c], next, c \in second, holds[c] \cup Wants(c), db),
         GoOn(c, next, <<>>), UNCHANGED got
  PROVE  IInv'
<1>1. /\ at[c] \notin Idle \cup {"commit"} /\ job[c].op = "buy"
      /\ ~\E d \in Call : Waits(c, d)
  BY PurchaseAt
<1>2. LocksFit(job[c], next, c \in second, holds[c] \cup Wants(c), db)
  BY <1>1 DEF LocksFit, Settling
<1>3. job[c].op \notin Settling
  BY <1>1 DEF Settling
<1> QED BY <1>1, <1>2, <1>3, RowsNone, GoesToNext

\* BuyListedBet: the market, the listing, the bet, two users, the sale.
LEMMA BuyMarketStep ==
  ASSUME IInv, NEW c \in Call, BuyMarket(c)
  PROVE  IInv'
<1>1. At(c, {"buy"}, "listingMarket")
  BY DEF BuyMarket
<1>2. /\ at[c] = "listingMarket"
      /\ BuyLocks(job[c], "listingMarket", c \in second, holds[c], db)
  BY <1>1, PurchaseAt DEF Idle
<1>3. PICK next \in {"listing", "closed"} : GoOn(c, next, <<>>) /\ UNCHANGED got
  BY DEF BuyMarket
<1>4. BuyLocks(job[c], next, c \in second, holds[c] \cup Wants(c), db)
  BY <1>2, <1>3 DEF BuyLocks, Wants
<1> QED BY <1>1, <1>3, <1>4, PurchaseGoes DEF Idle

LEMMA BuyClosedStep ==
  ASSUME IInv, NEW c \in Call, BuyClosed(c)
  PROVE  IInv'
<1>1. /\ at[c] \notin Idle /\ job[c].op = "buy"
  BY PurchaseAt DEF BuyClosed, Idle
<1> QED BY <1>1, RollBackStep DEF BuyClosed

LEMMA BuyListingStep ==
  ASSUME IInv, NEW c \in Call, BuyListing(c)
  PROVE  IInv'
<1>1. At(c, {"buy"}, "listing") /\ c \notin second
  BY DEF BuyListing
<1>2. /\ at[c] = "listing" /\ at[c] \notin Idle
      /\ BuyLocks(job[c], "listing", c \in second, holds[c], db)
      /\ Buyer(c) = BuyerIn(job[c]) /\ Seller(c) = SellerIn(job[c], db)
  BY <1>1, PurchaseAt DEF Idle
<1>3. CASE Seller(c) # Buyer(c) /\ GoOn(c, "soldBet", <<>>) /\ UNCHANGED got
  <2>1. BuyLocks(job[c], "soldBet", c \in second, holds[c] \cup Wants(c), db)
    BY <1>1, <1>2, <1>3 DEF BuyLocks, Wants
  <2> QED BY <1>1, <1>3, <2>1, PurchaseGoes DEF Idle
<1> QED BY <1>2, <1>3, FailStep DEF BuyListing, Seller

\* invalidateStaleListing, in a second transaction.
LEMMA InvalidateStep ==
  ASSUME IInv, NEW c \in Call, Invalidate(c)
  PROVE  IInv'
<1>1. At(c, {"buy"}, "listing") /\ c \in second /\ got' = got
  BY DEF Invalidate
<1>2. /\ at[c] = "listing" /\ at[c] \notin Idle \cup {"commit"} /\ job[c].op = "buy"
      /\ DatabaseFits(db) /\ ~\E d \in Call : Waits(c, d)
      /\ BuyLocks(job[c], "listing", c \in second, holds[c], db)
      /\ job[c].listing \in ListingId /\ db[ListingRow(job[c].listing)] # Absent
  BY <1>1, PurchaseAt DEF Idle
<1>3. PICK l : l = job[c].listing
  OBVIOUS
<1>4. Wants(c) = {<<ListingRow(l), "update">>}
  BY <1>2, <1>3 DEF Wants
<1>5. LocksFit(job[c], "commit", c \in second, holds[c] \cup Wants(c), db)
  BY <1>1, <1>2, <1>3, <1>4 DEF LocksFit, BuyLocks, Settling
<1>6. PICK rows :
        /\ \/ rows = Holding(ListingRow(l),
                             [db[ListingRow(l)] EXCEPT !.status = "CANCELLED"])
           \/ rows = <<>>
        /\ GoOn(c, "commit", rows)
  BY <1>3 DEF Invalidate
<1>7. RowsFit(job[c], "commit", holds[c] \cup Wants(c), rows, db)
  <2>1. "CANCELLED" \in Engine!ListingStatus
    BY DEF Engine!ListingStatus
  <2>2. PICK f : f = Holding(ListingRow(l), [db[ListingRow(l)] EXCEPT !.status = "CANCELLED"])
    OBVIOUS
  <2>3. RowsFit(job[c], "commit", holds[c] \cup Wants(c), f, db)
    BY <1>2, <1>3, <1>4, <2>1, <2>2, StatusSet
  <2> QED BY <1>6, <2>2, <2>3, RowsNone
<1>8. GoOn(c, "commit", rows) /\ "commit" \notin Idle /\ "commit" \notin {"listings", "pay"}
  BY <1>6 DEF Idle
<1>9. at[c] \notin Idle \cup {"commit"}
      /\ ~(\E d \in Call : Waits(c, d))
      /\ (got' = got \/ \E query : Keep(c, query))
  BY <1>1, <1>2
<1>10. job[c].op = "buy" /\ "commit" # "commit" => DOMAIN rows = {}
  OBVIOUS
<1> QED BY <1>5, <1>7, <1>8, <1>9, <1>10, GoesToNext

LEMMA BuyBetStep ==
  ASSUME IInv, NEW c \in Call, BuyBet(c)
  PROVE  IInv'
<1>1. At(c, {"buy"}, "soldBet")
  BY DEF BuyBet
<1>2. /\ at[c] = "soldBet" /\ at[c] \notin Idle
      /\ BuyLocks(job[c], "soldBet", c \in second, holds[c], db)
  BY <1>1, PurchaseAt DEF Idle
<1>3. CASE GoOn(c, "first", <<>>) /\ UNCHANGED got
  <2>1. BuyLocks(job[c], "first", c \in second, holds[c] \cup Wants(c), db)
    BY <1>1, <1>2, <1>3 DEF BuyLocks, Wants
  <2> QED BY <1>1, <1>3, <2>1, PurchaseGoes DEF Idle
<1> QED BY <1>2, <1>3, FailStep DEF BuyBet

LEMMA BuyFirstStep ==
  ASSUME IInv, NEW c \in Call, BuyFirst(c)
  PROVE  IInv'
<1>1. At(c, {"buy"}, "first")
  BY DEF BuyFirst
<1>2. /\ at[c] = "first" /\ at[c] \notin Idle
      /\ BuyLocks(job[c], "first", c \in second, holds[c], db)
      /\ FirstUser(c) = FirstIn(job[c], db)
  BY <1>1, PurchaseAt DEF Idle
<1>3. CASE GoOn(c, "both", <<>>) /\ UNCHANGED got
  <2>1. BuyLocks(job[c], "both", c \in second, holds[c] \cup Wants(c), db)
    BY <1>1, <1>2, <1>3 DEF BuyLocks, Wants
  <2> QED BY <1>1, <1>3, <2>1, PurchaseGoes DEF Idle
<1> QED BY <1>2, <1>3, FailStep DEF BuyFirst

LEMMA BuyPayStep ==
  ASSUME IInv, NEW c \in Call, BuyPay(c)
  PROVE  IInv'
<1>1. At(c, {"buy"}, "both")
  BY DEF BuyPay
<1>2. /\ at[c] = "both" /\ at[c] \notin Idle \cup {"commit"} /\ job[c].op = "buy"
      /\ DatabaseFits(db) /\ ~\E d \in Call : Waits(c, d)
      /\ BuyLocks(job[c], "both", c \in second, holds[c], db)
      /\ FirstUser(c) = FirstIn(job[c], db) /\ SecondUser(c) = SecondIn(job[c], db)
      /\ Buyer(c) \in Account /\ Seller(c) \in Account
      /\ job[c].listing \in ListingId /\ db[ListingRow(job[c].listing)] # Absent
      /\ db[ListingRow(job[c].listing)].bet \in BetId
      /\ db[BetRow(db[ListingRow(job[c].listing)].bet)] # Absent
  BY <1>1, PurchaseAt DEF Idle
<1>3. PICK l, b, G : /\ l = job[c].listing /\ b = db[ListingRow(l)].bet
                     /\ G = holds[c] \cup Wants(c)
  OBVIOUS
<1>4. Wants(c) = {<<UserRow(SecondUser(c)), "update">>}
  BY <1>2 DEF Wants
<1>5. /\ BuyLocks(job[c], "commit", c \in second, G, db)
      /\ <<ListingRow(l), "update">> \in G /\ <<BetRow(b), "update">> \in G
      /\ <<UserRow(FirstUser(c)), "update">> \in G /\ <<UserRow(SecondUser(c)), "update">> \in G
  BY <1>2, <1>3, <1>4 DEF BuyLocks
<1>6. LocksFit(job[c], "commit", c \in second, holds[c] \cup Wants(c), db)
  BY <1>2, <1>3, <1>5 DEF LocksFit, Settling
<1>7. <<UserRow(Buyer(c)), "update">> \in G /\ <<UserRow(Seller(c)), "update">> \in G
  BY <1>5 DEF FirstUser, SecondUser
<1>8. \A v : /\ RowsFit(job[c], "commit", G, Holding(UserRow(Buyer(c)), v), db)
             /\ RowsFit(job[c], "commit", G, Holding(UserRow(Seller(c)), v), db)
  BY <1>2, <1>7, UserWritten, RowsOne
<1>9. PICK sold : sold = [db[BetRow(b)] EXCEPT !.owner = Buyer(c)]
  OBVIOUS
<1>10. RowsFit(job[c], "commit", G, Holding(BetRow(b), sold), db)
  <2>1. PICK row : row = db[BetRow(b)]
    OBVIOUS
  <2>2. row \in Engine!BetRow
    <3>1. b \in BetId /\ db[BetRow(b)] # Absent /\ DatabaseFits(db)
      BY <1>2, <1>3
    <3> QED BY <2>1, <3>1, BetFits
  <2>3. sold \in Engine!BetRow /\ sold.market = row.market
    BY <1>2, <1>9, <2>1, <2>2 DEF Engine!BetRow, Engine!Account, Account
  <2> QED BY <1>2, <1>3, <1>5, <2>1, <2>3, BetWritten, RowsOne
<1>11. PICK bought : bought = [db[ListingRow(l)] EXCEPT !.status = "SOLD",
                                                        !.buyer = Buyer(c)]
  OBVIOUS
<1>12. RowsFit(job[c], "commit", G, Holding(ListingRow(l), bought), db)
  <2>1. PICK row : row = db[ListingRow(l)]
    OBVIOUS
  <2>2. row \in Engine!ListingRow
    <3>1. l \in ListingId /\ db[ListingRow(l)] # Absent /\ DatabaseFits(db)
      BY <1>2, <1>3
    <3> QED BY <2>1, <3>1, ListingFits
  <2>3. /\ bought \in Engine!ListingRow /\ bought.market = row.market
        /\ bought.bet = row.bet /\ bought.seller = row.seller
    BY <1>2, <1>11, <2>1, <2>2
       DEF Engine!ListingRow, Engine!Account, Account, Engine!ListingStatus
  <2>4. l \in ListingId /\ db[ListingRow(l)] # Absent /\ DatabaseFits(db)
    BY <1>2, <1>3
  <2>5. /\ ListingRow(l) \in Row /\ ValueFits(ListingRow(l), bought, db)
        /\ Updates(ListingRow(l), G, db)
    BY <1>5, <2>1, <2>3, <2>4, ListingWritten
  <2> QED BY <2>5, RowsOne
<1>13. ASSUME NEW x, NEW y,
              GoOn(c, "commit",
                   Over(Over(Holding(UserRow(Buyer(c)), x), Holding(UserRow(Seller(c)), y)),
                        Over(Holding(BetRow(b), sold), Holding(ListingRow(l), bought)))),
              got' = got
       PROVE  IInv'
  <2>1. PICK rows :
          rows = Over(Over(Holding(UserRow(Buyer(c)), x), Holding(UserRow(Seller(c)), y)),
                      Over(Holding(BetRow(b), sold), Holding(ListingRow(l), bought)))
    OBVIOUS
  <2>2. RowsFit(job[c], "commit", G, rows, db)
    BY <1>8, <1>10, <1>12, <2>1, RowsBoth
  <2>3. RowsFit(job[c], "commit", holds[c] \cup Wants(c), rows, db)
    BY <1>3, <2>2
  <2>4. GoOn(c, "commit", rows) /\ "commit" \notin Idle /\ "commit" \notin {"listings", "pay"}
    BY <1>13, <2>1 DEF Idle
  <2>5. at[c] \notin Idle \cup {"commit"}
        /\ ~(\E d \in Call : Waits(c, d))
        /\ (got' = got \/ \E query : Keep(c, query))
    BY <1>2, <1>13
  <2>6. job[c].op = "buy" /\ "commit" # "commit" => DOMAIN rows = {}
    OBVIOUS
  <2> QED BY <1>6, <2>3, <2>4, <2>5, <2>6, GoesToNext
<1> QED BY <1>2, <1>3, <1>9, <1>11, <1>13, FailStep DEF BuyPay

-----------------------------------------------------------------------------
(* The whole system *)

\* A call that begins a transaction.
LEMMA Starts ==
  ASSUME IInv, NEW c \in Call, at[c] \in {"new", "again"}, NEW j, NEW statement,
         at' = [at EXCEPT ![c] = statement], job' = [job EXCEPT ![c] = j],
         UNCHANGED <<db, second, got, holds, wrote>>,
         Cardinality(Connected) < Connections,
         statement \notin Idle \cup {"listings", "pay"}, JobFits(j, statement, db),
         LocksFit(j, statement, c \in second, {}, db),
         c \in second => j.op \in {"resolve", "buy"},
         j.op = "create" => \A d \in Running \ {c} :
                              job[d].op = "create" => job[d].market # j.market
  PROVE  IInv'
<1>1. CallFits(c) /\ DatabaseFits(db) /\ Shapes
  BY DEF IInv
<1>2. /\ at'[c] = statement /\ job'[c] = j /\ holds'[c] = {} /\ wrote'[c] = <<>>
      /\ db' = db /\ second' = second
  <2>1. holds[c] = {} /\ wrote[c] = <<>>
    BY <1>1 DEF CallFits, Fits, Idle
  <2> QED BY <1>1, <2>1 DEF Shapes
<1>3. Others(c)
  BY <1>1 DEF Shapes, Others
<1>4. Shapes'
  BY <1>1 DEF Shapes
<1>5. (Cardinality(Connected) <= Connections)'
  <2>1. PICK X, Y : X = Connected /\ Y = Connected'
    OBVIOUS
  <2>2. Y = X \cup {c} /\ c \notin X
    BY <1>2, <1>3, <2>1 DEF Connected, Others, Idle
  <2>3. IsFiniteSet(X)
    BY <2>1, SizeAssumption, FS_Subset DEF Connected
  <2>4. Cardinality(Y) = Cardinality(X) + 1 /\ Cardinality(X) \in Nat
    BY <2>2, <2>3, FS_AddElement, FS_CardinalityType
  <2>5. Cardinality(X) < Connections
    BY <2>1
  <2>6. Cardinality(Y) <= Connections
    BY <2>4, <2>5, SizeAssumption
  <2> QED BY <2>1, <2>6
<1>6. CallFits(c)'
  <2>1. WritesFit(j, statement, {}, <<>>, db)
    BY NoRows DEF WritesFit
  <2>2. QueryFits(j, statement, got[c], db)
    BY DEF QueryFits
  <2>3. Fits(j, statement, c \in second, got[c], {}, <<>>, db)
    BY <2>1, <2>2 DEF Fits, Idle
  <2>4. Fits(job'[c], at'[c], c \in second', got'[c], holds'[c], wrote'[c], db')
    BY <1>2, <2>3
  <2> QED BY <2>4 DEF CallFits
<1>7. \A d \in Call \ {c} : Apart(c, d)' /\ Apart(d, c)'
  <2>1. SUFFICES ASSUME NEW d \in Call \ {c}
                 PROVE  Apart(c, d)' /\ Apart(d, c)'
    OBVIOUS
  <2>2. DOMAIN wrote'[c] = {}
    BY <1>2, NoRows
  <2>3. Compatible(holds'[c], holds'[d]) /\ Compatible(holds'[d], holds'[c])
    BY <1>2 DEF Compatible
  <2>4. at'[d] \notin {"new", "end"} /\ job'[c].op = "create" /\ job'[d].op = "create"
          => job'[c].market # job'[d].market
    BY <1>2, <1>3, <2>1 DEF Others, Running
  <2> QED BY <2>2, <2>3, <2>4 DEF Apart
<1>8. DatabaseFits(db)'
  BY <1>1, <1>2
<1>9. \A d \in Call : CallFits(d)'
  BY <1>2, <1>3, <1>6, OthersFit
<1>10. \A d, e \in Call : d # e => Apart(d, e)'
  BY <1>3, <1>7, OthersApart
<1> QED BY <1>4, <1>5, <1>8, <1>9, <1>10 DEF IInv

\* BeginTx, for the first and for the second time.
LEMMA BeginStep ==
  ASSUME IInv, NEW c \in Call, Begin(c)
  PROVE  IInv'
<1>1. PICK j \in Job \cap Asked(c) :
        /\ j.op \in {"buy", "withdraw"} => db[ListingRow(j.listing)] # Absent
        /\ j.op = "list" => db[BetRow(j.bet)] # Absent
        /\ j.op = "create" => New(j.market)
        /\ j.op \in {"bet", "lock", "resolve", "cancel"} =>
             db[MarketRow(j.market)] # Absent
        /\ job' = [job EXCEPT ![c] = j]
        /\ at' = [at EXCEPT ![c] = FirstStatement(j)]
  BY DEF Begin
<1>2. PICK statement : statement = FirstStatement(j)
  OBVIOUS
<1>3. /\ at[c] = "new" /\ Cardinality(Connected) < Connections
      /\ UNCHANGED <<db, second, got, holds, wrote>>
  BY DEF Begin
<1>4. c \notin second
  BY <1>3 DEF IInv, CallFits, Fits
<1>5. JobFits(j, statement, db)
  BY <1>1 DEF JobFits, New, Written, Settling
<1>6. j.op \in Op
  BY <1>1 DEF Job, Op
<1>7. /\ statement \notin Idle \cup {"listings", "pay"}
      /\ LocksFit(j, statement, c \in second, {}, db)
  BY <1>2, <1>4, <1>6
     DEF FirstStatement, Op, Idle, LocksFit, BetLocks, CreateLocks, AdjustLocks, SyncLocks,
         SettleLocks, ListLocks, WithdrawLocks, BuyLocks, Settling
<1>8. j.op = "create" => \A d \in Running \ {c} :
                           job[d].op = "create" => job[d].market # j.market
  BY <1>1 DEF New
<1>9. /\ job' = [job EXCEPT ![c] = j] /\ at' = [at EXCEPT ![c] = statement]
  BY <1>1, <1>2
<1> QED BY <1>3, <1>4, <1>5, <1>7, <1>8, <1>9, Starts

LEMMA AgainStep ==
  ASSUME IInv, NEW c \in Call, Again(c)
  PROVE  IInv'
<1>1. /\ at[c] = "again" /\ Cardinality(Connected) < Connections
      /\ UNCHANGED <<db, job, second, got, holds, wrote>>
  BY DEF Again
<1>2. PICK j, statement :
        j = job[c] /\ statement = IF j.op = "resolve" THEN "market" ELSE "listing"
  OBVIOUS
<1>3. /\ CallFits(c) /\ job' = [job EXCEPT ![c] = j]
      /\ at' = [at EXCEPT ![c] = statement]
  BY <1>1, <1>2 DEF IInv, Shapes, Again
<1>4. c \in second /\ j.op \in {"resolve", "buy"} /\ JobFits(j, "again", db)
  BY <1>1, <1>2, <1>3 DEF CallFits, Fits, Idle
<1>5. JobFits(j, statement, db)
  BY <1>4 DEF JobFits
<1>6. /\ statement \notin Idle \cup {"listings", "pay"}
      /\ LocksFit(j, statement, TRUE, {}, db)
  BY <1>2, <1>4 DEF Idle, LocksFit, SettleLocks, BuyLocks, Settling
<1>7. LocksFit(j, statement, c \in second, {}, db)
  BY <1>4, <1>6
<1> QED BY <1>1, <1>3, <1>4, <1>5, <1>6, <1>7, Starts

\* PostgreSQL aborts a transaction, or all of them.
LEMMA VictimStep ==
  ASSUME IInv, NEW c \in Call, Victim(c)
  PROVE  IInv'
<1>1. at[c] \notin Idle
  BY WaitingAt DEF Victim, InCircle
<1> QED BY <1>1, FailStep DEF Victim

LEMMA CrashStep ==
  ASSUME IInv, Crash
  PROVE  IInv'
<1>1. DatabaseFits(db)' /\ Shapes'
  BY DEF IInv, Crash, Shapes
<1>2. (Cardinality(Connected) <= Connections)'
  <2>1. Connected' = {}
    BY DEF Crash, Connected, Running
  <2> QED BY <2>1, CardinalityKept
<1>3. ASSUME NEW c \in Call
      PROVE  CallFits(c)'
  <2>1. Fits(job[c], at[c], c \in second, got[c], holds[c], wrote[c], db)
    BY DEF IInv, CallFits
  <2>2. /\ at'[c] = (IF at[c] = "new" THEN "new" ELSE "end")
        /\ holds'[c] = {} /\ wrote'[c] = <<>> /\ c \notin second' /\ job' = job /\ db' = db
    BY DEF Crash, Running
  <2>3. at[c] # "new" => JobFits(job[c], "end", db)
    BY <2>1 DEF Fits, JobFits
  <2>4. at'[c] = "end" => JobFits(job'[c], at'[c], db')
    BY <2>2, <2>3
  <2>5. at'[c] = "new" => job'[c] = Absent
    BY <2>1, <2>2 DEF Fits
  <2>6. at'[c] \in {"new", "end"}
    BY <2>2
  <2>7. Fits(job'[c], at'[c], c \in second', got'[c], holds'[c], wrote'[c], db')
    BY <2>2, <2>4, <2>5, <2>6 DEF Fits, Idle
  <2> QED BY <2>7 DEF CallFits
<1>4. ASSUME NEW c \in Call, NEW d \in Call
      PROVE  Apart(c, d)'
  <2>1. holds'[c] = {} /\ wrote'[c] = <<>> /\ at'[c] \in {"new", "end"}
    BY DEF Crash, Running
  <2> QED BY <2>1, NoRows DEF Apart, Compatible
<1> QED BY <1>1, <1>2, <1>3, <1>4 DEF IInv

\* Nothing happens.
LEMMA Stutters ==
  ASSUME IInv, UNCHANGED vars
  PROVE  IInv'
<1>1. /\ db' = db /\ job' = job /\ at' = at /\ second' = second /\ got' = got
      /\ holds' = holds /\ wrote' = wrote
  BY DEF vars
<1>2. Shapes' /\ DatabaseFits(db)'
  BY <1>1 DEF IInv, Shapes
<1>3. (Cardinality(Connected) <= Connections)'
  <2>1. Connected' = Connected
    BY <1>1 DEF Connected
  <2> QED BY <2>1, CardinalityKept
<1>4. \A c \in Call : CallFits(c)'
  BY <1>1 DEF IInv, CallFits
<1>5. \A c, d \in Call : c # d => Apart(c, d)'
  BY <1>1 DEF IInv, Apart
<1> QED BY <1>2, <1>3, <1>4, <1>5 DEF IInv

\* At first no call has begun.
LEMMA IInvInit == Init => IInv
<1>1. SUFFICES ASSUME Init
               PROVE  IInv
  OBVIOUS
<1>2. DatabaseFits(db) /\ Shapes
  BY <1>1, DatabaseAssumption DEF Init, Shapes
<1>3. Cardinality(Connected) <= Connections
  <2>1. Connected = {}
    BY <1>1 DEF Init, Connected
  <2> QED BY <2>1, FS_EmptySet, SizeAssumption
<1>4. ASSUME NEW c \in Call
      PROVE  CallFits(c)
  <2>1. /\ job[c] = Absent /\ at[c] = "new" /\ c \notin second
        /\ holds[c] = {} /\ wrote[c] = <<>>
    BY <1>1 DEF Init
  <2> QED BY <2>1 DEF CallFits, Fits, Idle
<1>5. ASSUME NEW c \in Call, NEW d \in Call
      PROVE  Apart(c, d)
  <2>1. holds[c] = {} /\ wrote[c] = <<>> /\ at[c] = "new"
    BY <1>1 DEF Init
  <2> QED BY <2>1, NoRows DEF Apart, Compatible
<1> QED BY <1>2, <1>3, <1>4, <1>5 DEF IInv

\* Every step of every call keeps the invariant.
LEMMA IInvStep == IInv /\ [Next]_vars => IInv'
<1>1. SUFFICES ASSUME IInv, [Next]_vars
               PROVE  IInv'
  OBVIOUS
<1>2. CASE Crash
  BY <1>1, <1>2, CrashStep
<1>3. CASE UNCHANGED vars
  BY <1>1, <1>3, Stutters
<1>4. ASSUME NEW c \in Call, Begin(c)
      PROVE  IInv'
  BY <1>1, <1>4, BeginStep
<1>5. ASSUME NEW c \in Call, Proceed(c)
      PROVE  IInv'
  <2>1. CASE Again(c) \/ Commit(c) \/ Victim(c)
    BY <1>1, <2>1, AgainStep, CommitStep, VictimStep
  <2>2. CASE CreateSeed(c) \/ CreateInsert(c) \/ BetMarket(c) \/ BetUser(c) \/ BetPool(c)
             \/ AdjustRead(c) \/ WriteBalance(c)
    BY <1>1, <2>2, CreateSeedStep, CreateInsertStep, BetMarketStep, BetUserStep, BetPoolStep,
       AdjustReadStep, WriteBalanceStep
  <2>3. CASE SettleMarket(c) \/ SettleListing(c) \/ SettleQuery(c) \/ SettlePay(c)
             \/ SettleStatus(c) \/ SettleHouse(c)
    BY <1>1, <2>3, SettleMarketStep, SettleListingStep, SettleQueryStep, SettlePayStep,
       SettleStatusStep, SettleHouseStep
  <2>4. CASE ListMarket(c) \/ ListBet(c) \/ ListInsert(c) \/ WithdrawListing(c)
    BY <1>1, <2>4, ListMarketStep, ListBetStep, ListInsertStep, WithdrawListingStep
  <2>5. CASE BuyMarket(c) \/ BuyClosed(c) \/ BuyListing(c) \/ Invalidate(c) \/ BuyBet(c)
             \/ BuyFirst(c) \/ BuyPay(c)
    BY <1>1, <2>5, BuyMarketStep, BuyClosedStep, BuyListingStep, InvalidateStep, BuyBetStep,
       BuyFirstStep, BuyPayStep
  <2> QED BY <1>5, <2>1, <2>2, <2>3, <2>4, <2>5 DEF Proceed
<1> QED BY <1>1, <1>2, <1>3, <1>4, <1>5 DEF Next

\* What the invariant says of the locks and of the uncommitted rows.
LEMMA WellTyped == IInv => TypeOK
<1>1. SUFFICES ASSUME IInv
               PROVE  TypeOK
  OBVIOUS
<1>2. DOMAIN db = Row /\ Cardinality(Connected) <= Connections
  BY <1>1 DEF IInv, DatabaseFits
<1>3. second \subseteq Running
  BY <1>1 DEF IInv, Shapes, CallFits, Fits, Running
<1>4. ASSUME NEW c \in Call
      PROVE  /\ holds[c] \subseteq Row \X Mode /\ DOMAIN wrote[c] \subseteq Row
             /\ c \notin Connected => holds[c] = {} /\ wrote[c] = <<>>
  <2>1. CallFits(c) /\ DatabaseFits(db)
    BY <1>1 DEF IInv
  <2>2. holds[c] \subseteq Row \X Mode
    BY <2>1, LocksTyped
  <2>3. at[c] \in Idle => holds[c] = {} /\ wrote[c] = <<>>
    BY <2>1 DEF CallFits, Fits
  <2>4. at[c] \notin Idle => WritesFit(job[c], at[c], holds[c], wrote[c], db)
    BY <2>1 DEF CallFits, Fits
  <2>5. DOMAIN wrote[c] \subseteq Row
    BY <2>3, <2>4, NoRows DEF WritesFit
  <2> QED BY <2>2, <2>3, <2>5 DEF Connected, Idle
<1> QED BY <1>2, <1>3, <1>4 DEF TypeOK

\* The invariant holds of every reachable state: locks and writes are those of the
\* statement a call executes next.
THEOREM IInvHolds == Spec => []IInv
BY IInvInit, IInvStep, PTL DEF Spec

\* Only a call with one of the pool's connections has locks or uncommitted rows, and
\* no more calls than the pool has connections are between BeginTx and the end of
\* their transaction (db.SetMaxOpenConns).
THEOREM LocksAlwaysTyped == Spec => []TypeOK
BY IInvHolds, WellTyped, PTL

\* Two calls never hold conflicting locks, nor have they written the same row: what
\* a statement reads after its lock is what the last commit left.
THEOREM WritersAlwaysApart ==
  Spec => [](\A c, d \in Call :
               c # d => /\ Compatible(holds[c], holds[d])
                        /\ DOMAIN wrote[c] \cap DOMAIN wrote[d] = {})
<1>1. IInv => \A c, d \in Call :
                c # d => /\ Compatible(holds[c], holds[d])
                         /\ DOMAIN wrote[c] \cap DOMAIN wrote[d] = {}
  BY DEF IInv, Apart
<1> QED BY <1>1, IInvHolds, PTL

\* The locks taken in the order markets, bet_listings, bets, users
\* (listing_service.go:31-34), and the users of a sale in the order of their ids,
\* let calls wait for each other in a circle only where a settlement pays.
THEOREM DeadlocksAreAlwaysSettlements == Spec => []DeadlocksAreSettlements
BY IInvHolds, CirclesPay, PTL
=============================================================================
