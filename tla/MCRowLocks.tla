----------------------------- MODULE MCRowLocks -----------------------------
(* Constants for model checking RowLocks: a market about to be settled, an   *)
(* open one with a bet on sale, and room for a third, shared by two bettors. *)
EXTENDS RowLocks, TLC

CONSTANTS c1, c2, c3, u1, u2, m1, m2, a, b, b1, b2, b3, b4, l1, l2, l3

MCBefore(x, y) == <<x, y>> \in {<<u1, u2>>, <<House, u1>>, <<House, u2>>}

\* One call bets, trades or settles, one does anything, one adjusts a balance.
MCAsked(c) ==
  CASE c = c1 -> {j \in Job : j.op \notin {"create", "adjust", "sync"}}
    [] c = c2 -> Job
    [] c = c3 -> [op : {"adjust"}, user : {u1}, amount : Deltas]

BetBy(u, m, o, stake) ==
  [market |-> m, owner |-> u, original |-> u, outcome |-> o, stake |-> stake]
ListingOf(id, m, seller, status) ==
  [bet |-> id, market |-> m, seller |-> seller, buyer |-> NoUser, price |-> 2,
   status |-> status]
MarketIn(status) ==
  [status |-> status, outcomes |-> Outcome, winning |-> NoOutcome]

\* One bettor's side lost in m1, or nobody bet on it; m2 is open or locked too.
MCDatabase ==
  LET rows ==
        UserRow(House) :> 20 @@ UserRow(u1) :> 2 @@ UserRow(u2) :> 2
        @@ MarketRow(m1) :> MarketIn("LOCKED")
        @@ BetRow(b1) :> BetBy(u1, m1, a, 2) @@ BetRow(b2) :> BetBy(u2, m1, a, 3)
        @@ BetRow(b3) :> BetBy(u2, m2, a, 2) @@ ListingRow(l2) :> ListingOf(b2, m1, u2, "CANCELLED")
        @@ PoolRow(m1, a) :> 5
      trading ==
        MarketRow(m2) :> MarketIn("OPEN") @@ ListingRow(l1) :> ListingOf(b3, m2, u2, "LISTED")
        @@ BetRow(b4) :> BetBy(u1, m2, b, 2) @@ ListingRow(l3) :> ListingOf(b4, m2, u1, "LISTED")
        @@ PoolRow(m1, b) :> 0 @@ PoolRow(m2, a) :> 2 @@ PoolRow(m2, b) :> 2
      settling ==
        MarketRow(m2) :> MarketIn("LOCKED") @@ BetRow(b4) :> BetBy(u1, m1, b, 1)
        @@ ListingRow(l1) :> ListingOf(b3, m2, u2, "CANCELLED")
        @@ PoolRow(m1, b) :> 1 @@ PoolRow(m2, a) :> 2 @@ PoolRow(m2, b) :> 0
  IN {rows @@ more @@ [row \in Row |-> Absent] : more \in {trading, settling}}
MCDeltas == {-1}
=============================================================================
