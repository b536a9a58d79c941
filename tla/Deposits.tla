------------------------------ MODULE Deposits ------------------------------
(***************************************************************************)
(* The deposit side of wallet-backend: the poller goroutine walks over the  *)
(* provisioned addresses, scans the chain for what came in since the        *)
(* address's cursor, and ingests what it found into the deposits table and  *)
(* bet-backend's ledger.  A step is one call to the database, the ledger,   *)
(* the Solana RPC node or Jupiter; the chain grows between any two of them. *)
(*                                                                          *)
(* A transaction is known by its position on the chain, which stands for    *)
(* its signature and its slot.  An error of a call is one of the faults     *)
(* that a run admits:                                                       *)
(*   "rpc"     an RPC or Jupiter call fails without effect                  *)
(*   "store"   a database call fails, with or without taking effect         *)
(*   "ledger"  a ledger call fails, with or without taking effect           *)
(*   "lost"    the reply to the broadcast of a swap is lost                 *)
(*   "drop"    a swap's transaction never makes it into a block             *)
(*   "crash"   the process stops and starts again                           *)
(***************************************************************************)
EXTENDS Integers, Sequences, FiniteSetsExt

CONSTANTS
  Accounts,      \* number of provisioned addresses, by derivation index
  Transfers,     \* what one transaction of the outside may bring each account
  SwapMinOut,    \* otherAmountThreshold of a Jupiter quote
  SwapReceipts,  \* what a swap may really bring
  Routes,        \* whether Jupiter has a route; it has none on devnet
  Unit, Rate,    \* 10^12 and rateMicros in the code
  ScanLimit,     \* scanSignatureLimit
  MaxTransfers,  \* bound on the transactions of the outside
  Faults,        \* the faults admitted
  NoRow          \* "no such row" in deposits, or no deposit at hand

Account == 1 .. Accounts

ASSUME CountAssumption ==
  /\ Accounts \in Nat \ {0} /\ ScanLimit \in Nat \ {0} /\ MaxTransfers \in Nat
  /\ Unit \in Nat \ {0} /\ Rate \in Nat \ {0}

ASSUME TransferAssumption ==
  /\ Transfers \subseteq [Account -> [usdc : Nat, sol : Nat]]
  /\ SwapMinOut \in Nat
  /\ \A r \in SwapReceipts : r \in Nat /\ SwapMinOut <= r

ASSUME FaultAssumption ==
  Faults \subseteq {"rpc", "store", "ledger", "lost", "drop", "crash"}

VARIABLES
  chain,      \* the transactions on the chain, oldest first
  deposit,    \* the deposits table, by signature
  cursor,     \* deposit_cursors.last_sig, 0 before the first
  credits,    \* the amounts the ledger has credited for each signature, in order
  at,         \* the address the poller is at
  step,       \* what the poller does next
  seen,       \* the signatures that the scan of the address has returned
  queue,      \* the deposits of the address that it still has to ingest
  hand,       \* the deposit it ingests
  newCursor,  \* the cursor it will save
  usdc,       \* what the deposit at hand is worth, in micro-USDC
  swap        \* what has become of the swap that the poller waits for

pollVars == <<at, step, seen, queue, hand, newCursor, usdc>>
vars == <<chain, deposit, cursor, credits, at, step, seen, queue, hand, newCursor,
          usdc, swap>>

Step == {"scanBase", "scanATA", "insert", "swapping", "swap", "confirmSwap",
         "credit", "credited", "failed", "saveCursor"}
DepositStatus == {"DETECTED", "SWAPPING", "CREDITED", "FAILED"}
DepositRow == [account : Account, asset : {"USDC", "SOL"}, raw : Nat,
               reais : Nat, status : DepositStatus]

ASSUME RowAssumption == NoRow \notin DepositRow

Sig == 1 .. Len(chain)

mulDivRound(a, b, d) == (a * b + d \div 2) \div d

\* Mutant: the conversion rounds up.
microUSDCToReaisUp(micro) == (micro * Rate + Unit - 1) \div Unit

microUSDCToReais(micro) == mulDivRound(micro, Rate, Unit)

(***************************************************************************)
(* A transaction: what it brings each account, whose key signed it (0 for   *)
(* somebody outside), and, for a swap, whether it went through.             *)
(***************************************************************************)
Nothing == [usdc |-> 0, sol |-> 0]
Tx == [brings : [Account -> [usdc : Nat, sol : Nat]], signer : 0 .. Accounts]
Line == [account : Account, reais : Nat]
Found == [list : {"base", "ATA"}, sig : Sig, asset : {"USDC", "SOL"}, amount : Nat]

OnBase(a) == {s \in Sig : chain[s].brings[a].sol > 0 \/ chain[s].signer = a}
OnATA(a) == {s \in Sig : chain[s].brings[a].usdc > 0}

Replies(fault) == {"ok"} \cup (IF fault \in Faults THEN {"failed", "lost"} ELSE {})
Fails(fault) == fault \in Faults

-----------------------------------------------------------------------------
Init ==
  /\ chain = <<>>
  /\ deposit = <<>>
  /\ cursor = [a \in Account |-> 0]
  /\ credits = <<>>
  /\ at = 1 /\ step = "scanBase"
  /\ seen = {} /\ queue = {} /\ hand = NoRow /\ newCursor = 0 /\ usdc = 0
  /\ swap = "none"

\* A new transaction on the chain: no row and no credit yet.
Extend(tx) ==
  /\ chain' = Append(chain, tx)
  /\ deposit' = Append(deposit, NoRow)
  /\ credits' = Append(credits, <<>>)

\* Somebody sends USDC or SOL to deposit addresses; the faucet's grant is one.
Transfer(brings) ==
  /\ Cardinality({s \in Sig : chain[s].signer = 0}) < MaxTransfers
  /\ Extend([brings |-> brings, signer |-> 0])
  /\ UNCHANGED <<cursor, swap, pollVars>>

-----------------------------------------------------------------------------
(* The poller: scanOnce and scanAddress *)

StartAddress ==
  /\ step' = "scanBase"
  /\ seen' = {} /\ queue' = {} /\ hand' = NoRow /\ newCursor' = 0 /\ usdc' = 0

\* The next address of the pass, or the first one of the next pass.
NextAddress ==
  /\ at' = IF at = Accounts THEN 1 ELSE at + 1
  /\ StartAddress

\* An error while scanning: the address is left for this pass.
GiveUp ==
  /\ step \in {"scanBase", "scanATA"}
  /\ Fails("rpc") \/ Fails("store")
  /\ NextAddress
  /\ UNCHANGED <<chain, deposit, cursor, credits, swap>>

\* signaturesSince: the newest signatures of an address after the cursor.
NewestOf(sigs) == {s \in sigs : Cardinality({t \in sigs : t > s}) < ScanLimit}
SignaturesSince(sigs, since) == NewestOf({s \in sigs : s > since})

\* ScanDeposits reads the base address first ...
ScanBase ==
  /\ step = "scanBase"
  /\ seen' = SignaturesSince(OnBase(at), cursor[at])
  /\ step' = "scanATA"
  /\ UNCHANGED <<chain, deposit, cursor, credits, at, queue, hand, newCursor, usdc, swap>>

\* What one transaction brought the account.
DepositsInTx(a, s) ==
  LET in == chain[s].brings[a]
  IN {d \in {[asset |-> "USDC", amount |-> in.usdc], [asset |-> "SOL", amount |-> in.sol]} :
        d.amount > 0}

DepositsIn(a, list, sigs) ==
  UNION {{[list |-> list, sig |-> s, asset |-> d.asset, amount |-> d.amount] :
            d \in DepositsInTx(a, s)} : s \in sigs}

\* The order of what a scan returns: the base address first, each list newest
\* first, and the USDC of a transaction before its SOL.
Precedes(d, e) ==
  \/ d.list = "base" /\ e.list = "ATA"
  \/ d.list = e.list /\ d.sig > e.sig
  \/ d.list = e.list /\ d.sig = e.sig /\ d.asset = "USDC" /\ e.asset = "SOL"
IsNext(d) == \A e \in queue \ {d} : Precedes(d, e)

\* ... and the token account next.
ScanATA ==
  /\ step = "scanATA"
  /\ LET ataSigs == SignaturesSince(OnATA(at), cursor[at])
     IN /\ queue' = DepositsIn(at, "base", seen) \cup DepositsIn(at, "ATA", ataSigs \ seen)
        /\ seen' = seen \cup ataSigs
        /\ newCursor' = Max({cursor[at]} \cup seen')
  /\ step' = IF queue' = {} THEN "saveCursor" ELSE "insert"
  /\ UNCHANGED <<chain, deposit, cursor, credits, at, hand, usdc, swap>>

\* A deposit is done with.
NextDeposit(d) ==
  /\ queue' = queue \ {d}
  /\ step' = IF queue' = {} THEN "saveCursor" ELSE "insert"
  /\ hand' = NoRow /\ usdc' = 0
  /\ UNCHANGED <<at, seen, newCursor>>

\* SetScanCursor, when it has moved.
SaveCursor ==
  /\ step = "saveCursor"
  /\ \E reply \in Replies("store") :
       cursor' = IF reply = "failed" THEN cursor
                 ELSE [cursor EXCEPT ![at] = newCursor]
  /\ NextAddress
  /\ UNCHANGED <<chain, deposit, credits, swap>>

-----------------------------------------------------------------------------
(* IngestDeposit, for one deposit after the other *)

GoTo(s) == step' = s /\ UNCHANGED <<at, seen, queue, hand, newCursor, usdc>>

SetStatus(s, status, reply) ==
  deposit' = IF reply = "failed" THEN deposit
             ELSE [deposit EXCEPT ![s].status = status]

\* Mutant: after a failed ingest the scan goes on and saves its cursor.
LogAndContinue(d) == NextDeposit(d)

\* Mutant: the address is scanned again at once.
RetryAtOnce(d) == StartAddress /\ UNCHANGED at

\* scanAddress stops at a failed ingest, without saving the cursor.
AfterFailure(d) == NextAddress

\* resolveCreditAmount: USDC as it is, SOL by a swap.
Resolve(d) ==
  /\ hand' = d
  /\ IF d.asset = "SOL" THEN step' = "swapping" /\ UNCHANGED usdc
     ELSE step' = "credit" /\ usdc' = d.amount
  /\ UNCHANGED <<at, seen, queue, newCursor>>

DetectedRow(d) ==
  [account |-> at, asset |-> d.asset, raw |-> d.amount, reais |-> 0,
   status |-> "DETECTED"]

\* Mutant: a deposit that failed is ingested again.
InsertAgain ==
  /\ step = "insert"
  /\ \E d \in queue :
       /\ IsNext(d)
       /\ IF deposit[d.sig] # NoRow /\ deposit[d.sig].status # "FAILED"
          THEN NextDeposit(d) /\ UNCHANGED deposit
          ELSE deposit' = [deposit EXCEPT ![d.sig] = DetectedRow(d)] /\ Resolve(d)
  /\ UNCHANGED <<chain, cursor, credits, swap>>

\* InsertDepositIfNew: the UNIQUE signature is the guard against a replay.
Insert ==
  /\ step = "insert"
  /\ \E d \in queue :
       /\ IsNext(d)
       /\ \/ /\ deposit[d.sig] = NoRow
             /\ \E reply \in Replies("store") :
                  /\ deposit' = IF reply = "failed" THEN deposit
                                ELSE [deposit EXCEPT ![d.sig] = DetectedRow(d)]
                  /\ IF reply = "ok" THEN Resolve(d) ELSE AfterFailure(d)
          \/ /\ deposit[d.sig] # NoRow
             /\ UNCHANGED deposit
             /\ NextDeposit(d) \/ (Fails("store") /\ AfterFailure(d))
  /\ UNCHANGED <<chain, cursor, credits, swap>>

\* resolveCreditAmount for SOL: SWAPPING and the account's derivation index.
MarkSwapping ==
  /\ step = "swapping"
  /\ \E reply \in Replies("store") :
       /\ SetStatus(hand.sig, "SWAPPING", reply)
       /\ GoTo(IF reply = "ok" THEN "swap" ELSE "failed")
  /\ UNCHANGED <<chain, cursor, credits, swap>>

\* What a swap adds to the chain: Jupiter pays out to the token account of the
\* key that signs, and nothing in the request names another one.
SwapTx(a, received) ==
  [brings |-> [b \in Account |->
                 IF b = a THEN [usdc |-> received, sol |-> 0] ELSE Nothing],
   signer |-> a]

\* SwapSOLToUSDC up to the broadcast: an error (no route, for one), or a
\* transaction that is broadcast, whether the reply says so or not.
Swap ==
  /\ step = "swap"
  /\ \/ /\ Routes
        /\ swap' = "pending"
        /\ GoTo("confirmSwap")
        /\ UNCHANGED <<chain, deposit, credits>>
     \/ /\ Routes /\ Fails("lost")
        /\ \E r \in SwapReceipts : Extend(SwapTx(at, r))
        /\ GoTo("failed")
        /\ UNCHANGED swap
     \/ /\ ~Routes \/ Fails("rpc")
        /\ GoTo("failed")
        /\ UNCHANGED <<chain, deposit, credits, swap>>
  /\ UNCHANGED cursor

\* confirmSignature under the poller's context, which nothing ever cancels; what
\* is credited is the minimum the quote guarantees.
ConfirmSwap ==
  /\ step = "confirmSwap"
  /\ \/ /\ swap = "landed"
        /\ step' = "credit" /\ usdc' = SwapMinOut
        /\ UNCHANGED <<at, seen, queue, hand, newCursor>>
     \/ /\ swap = "rejected"
        /\ GoTo("failed")
  /\ swap' = "none"
  /\ UNCHANGED <<chain, deposit, cursor, credits>>

\* Mutant: any answer of the ledger counts as a credit.
AfterCreditIgnoringErrors(reply) == "credited"

AfterCredit(reply) == IF reply = "ok" THEN "credited" ELSE "failed"

\* AdjustBalance(+reais).
Credit ==
  /\ step = "credit"
  /\ \E reply \in Replies("ledger") :
       /\ credits' = IF reply = "failed" THEN credits
                     ELSE [credits EXCEPT ![hand.sig] =
                             Append(@, [account |-> at,
                                        reais |-> microUSDCToReais(usdc)])]
       /\ GoTo(AfterCredit(reply))
  /\ UNCHANGED <<chain, deposit, cursor, swap>>

\* MarkDepositCredited.
MarkCredited ==
  /\ step = "credited"
  /\ \E reply \in Replies("store") :
       /\ deposit' = IF reply = "failed" THEN deposit
                     ELSE [deposit EXCEPT ![hand.sig].status = "CREDITED",
                                          ![hand.sig].reais = microUSDCToReais(usdc)]
       /\ IF reply = "ok" THEN NextDeposit(hand) ELSE AfterFailure(hand)
  /\ UNCHANGED <<chain, cursor, credits, swap>>

\* MarkDepositFailed, whose error is ignored.
MarkFailed ==
  /\ step = "failed"
  /\ \E reply \in Replies("store") : SetStatus(hand.sig, "FAILED", reply)
  /\ AfterFailure(hand)
  /\ UNCHANGED <<chain, cursor, credits, swap>>

-----------------------------------------------------------------------------
(* The world around the poller *)

\* What the chain makes of the swap that the poller waits for.
ChainDecides ==
  /\ swap = "pending"
  /\ \/ /\ swap' = "landed"
        /\ \E r \in SwapReceipts : Extend(SwapTx(at, r))
     \/ /\ Fails("rpc")
        /\ swap' = "rejected"
        /\ UNCHANGED <<chain, deposit, credits>>
     \/ /\ Fails("drop")
        /\ swap' = "dropped"
        /\ UNCHANGED <<chain, deposit, credits>>
  /\ UNCHANGED <<cursor, pollVars>>

\* The process stops and starts again: the poller begins a pass.  A swap that
\* had been broadcast has landed before, or is given up for lost.
Crash ==
  /\ Fails("crash")
  /\ at' = 1 /\ StartAddress
  /\ swap' = "none"
  /\ UNCHANGED <<chain, deposit, cursor, credits>>

-----------------------------------------------------------------------------
Poll ==
  \/ GiveUp \/ ScanBase \/ ScanATA \/ SaveCursor
  \/ Insert \/ MarkSwapping \/ Swap \/ ConfirmSwap
  \/ Credit \/ MarkCredited \/ MarkFailed

Next ==
  \/ \E brings \in Transfers : Transfer(brings)
  \/ Poll
  \/ ChainDecides
  \/ Crash

Spec == Init /\ [][Next]_vars

\* The goroutine runs, and the chain decides on what was broadcast, to drop it
\* being a decision.
FairSpec == Spec /\ WF_vars(Poll) /\ WF_vars(ChainDecides)

-----------------------------------------------------------------------------
(* Properties *)

\* The types of the tables and of what the poller holds.
TypeOK ==
  /\ \A s \in Sig : chain[s] \in Tx
  /\ Len(deposit) = Len(chain) /\ Len(credits) = Len(chain)
  /\ \A s \in Sig : deposit[s] = NoRow \/ deposit[s] \in DepositRow
  /\ \A s \in Sig : credits[s] \in Seq(Line)
  /\ cursor \in [Account -> 0 .. Len(chain)]
  /\ at \in Account /\ step \in Step
  /\ seen \subseteq Sig /\ queue \subseteq Found
  /\ hand \in queue \cup {NoRow}
  /\ newCursor \in 0 .. Len(chain) /\ usdc \in Nat
  /\ swap \in {"none", "pending", "landed", "rejected", "dropped"}

\* A signature is credited at most once, however often it is scanned, whichever
\* reply is lost, and wherever the process stops (service.go, IngestDeposit).
CreditedAtMostOnce == \A s \in Sig : Len(credits[s]) <= 1

\* A row that says CREDITED stands for exactly one credit, of that amount, to the
\* account of the row, and every credit has a row.
CreditsHaveRows ==
  \A s \in Sig :
    /\ credits[s] # <<>> => deposit[s] # NoRow
    /\ deposit[s] # NoRow /\ deposit[s].status = "CREDITED" =>
           credits[s] = <<[account |-> deposit[s].account,
                           reais |-> deposit[s].reais]>>

RowStep ==
  \A s \in Sig : deposit[s] # NoRow /\ deposit'[s] # deposit[s] =>
    /\ \A field \in {"account", "asset", "raw"} :
         (deposit'[s])[field] = deposit[s][field]
    /\ <<deposit[s].status, (deposit'[s]).status>> \in
         {<<"DETECTED", "SWAPPING">>, <<"DETECTED", "CREDITED">>,
          <<"DETECTED", "FAILED">>, <<"SWAPPING", "CREDITED">>,
          <<"SWAPPING", "FAILED">>}

\* The deposits table is append-only but for the status, which moves forward and
\* stays at CREDITED or FAILED, for an operator to see (db.go, models.go).
RowsMoveForward == [][RowStep]_vars

LinesOf(a, s) == {i \in DOMAIN credits[s] : credits[s][i].account = a}
CreditsOf(a) == SumFunctionOnSet([s \in Sig |-> Cardinality(LinesOf(a, s))], Sig)
ReaisIn(a, s) ==
  SumFunctionOnSet([i \in DOMAIN credits[s] |-> credits[s][i].reais], LinesOf(a, s))
ReaisOf(a) == SumFunctionOnSet([s \in Sig |-> ReaisIn(a, s)], Sig)
Received(a) == SumFunctionOnSet([s \in Sig |-> chain[s].brings[a].usdc], Sig)
SwapsOf(a) == {s \in Sig : chain[s].signer = a}
SwappedFor(a) ==
  SumFunctionOnSet([s \in Sig |-> chain[s].brings[a].usdc], SwapsOf(a))

\* An account is not credited with more than the USDC that its token account has
\* received, but for the rounding of each credit to whole reais and for one more
\* count of what its swaps brought: a swap is credited for its SOL, and what it
\* brings is found again by a later scan, but never twice and for no one else
\* (service.go, IngestDeposit and microUSDCToReais).
NeverInventsUSDC ==
  \A a \in Account :
    ReaisOf(a) * Unit <=
      (Received(a) + SwappedFor(a)) * Rate + CreditsOf(a) * (Unit \div 2)

CursorStep ==
  cursor' # cursor =>
    \A s \in seen : DepositsInTx(at, s) # {} => deposit[s] # NoRow

\* The cursor moves on only when everything that the scan returned with a deposit in
\* it has its row, after whichever failures and stops: "the cursor is only advanced
\* past deposits we've at least attempted" (poller.go, scanAddress).
CursorWaitsForIngest == [][CursorStep]_vars

\* Every deposit that a saved cursor has passed was recorded for its account, so
\* that the cursor that the two addresses share is safe (poller.go, scanAddress).
CursorPassesOnlyRecorded ==
  \A a \in Account : \A s \in Sig : s <= cursor[a] =>
    \A d \in DepositsInTx(a, s) :
      deposit[s] # NoRow /\ deposit[s].account = a /\ deposit[s].asset = d.asset

\* Every address is scanned again and again: no account stalls the poller
\* (poller.go, scanOnce).
EveryAddressScanned == \A a \in Account : []<>(at = a /\ step = "scanBase")

\* Only a swap whose transaction never makes it into a block stalls the poller;
\* whatever else fails, every address is scanned again and again, unless the process
\* is stopped again and again (poller.go, Run and scanOnce).
OnlyLostSwapsStall ==
  \/ EveryAddressScanned
  \/ []<><<Crash>>_vars
  \/ <>[](swap = "dropped")
=============================================================================
