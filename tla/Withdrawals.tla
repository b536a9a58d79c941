---------------------------- MODULE Withdrawals ----------------------------
(***************************************************************************)
(* RequestWithdrawal of wallet-backend.  One call makes a chain of calls to *)
(* three other systems: bet-backend's ledger, the wallet database and the   *)
(* Solana RPC node.  Each of those calls is a step, since any of them may   *)
(* fail, or take effect without the caller learning of it, and since calls  *)
(* of several accounts interleave.  The call runs under the context of its  *)
(* HTTP request: once the client has gone, everything it still tries fails. *)
(*                                                                          *)
(* The faults a run admits are a constant, so that a run can show which     *)
(* fault alone breaks a promise:                                            *)
(*   "ledger"     a ledger call fails, with or without taking effect        *)
(*   "store"      a database call fails, with or without taking effect      *)
(*   "rpc"        an RPC call fails before anything is broadcast            *)
(*   "broadcast"  SendTransaction's reply is lost after the broadcast       *)
(*   "reject"     a transaction fails on the chain                          *)
(*   "drop"       a transaction never makes it into a block                 *)
(*   "cancel"     the client goes away (or its timeout of 60 s passes)      *)
(*   "crash"      the process stops, losing the calls it was executing      *)
(***************************************************************************)
EXTENDS Integers, FiniteSetsExt, Functions

CONSTANTS
  Call,         \* the calls of RequestWithdrawal, one withdrawals row each
  Account,      \* accounts known to the ledger
  Provisioned,  \* those with a wallet_addresses row
  Amounts,      \* amounts in reais a user may ask for
  Funds,        \* what the ledger holds of each account at first
  Unit,         \* 10^12 in the code, the fixed-point unit of the rate
  Rate,         \* rateMicros
  MinPayout,    \* Limits.Min
  MaxPayout,    \* Limits.Max
  ReviewOver,   \* Limits.ManualReviewOver
  Faults,       \* the faults admitted
  NoRequest     \* "this call has not been made"

ASSUME ConversionAssumption == Unit \in Nat /\ Rate \in Nat \ {0}

ASSUME AmountsAssumption ==
  /\ Funds \in Nat /\ Amounts \subseteq Nat \ {0}
  /\ MinPayout \in Nat \ {0} /\ MaxPayout \in Nat /\ ReviewOver \in Nat

ASSUME FaultAssumption ==
  Faults \subseteq {"ledger", "store", "rpc", "broadcast", "reject", "drop",
                    "cancel", "crash"}

VARIABLES
  request,    \* what each call was asked for
  pc,         \* the next thing each call does
  cancelled,  \* the calls whose request context is cancelled
  ledger,     \* users.balance, in bet-backend
  debited,    \* calls whose debit the ledger has applied
  refunded,   \* calls whose refund the ledger has applied
  row,        \* withdrawals.status
  transfer,   \* what has become of the payout's transaction
  unheard     \* calls whose payout was broadcast without their knowing; a
              \* history variable, which only properties read

ledgerVars == <<ledger, debited, refunded>>
chainVars == <<transfer, unheard>>
vars == <<request, pc, cancelled, ledger, debited, refunded, row, transfer,
          unheard>>

Request == [account : Account, amount : Amounts]
ASSUME RequestAssumption == NoRequest \notin Request

Step == {"new", "debit", "insert", "signing", "ensureATA", "send", "await",
         "sent", "confirm", "confirmed", "failed", "refund", "end"}
WithdrawalStatus == {"REQUESTED", "SIGNING", "SENT", "CONFIRMED", "FAILED"}
TransferState == {"none", "pending", "landed", "rejected", "dropped"}

\* Half-up rounding of a * b / d.
mulDivRound(a, b, d) == (a * b + d \div 2) \div d
reaisToMicroUSDC(reais) == mulDivRound(reais, Unit, Rate)
Payout(c) == reaisToMicroUSDC(request[c].amount)

Running == {c \in Call : pc[c] \notin {"new", "end"}}

(***************************************************************************)
(* How a call to another system may end: "ok", "failed" without any effect, *)
(* or "lost", an error although it took effect.                             *)
(***************************************************************************)
Replies(c, fault) ==
  IF c \in cancelled THEN {"failed"}
  ELSE {"ok"} \cup (IF fault \in Faults THEN {"failed", "lost"} ELSE {})

GoTo(c, step) == pc' = [pc EXCEPT ![c] = step]
SetStatus(c, s, reply) ==
  row' = IF reply = "failed" THEN row ELSE [row EXCEPT ![c] = s]

-----------------------------------------------------------------------------
Init ==
  /\ request = [c \in Call |-> NoRequest]
  /\ pc = [c \in Call |-> "new"]
  /\ cancelled = {}
  /\ ledger = [a \in Account |-> Funds]
  /\ debited = {} /\ refunded = {}
  /\ row = [c \in Call |-> "NONE"]
  /\ transfer = [c \in Call |-> "none"]
  /\ unheard = {}

WithinLimits(reais) ==
  /\ MinPayout <= reaisToMicroUSDC(reais)
  /\ reaisToMicroUSDC(reais) <= MaxPayout

\* A call passes the guardrails; one that does not returns an error.
RequestWithdrawal(c, a, reais) ==
  /\ pc[c] = "new"
  /\ WithinLimits(reais)
  /\ request' = [request EXCEPT ![c] = [account |-> a, amount |-> reais]]
  /\ GoTo(c, "debit")
  /\ UNCHANGED <<cancelled, ledgerVars, row, chainVars>>

AfterDebit(reply) == IF reply = "ok" THEN "insert" ELSE "end"

\* AdjustBalance(-amount).  The ledger refuses what the account does not have.
Debit(c) ==
  LET r == request[c] IN
  /\ pc[c] = "debit"
  /\ \E reply \in Replies(c, "ledger") :
       IF reply # "failed" /\ r.amount <= ledger[r.account]
       THEN /\ ledger' = [ledger EXCEPT ![r.account] = @ - r.amount]
            /\ debited' = debited \cup {c}
            /\ GoTo(c, AfterDebit(reply))
       ELSE /\ GoTo(c, AfterDebit("failed"))
            /\ UNCHANGED <<ledger, debited>>
  /\ UNCHANGED <<request, cancelled, refunded, row, chainVars>>

NeedsReview(payout) == payout > ReviewOver

\* InsertWithdrawal.  The foreign key makes it fail for an account without a
\* wallet_addresses row; above the review threshold the call ends here.
Insert(c) ==
  /\ pc[c] = "insert"
  /\ \E reply \in IF request[c].account \in Provisioned
                  THEN Replies(c, "store") ELSE {"failed"} :
       /\ SetStatus(c, "REQUESTED", reply)
       /\ GoTo(c, CASE reply # "ok" -> "refund"
                    [] reply = "ok" /\ NeedsReview(Payout(c)) -> "end"
                    [] OTHER -> "signing")
  /\ UNCHANGED <<request, cancelled, ledgerVars, chainVars>>

-----------------------------------------------------------------------------
(* settleWithdrawal *)

\* SetWithdrawalStatus(SIGNING), whose error is ignored.
MarkSigning(c) ==
  /\ pc[c] = "signing"
  /\ \E reply \in Replies(c, "store") : SetStatus(c, "SIGNING", reply)
  /\ GoTo(c, "ensureATA")
  /\ UNCHANGED <<request, cancelled, ledgerVars, chainVars>>

\* EnsureUSDCATA for the destination, which may create a token account.
EnsureDestATA(c) ==
  /\ pc[c] = "ensureATA"
  /\ \E reply \in Replies(c, "rpc") :
       GoTo(c, IF reply = "ok" THEN "send" ELSE "failed")
  /\ UNCHANGED <<request, cancelled, ledgerVars, row, chainVars>>

\* TransferUSDC up to SendTransaction.
Send(c) ==
  /\ pc[c] = "send"
  /\ \/ /\ "ok" \in Replies(c, "rpc")
        /\ transfer' = [transfer EXCEPT ![c] = "pending"]
        /\ GoTo(c, "await")
        /\ UNCHANGED unheard
     \/ /\ "lost" \in Replies(c, "broadcast")
        /\ transfer' = [transfer EXCEPT ![c] = "pending"]
        /\ unheard' = unheard \cup {c}
        /\ GoTo(c, "failed")
     \/ /\ "failed" \in Replies(c, "rpc")
        /\ GoTo(c, "failed")
        /\ UNCHANGED chainVars
  /\ UNCHANGED <<request, cancelled, ledgerVars, row>>

\* Mutant: the loop does not look at the context.
ConfirmTxForever(c, then) ==
  /\ c \notin cancelled /\ transfer[c] \in {"landed", "rejected"}
  /\ GoTo(c, IF transfer[c] = "landed" THEN then ELSE "failed")
  /\ UNCHANGED <<request, cancelled, ledgerVars, row, chainVars>>

\* Mutant: a transaction that is not confirmed when the client goes is sent.
ConfirmTxOptimistic(c, then) ==
  /\ \/ /\ transfer[c] = "landed"
        /\ GoTo(c, then)
     \/ /\ transfer[c] = "rejected" \/ c \in cancelled
        /\ GoTo(c, "sent")
  /\ UNCHANGED <<request, cancelled, ledgerVars, row, chainVars>>

\* confirmSignature polls until the transaction is confirmed or has failed, or
\* the context is cancelled.
ConfirmTx(c, then) ==
  /\ \/ /\ c \notin cancelled /\ transfer[c] = "landed"
        /\ GoTo(c, then)
     \/ /\ transfer[c] = "rejected" \/ c \in cancelled
        /\ GoTo(c, "failed")
  /\ UNCHANGED <<request, cancelled, ledgerVars, row, chainVars>>

\* The confirmation inside TransferUSDC, and the one settleWithdrawal makes.
Await(c) == pc[c] = "await" /\ ConfirmTx(c, "sent")
Confirm(c) == pc[c] = "confirm" /\ ConfirmTx(c, "confirmed")

\* SetWithdrawalSent: on an error the call ends without a refund.
MarkSent(c) ==
  /\ pc[c] = "sent"
  /\ \E reply \in Replies(c, "store") :
       /\ SetStatus(c, "SENT", reply)
       /\ GoTo(c, IF reply = "ok" THEN "confirm" ELSE "end")
  /\ UNCHANGED <<request, cancelled, ledgerVars, chainVars>>

MarkConfirmed(c) ==
  /\ pc[c] = "confirmed"
  /\ \E reply \in Replies(c, "store") : SetStatus(c, "CONFIRMED", reply)
  /\ GoTo(c, "end")
  /\ UNCHANGED <<request, cancelled, ledgerVars, chainVars>>

\* Mutant: the bookkeeping of failAndRefund outlives the request.
MarkFailedDetached(c) ==
  /\ pc[c] = "failed"
  /\ SetStatus(c, "FAILED", "ok")
  /\ GoTo(c, "refund")
  /\ UNCHANGED <<request, cancelled, ledgerVars, chainVars>>

\* failAndRefund: SetWithdrawalFailed, whose error is ignored, ...
MarkFailed(c) ==
  /\ pc[c] = "failed"
  /\ \E reply \in Replies(c, "store") : SetStatus(c, "FAILED", reply)
  /\ GoTo(c, "refund")
  /\ UNCHANGED <<request, cancelled, ledgerVars, chainVars>>

\* Mutant: the payout is given back, not the amount debited.
RefundPayout(c) ==
  /\ pc[c] = "refund"
  /\ ledger' = [ledger EXCEPT ![request[c].account] = @ + Payout(c)]
  /\ refunded' = refunded \cup {c}
  /\ GoTo(c, "end")
  /\ UNCHANGED <<request, cancelled, debited, row, chainVars>>

\* Mutant: the refund outlives the request.
RefundDetached(c) ==
  LET r == request[c] IN
  /\ pc[c] = "refund"
  /\ ledger' = [ledger EXCEPT ![r.account] = @ + r.amount]
  /\ refunded' = refunded \cup {c}
  /\ GoTo(c, "end")
  /\ UNCHANGED <<request, cancelled, debited, row, chainVars>>

\* ... and refund, AdjustBalance(+amount), whose error is ignored too.
Refund(c) ==
  LET r == request[c] IN
  /\ pc[c] = "refund"
  /\ \E reply \in Replies(c, "ledger") :
       IF reply # "failed"
       THEN /\ ledger' = [ledger EXCEPT ![r.account] = @ + r.amount]
            /\ refunded' = refunded \cup {c}
       ELSE UNCHANGED <<ledger, refunded>>
  /\ GoTo(c, "end")
  /\ UNCHANGED <<request, cancelled, debited, row, chainVars>>

-----------------------------------------------------------------------------
(* The world around the calls *)

\* What the chain makes of a transaction that was broadcast.
ChainDecides(c) ==
  /\ transfer[c] = "pending"
  /\ \E s \in {"landed"} \cup (IF "reject" \in Faults THEN {"rejected"} ELSE {})
              \cup (IF "drop" \in Faults THEN {"dropped"} ELSE {}) :
       transfer' = [transfer EXCEPT ![c] = s]
  /\ UNCHANGED <<request, pc, cancelled, ledgerVars, row, unheard>>

\* The client closes the connection, at the latest when its timeout passes.
Cancel(c) ==
  /\ "cancel" \in Faults
  /\ c \in Running \ cancelled
  /\ cancelled' = cancelled \cup {c}
  /\ UNCHANGED <<request, pc, ledgerVars, row, chainVars>>

\* The process stops: nothing takes up the calls it was executing.
Crash ==
  /\ "crash" \in Faults
  /\ Running # {}
  /\ pc' = [c \in Call |-> IF c \in Running THEN "end" ELSE pc[c]]
  /\ UNCHANGED <<request, cancelled, ledgerVars, row, chainVars>>

-----------------------------------------------------------------------------
Proceed(c) ==
  \/ Debit(c) \/ Insert(c)
  \/ MarkSigning(c) \/ EnsureDestATA(c) \/ Send(c) \/ Await(c)
  \/ MarkSent(c) \/ Confirm(c) \/ MarkConfirmed(c)
  \/ MarkFailed(c) \/ Refund(c)

Next ==
  \/ \E c \in Call, a \in Account, reais \in Amounts :
       RequestWithdrawal(c, a, reais)
  \/ \E c \in Call : Proceed(c) \/ ChainDecides(c) \/ Cancel(c)
  \/ Crash

Spec == Init /\ [][Next]_vars

\* The process keeps executing the calls it serves, and every client has a
\* timeout.  Nothing is assumed of the chain.
FairSpec ==
  Spec /\ \A c \in Call : WF_vars(Proceed(c)) /\ WF_vars(Cancel(c))

-----------------------------------------------------------------------------
(* Properties *)

\* The types of the tables, and no balance below zero.
TypeOK ==
  /\ request \in [Call -> Request \cup {NoRequest}]
  /\ pc \in [Call -> Step]
  /\ cancelled \subseteq Call
  /\ ledger \in [Account -> Nat]
  /\ debited \subseteq Call /\ refunded \subseteq Call
  /\ row \in [Call -> WithdrawalStatus \cup {"NONE"}]
  /\ transfer \in [Call -> TransferState]
  /\ unheard \subseteq Call

Asked(a, C) ==
  SumFunctionOnSet([c \in C |-> request[c].amount],
                   {c \in C : request[c].account = a})

\* No account goes below zero, and what it lost on the ledger is what was debited
\* and not refunded, to the last real, however the calls interleave and fail.
LedgerExplained ==
  \A a \in Account :
    0 <= ledger[a] /\ ledger[a] + Asked(a, debited \ refunded) = Funds

\* Nothing is broadcast, given back or recorded for a withdrawal that was not
\* debited first, also when the debit's reply is lost.
DebitComesFirst ==
  \A c \in Call :
    transfer[c] # "none" \/ c \in refunded \/ row[c] # "NONE" => c \in debited

\* A payout above the review threshold never leaves without an operator, nor one
\* outside the limits, which are about micro-USDC while the ledger has reais.
ReviewComesFirst ==
  \A c \in Call : transfer[c] # "none" =>
    Payout(c) \in MinPayout .. MaxPayout /\ Payout(c) <= ReviewOver

\* A row that says SENT or CONFIRMED is a payout that is on the chain and that
\* was not given back.
SentMeansPaid ==
  \A c \in Call : row[c] \in {"SENT", "CONFIRMED"} =>
    transfer[c] = "landed" /\ c \notin refunded

RowStep ==
  \A c \in Call : row'[c] # row[c] =>
    <<row[c], row'[c]>> \in
      {<<"NONE", "REQUESTED">>, <<"REQUESTED", "SIGNING">>,
       <<"REQUESTED", "SENT">>, <<"SIGNING", "SENT">>, <<"SENT", "CONFIRMED">>,
       <<"REQUESTED", "FAILED">>, <<"SIGNING", "FAILED">>}

\* A row only moves forward, CONFIRMED and FAILED are final, and a row that says
\* SENT never becomes FAILED, although failAndRefund is called with it when the
\* client goes away during the second confirmation.
RowsMoveForward == [][RowStep]_vars

MayBePaid(c) == transfer[c] \in {"pending", "landed"}

\* A debit is not given back while its payout may still land, or has (service.go,
\* comment on refund).
NeverPaidAndRefunded == \A c \in refunded : ~MayBePaid(c)

Abstract == INSTANCE Custody WITH
  Withdrawal <- Call,
  cash <- ledger,
  place <- [c \in Call |->
              CASE c \notin debited -> "account"
                [] c \in debited /\ c \in unheard ->
                     IF c \in refunded THEN "writtenOff" ELSE "adrift"
                [] c \in debited \ unheard /\ c \in refunded ->
                     IF transfer[c] = "landed" THEN "both" ELSE "returned"
                [] OTHER ->
                     IF transfer[c] = "landed" THEN "paid" ELSE "held"],
  terms <- [c \in Call |-> IF c \in debited THEN request[c] ELSE NoRequest],
  NoTerms <- NoRequest

\* Whatever fails, a withdrawal's money is at one place: with the account, held,
\* paid out or returned, never two of them.  The one exception is a payout the
\* wallet has lost sight of, which is given back at most once.
ImplementsCustody == Abstract!Spec

\* Every call ends, also when its transaction is dropped by the chain.
CallsEnd == \A c \in Call : pc[c] # "new" ~> pc[c] = "end"

\* If the on-chain send fails after the debit, the debit is refunded by the time
\* the call ends (service.go, comment on RequestWithdrawal).
FailedPayoutRefunded ==
  \A c \in debited \ refunded :
    pc[c] = "end" => transfer[c] \notin {"rejected", "dropped"}
=============================================================================
