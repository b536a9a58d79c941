------------------------- MODULE WithdrawalsProofs -------------------------
(***************************************************************************)
(* What holds of withdrawals for any number of calls and accounts, whatever *)
(* amounts are asked for and whichever faults occur.  Everything follows    *)
(* from what a call has done by the time it reaches a step: Progress is the *)
(* control state of settleWithdrawal read backwards.                        *)
(***************************************************************************)
EXTENDS Withdrawals, FiniteSums

-----------------------------------------------------------------------------
(* The inductive invariant *)

\* What has been asked for was let through, and nothing precedes the debit.
Opening(c) ==
  /\ pc[c] # "new" => request[c] \in Request /\ WithinLimits(request[c].amount)
  /\ pc[c] \in {"new", "debit"} => c \notin debited
  /\ pc[c] \notin {"new", "debit", "end"} => c \in debited
  /\ c \in refunded => c \in debited /\ pc[c] = "end"

\* What the row says at each step.
RowFits(c) ==
  /\ row[c] # "NONE" => c \in debited
  /\ pc[c] = "insert" => row[c] = "NONE"
  /\ pc[c] = "signing" => row[c] = "REQUESTED"
  /\ pc[c] \in {"ensureATA", "send", "await", "sent"} =>
       row[c] \in {"REQUESTED", "SIGNING"}
  /\ pc[c] \in {"confirm", "confirmed"} => row[c] = "SENT"
  /\ pc[c] = "failed" => c \in cancelled \/ row[c] \in {"REQUESTED", "SIGNING"}
  /\ pc[c] = "refund" => c \in cancelled \/ row[c] \notin {"SENT", "CONFIRMED"}
  /\ row[c] \in {"SENT", "CONFIRMED"} => transfer[c] = "landed" /\ c \notin refunded

\* The payout needs no operator.
Small(c) == ~NeedsReview(Payout(c))

\* What has become of the payout at each step.
PayoutFits(c) ==
  /\ transfer[c] # "none" => c \in debited /\ Small(c)
  /\ pc[c] \notin {"new", "debit", "insert", "refund", "end"} => Small(c)
  /\ pc[c] \in {"insert", "signing", "ensureATA", "send"} => transfer[c] = "none"
  /\ pc[c] \in {"sent", "confirm", "confirmed"} => transfer[c] = "landed"
  /\ c \in unheard => /\ pc[c] \in {"failed", "refund", "end"}
                      /\ transfer[c] # "none"
  /\ pc[c] \in {"failed", "refund"} =>
       c \in cancelled \cup unheard \/ transfer[c] \in {"none", "rejected"}
  /\ c \in refunded \ unheard => transfer[c] \in {"none", "rejected"}

Progress(c) == Opening(c) /\ RowFits(c) /\ PayoutFits(c)

IInv == TypeOK /\ \A c \in Call : Progress(c)

-----------------------------------------------------------------------------
(* Every step keeps it *)

\* A payout is determined by its request.
LEMMA SmallStays ==
  ASSUME NEW c \in Call, request'[c] = request[c]
  PROVE  Small(c)' <=> Small(c)
BY DEF Small, NeedsReview, Payout

\* Nothing of a call is touched by a step of the others.
LEMMA ProgressStays ==
  ASSUME NEW c \in Call, Progress(c),
         request'[c] = request[c], pc'[c] = pc[c], row'[c] = row[c],
         transfer'[c] = transfer[c],
         c \in cancelled' <=> c \in cancelled, c \in debited' <=> c \in debited,
         c \in refunded' <=> c \in refunded, c \in unheard' <=> c \in unheard
  PROVE  Progress(c)'
BY SmallStays DEF Progress, Opening, RowFits, PayoutFits

\* A call begins.
LEMMA BeginStep ==
  ASSUME IInv, NEW c \in Call, NEW a \in Account, NEW reais \in Amounts,
         RequestWithdrawal(c, a, reais)
  PROVE  IInv'
<1>1. TypeOK'
  BY DEF RequestWithdrawal, IInv, TypeOK, GoTo, ledgerVars, chainVars, Step, Request
<1>2. Progress(c)'
  BY DEF RequestWithdrawal, IInv, TypeOK, GoTo, ledgerVars, chainVars, Request,
         Progress, Opening, RowFits, PayoutFits
<1>3. ASSUME NEW d \in Call, d # c PROVE Progress(d)'
  BY <1>3, ProgressStays
     DEF RequestWithdrawal, IInv, TypeOK, GoTo, ledgerVars, chainVars
<1> QED BY <1>1, <1>2, <1>3 DEF IInv

\* The debit takes effect only if the account has the amount.
LEMMA DebitStep ==
  ASSUME IInv, NEW c \in Call, Debit(c)
  PROVE  IInv'
<1> DEFINE r == request[c]
<1>1. r.account \in Account /\ r.amount \in Nat /\ c \notin debited /\ c \notin refunded
  BY AmountsAssumption DEF Debit, IInv, Progress, Opening, Request
<1>2. TypeOK'
  BY <1>1 DEF Debit, AfterDebit, IInv, TypeOK, GoTo, chainVars, Step
<1>3. Progress(c)'
  BY <1>1, SmallStays
     DEF Debit, AfterDebit, IInv, TypeOK, GoTo, chainVars,
         Progress, Opening, RowFits, PayoutFits
<1>4. ASSUME NEW d \in Call, d # c PROVE Progress(d)'
  BY <1>4, ProgressStays DEF Debit, AfterDebit, IInv, TypeOK, GoTo, chainVars
<1> QED BY <1>2, <1>3, <1>4 DEF IInv

\* The steps of a call that change only its row and its position.
LEMMA RowOnlyStep ==
  ASSUME IInv, NEW c \in Call,
         Insert(c) \/ MarkSigning(c) \/ EnsureDestATA(c) \/ MarkSent(c)
         \/ MarkConfirmed(c) \/ MarkFailed(c)
  PROVE  IInv'
<1> USE DEF Insert, MarkSigning, EnsureDestATA, MarkSent, MarkConfirmed,
            MarkFailed, GoTo, SetStatus, Replies, ledgerVars, chainVars
<1>1. TypeOK'
  BY DEF IInv, TypeOK, Step, WithdrawalStatus
<1>2. Progress(c)'
  <2>1. Small(c)' <=> Small(c)
    BY SmallStays
  <2>2. NeedsReview(Payout(c)) <=> ~Small(c)
    BY DEF Small
  <2> QED BY <2>1, <2>2 DEF IInv, TypeOK, Progress, Opening, RowFits, PayoutFits
<1>3. ASSUME NEW d \in Call, d # c PROVE Progress(d)'
  BY <1>3, ProgressStays DEF IInv, TypeOK
<1> QED BY <1>1, <1>2, <1>3 DEF IInv

\* The broadcast and what the call learns of it.
LEMMA PayoutStep ==
  ASSUME IInv, NEW c \in Call,
         Send(c) \/ Await(c) \/ Confirm(c) \/ ChainDecides(c) \/ Cancel(c)
  PROVE  IInv'
<1> USE DEF Send, Await, Confirm, ConfirmTx, ChainDecides, Cancel, GoTo, Replies,
            ledgerVars, chainVars, Running
<1>1. TypeOK'
  BY DEF IInv, TypeOK, Step, TransferState
<1>2. Progress(c)'
  BY SmallStays DEF IInv, TypeOK, Progress, Opening, RowFits, PayoutFits
<1>3. ASSUME NEW d \in Call, d # c PROVE Progress(d)'
  BY <1>3, ProgressStays DEF IInv, TypeOK
<1> QED BY <1>1, <1>2, <1>3 DEF IInv

\* The refund gives back the amount of the request.
LEMMA RefundStep ==
  ASSUME IInv, NEW c \in Call, Refund(c)
  PROVE  IInv'
<1>1. request[c].account \in Account /\ request[c].amount \in Nat
  BY AmountsAssumption DEF Refund, IInv, Progress, Opening, Request
<1>2. TypeOK'
  BY <1>1 DEF Refund, IInv, TypeOK, GoTo, chainVars, Step
<1>3. Progress(c)'
  BY SmallStays
     DEF Refund, Replies, IInv, TypeOK, GoTo, chainVars,
         Progress, Opening, RowFits, PayoutFits
<1>4. ASSUME NEW d \in Call, d # c PROVE Progress(d)'
  BY <1>4, ProgressStays DEF Refund, IInv, TypeOK, GoTo, chainVars
<1> QED BY <1>2, <1>3, <1>4 DEF IInv

\* A stop of the process ends calls wherever they are.
LEMMA CrashStep == IInv /\ Crash => IInv'
<1> SUFFICES ASSUME IInv, Crash PROVE IInv'
  OBVIOUS
<1>1. TypeOK'
  BY DEF Crash, IInv, TypeOK, Step, ledgerVars, chainVars
<1>2. ASSUME NEW c \in Call PROVE Progress(c)'
  BY <1>2, SmallStays
     DEF Crash, Running, IInv, TypeOK, ledgerVars, chainVars,
         Progress, Opening, RowFits, PayoutFits
<1> QED BY <1>1, <1>2 DEF IInv

LEMMA IInvStep == IInv /\ [Next]_vars => IInv'
<1> SUFFICES ASSUME IInv, [Next]_vars PROVE IInv'
  OBVIOUS
<1>1. ASSUME NEW c \in Call, Proceed(c) PROVE IInv'
  BY <1>1, DebitStep, RowOnlyStep, PayoutStep, RefundStep DEF Proceed
<1>2. ASSUME NEW c \in Call, ChainDecides(c) \/ Cancel(c) PROVE IInv'
  BY <1>2, PayoutStep
<1>3. ASSUME UNCHANGED vars PROVE IInv'
  <2>1. ASSUME NEW c \in Call PROVE Progress(c)'
    BY <1>3, <2>1, ProgressStays DEF vars, IInv
  <2> QED BY <1>3, <2>1 DEF vars, IInv, TypeOK
<1> QED BY <1>1, <1>2, <1>3, BeginStep, CrashStep DEF Next

LEMMA IInvInit == Init => IInv
BY AmountsAssumption
   DEF Init, IInv, TypeOK, Step, TransferState, Progress, Opening, RowFits, PayoutFits

LEMMA IInvInvariant == Spec => []IInv
BY IInvInit, IInvStep, PTL DEF Spec

\* The tables keep their types and no account goes below zero.
THEOREM TypeCorrect == Spec => []TypeOK
<1>1. IInv => TypeOK
  BY DEF IInv
<1> QED BY <1>1, IInvInvariant, PTL

\* A row that says SENT or CONFIRMED is a payout that is on the chain and that
\* was not given back, whatever failed on the way.
THEOREM SentIsPaid == Spec => []SentMeansPaid
<1>1. IInv => SentMeansPaid
  BY DEF IInv, Progress, RowFits, SentMeansPaid
<1> QED BY <1>1, IInvInvariant, PTL

\* Nothing is broadcast, given back or recorded for a withdrawal that was not
\* debited first, also when the debit's reply is lost.
THEOREM DebitAlwaysFirst == Spec => []DebitComesFirst
<1>1. IInv => DebitComesFirst
  BY DEF IInv, Progress, Opening, RowFits, PayoutFits, DebitComesFirst
<1> QED BY <1>1, IInvInvariant, PTL

\* A payout is a whole number of micro-USDC.
LEMMA PayoutType ==
  ASSUME NEW c \in Call, request[c] \in Request
  PROVE  Payout(c) \in Int
<1> DEFINE n == request[c].amount * Unit + Rate \div 2
<1>1. request[c].amount \in Nat /\ Unit \in Nat /\ Rate \in Nat \ {0}
  BY AmountsAssumption, ConversionAssumption DEF Request
<1>2. n \in Int
  BY <1>1
<1>3. Payout(c) = n \div Rate
  BY DEF Payout, reaisToMicroUSDC, mulDivRound
<1> HIDE DEF n
<1> QED BY <1>1, <1>2, <1>3

\* Nothing is broadcast above the review threshold or outside the limits.
THEOREM ReviewAlwaysFirst == Spec => []ReviewComesFirst
<1>1. ASSUME IInv, NEW c \in Call, transfer[c] # "none"
      PROVE  Payout(c) \in MinPayout .. MaxPayout /\ Payout(c) <= ReviewOver
  <2>1. request[c] \in Request /\ WithinLimits(request[c].amount) /\ Small(c)
    BY <1>1 DEF IInv, Progress, Opening, PayoutFits
  <2>2. Payout(c) \in Int
    BY <2>1, PayoutType
  <2>3. MinPayout <= Payout(c) /\ Payout(c) <= MaxPayout /\ ~(Payout(c) > ReviewOver)
    BY <2>1 DEF WithinLimits, Payout, Small, NeedsReview
  <2> QED BY <2>2, <2>3, AmountsAssumption
<1>2. IInv => ReviewComesFirst
  BY <1>1 DEF ReviewComesFirst
<1> QED BY <1>2, IInvInvariant, PTL

-----------------------------------------------------------------------------
(* The ledger *)

\* What the calls of C asked an account for, by a table of requests.
AskedBy(asked, a, C) ==
  SumFunctionOnSet([c \in C |-> asked[c].amount], {c \in C : asked[c].account = a})

LEMMA RequestType == \A r \in Request : r.account \in Account /\ r.amount \in Int
<1> SUFFICES ASSUME NEW r \in Request
             PROVE  r.account \in Account /\ r.amount \in Int
  OBVIOUS
<1>1. r.account \in Account /\ r.amount \in Amounts
  BY DEF Request
<1>2. r.amount \in Nat
  BY <1>1, AmountsAssumption, Zenon
<1> QED BY <1>1, <1>2

\* One more call adds its amount to what its account was asked for.
LEMMA AskedAdd ==
  ASSUME NEW asked, NEW next, NEW a, NEW C, IsFiniteSet(C), NEW c, c \notin C,
         \A d \in C : asked[d] \in Request /\ next[d] = asked[d],
         next[c] \in Request
  PROVE  /\ AskedBy(asked, a, C) \in Int
         /\ AskedBy(next, a, C \cup {c}) =
              AskedBy(asked, a, C) + (IF next[c].account = a THEN next[c].amount ELSE 0)
<1> DEFINE mine == {d \in C : asked[d].account = a}
<1>1. PICK f : f = [d \in C |-> asked[d].amount]
  OBVIOUS
<1>2. PICK g : g = [d \in C \cup {c} |-> next[d].amount]
  OBVIOUS
<1>3. IsFiniteSet(mine)
  BY FS_Subset
<1>4. /\ \A d \in mine : f[d] \in Int /\ g[d] = f[d]
      /\ g[c] = next[c].amount /\ g[c] \in Int
  BY <1>1, <1>2, RequestType
<1>5. PICK M : M = mine
  OBVIOUS
<1>6. /\ SumFunctionOnSet(f, M) \in Int
      /\ SumFunctionOnSet(g, M) = SumFunctionOnSet(f, M)
      /\ SumFunctionOnSet(g, M \cup {c}) = g[c] + SumFunctionOnSet(g, M)
  BY <1>3, <1>4, <1>5, SumInt, SumSame, SumAdd
<1>7. {d \in C \cup {c} : next[d].account = a} =
        IF next[c].account = a THEN M \cup {c} ELSE M
  BY <1>5
<1>8. AskedBy(asked, a, C) = SumFunctionOnSet(f, M)
  BY <1>1, <1>5 DEF AskedBy
<1>9. AskedBy(next, a, C \cup {c}) =
        SumFunctionOnSet(g, IF next[c].account = a THEN M \cup {c} ELSE M)
  BY <1>2, <1>7 DEF AskedBy
<1> QED BY <1>4, <1>6, <1>8, <1>9

\* Requests that stay the same ask for the same.
LEMMA AskedSame ==
  ASSUME NEW asked, NEW next, NEW a, NEW C, \A d \in C : next[d] = asked[d]
  PROVE  AskedBy(next, a, C) = AskedBy(asked, a, C)
<1>1. [d \in C |-> next[d].amount] = [d \in C |-> asked[d].amount]
  OBVIOUS
<1>2. {d \in C : next[d].account = a} = {d \in C : asked[d].account = a}
  OBVIOUS
<1> QED BY <1>1, <1>2 DEF AskedBy

\* What is debited and not refunded, which a step changes by one call at most.
Outstanding == debited \ refunded

LedgerInv == IInv /\ IsFiniteSet(debited) /\ LedgerExplained

LEMMA OutstandingKnown ==
  ASSUME LedgerInv
  PROVE  /\ IsFiniteSet(Outstanding)
         /\ \A c \in Outstanding : c \in Call /\ request[c] \in Request
         /\ \A a \in Account : /\ ledger[a] \in Nat
                             /\ AskedBy(request, a, Outstanding) \in Int
                             /\ ledger[a] + AskedBy(request, a, Outstanding) = Funds
<1>1. IsFiniteSet(Outstanding)
  BY FS_Subset DEF LedgerInv, Outstanding
<1>2. \A c \in Outstanding : c \in Call /\ request[c] \in Request
  BY DEF Outstanding, LedgerInv, IInv, TypeOK, Progress, Opening
<1>3. ASSUME NEW a \in Account PROVE AskedBy(request, a, Outstanding) \in Int
  <2>1. PICK f : f = [c \in Outstanding |-> request[c].amount]
    OBVIOUS
  <2>2. PICK M : M = {c \in Outstanding : request[c].account = a}
    OBVIOUS
  <2>3. IsFiniteSet(M) /\ \A c \in M : f[c] \in Int
    BY <1>1, <1>2, <2>1, <2>2, FS_Subset, RequestType
  <2> QED BY <2>1, <2>2, <2>3, SumInt DEF AskedBy
<1>4. ASSUME NEW a \in Account
      PROVE  ledger[a] \in Nat /\ ledger[a] + AskedBy(request, a, Outstanding) = Funds
  BY DEF LedgerInv, LedgerExplained, Asked, AskedBy, Outstanding, IInv, TypeOK
<1> QED BY <1>1, <1>2, <1>3, <1>4

\* The balances and what is outstanding move together, or not at all.
LEMMA LedgerKept ==
  ASSUME LedgerInv, IInv', UNCHANGED <<ledger, debited, refunded>>,
         \A c \in Outstanding : request'[c] = request[c]
  PROVE  LedgerInv'
<1>1. ASSUME NEW a \in Account
      PROVE  AskedBy(request', a, Outstanding) = AskedBy(request, a, Outstanding)
  BY AskedSame
<1> QED BY <1>1 DEF LedgerInv, LedgerExplained, Asked, AskedBy, Outstanding

\* A debit takes from its account what its call asks for.
LEMMA LedgerDebit ==
  ASSUME LedgerInv, IInv', NEW c \in Call, Debit(c)
  PROVE  LedgerInv'
<1>1. CASE UNCHANGED <<ledger, debited>>
  BY <1>1, LedgerKept DEF Debit
<1>2. CASE ~UNCHANGED <<ledger, debited>>
  <2>1. /\ request[c] \in Request /\ request[c].account \in Account
        /\ request[c].amount \in Int /\ c \notin debited /\ c \notin refunded
    BY RequestType DEF Debit, LedgerInv, IInv, Progress, Opening
  <2>2. /\ ledger' = [ledger EXCEPT ![request[c].account] = @ - request[c].amount]
        /\ debited' = debited \cup {c} /\ UNCHANGED <<request, refunded>>
    BY <1>2 DEF Debit
  <2>3. Outstanding' = Outstanding \cup {c} /\ c \notin Outstanding
    BY <2>1, <2>2 DEF Outstanding
  <2>4. IsFiniteSet(debited')
    BY <2>2, FS_AddElement DEF LedgerInv
  <2>5. ASSUME NEW a \in Account
        PROVE  0 <= ledger'[a] /\ ledger'[a] + AskedBy(request, a, Outstanding') = Funds
    <3>1. AskedBy(request, a, Outstanding \cup {c}) =
            AskedBy(request, a, Outstanding) +
            (IF request[c].account = a THEN request[c].amount ELSE 0)
      BY <2>1, <2>3, AskedAdd, OutstandingKnown
    <3>2. ledger'[a] = ledger[a] -
            (IF request[c].account = a THEN request[c].amount ELSE 0)
      BY <2>1, <2>2, OutstandingKnown DEF LedgerInv, IInv, TypeOK
    <3>3. ledger'[a] \in Nat
      BY DEF IInv, TypeOK
    <3>4. ledger[a] \in Int /\ AskedBy(request, a, Outstanding) \in Int
          /\ ledger[a] + AskedBy(request, a, Outstanding) = Funds
      BY OutstandingKnown
    <3> QED BY <2>1, <2>3, <3>1, <3>2, <3>3, <3>4
  <2> QED BY <2>2, <2>4, <2>5 DEF LedgerInv, LedgerExplained, Asked, AskedBy, Outstanding
<1> QED BY <1>1, <1>2

\* A refund gives it back.
LEMMA LedgerRefund ==
  ASSUME LedgerInv, IInv', NEW c \in Call, Refund(c)
  PROVE  LedgerInv'
<1>1. CASE UNCHANGED <<ledger, refunded>>
  BY <1>1, LedgerKept DEF Refund
<1>2. CASE ~UNCHANGED <<ledger, refunded>>
  <2>1. /\ request[c] \in Request /\ request[c].account \in Account
        /\ request[c].amount \in Int /\ c \in debited /\ c \notin refunded
    BY RequestType DEF Refund, LedgerInv, IInv, Progress, Opening
  <2>2. /\ ledger' = [ledger EXCEPT ![request[c].account] = @ + request[c].amount]
        /\ refunded' = refunded \cup {c} /\ UNCHANGED <<request, debited>>
    BY <1>2 DEF Refund
  <2>3. /\ Outstanding = Outstanding' \cup {c} /\ c \notin Outstanding'
        /\ Outstanding' \subseteq Outstanding
    BY <2>1, <2>2 DEF Outstanding
  <2>4. IsFiniteSet(Outstanding') /\ \A d \in Outstanding' : request[d] \in Request
    BY <2>3, OutstandingKnown, FS_Subset
  <2>5. PICK rest : rest = Outstanding' /\ rest \cup {c} = Outstanding
    BY <2>3
  <2>6. ASSUME NEW a \in Account
        PROVE  0 <= ledger'[a] /\ ledger'[a] + AskedBy(request, a, rest) = Funds
    <3>1. /\ AskedBy(request, a, rest) \in Int
          /\ AskedBy(request, a, rest \cup {c}) = AskedBy(request, a, rest) +
               (IF request[c].account = a THEN request[c].amount ELSE 0)
      <4>1. c \notin rest /\ IsFiniteSet(rest) /\ request[c] \in Request
            /\ \A d \in rest : request[d] \in Request /\ request[d] = request[d]
        BY <2>1, <2>3, <2>4, <2>5
      <4> QED BY ONLY <4>1, AskedAdd, AmountsAssumption
    <3>2. ledger'[a] = ledger[a] +
            (IF request[c].account = a THEN request[c].amount ELSE 0)
      BY <2>1, <2>2, OutstandingKnown DEF LedgerInv, IInv, TypeOK
    <3>3. ledger'[a] \in Nat
      BY DEF IInv, TypeOK
    <3>4. ledger[a] \in Int /\ ledger[a] + AskedBy(request, a, rest \cup {c}) = Funds
      <4>1. ledger[a] \in Nat /\ ledger[a] + AskedBy(request, a, Outstanding) = Funds
        BY OutstandingKnown
      <4>2. Outstanding = rest \cup {c}
        BY <2>5
      <4>3. ledger[a] + AskedBy(request, a, rest \cup {c}) = Funds
        BY <4>1, <4>2, Zenon
      <4> QED BY <4>1, <4>3
    <3> QED BY <2>1, <3>1, <3>2, <3>3, <3>4
  <2> QED BY <2>2, <2>5, <2>6
        DEF LedgerInv, LedgerExplained, Asked, AskedBy, Outstanding
<1> QED BY <1>1, <1>2

LEMMA LedgerStep == LedgerInv /\ [Next]_vars => LedgerInv'
<1> SUFFICES ASSUME LedgerInv, [Next]_vars PROVE LedgerInv'
  OBVIOUS
<1>1. IInv /\ IInv'
  BY IInvStep DEF LedgerInv
<1>2. ASSUME NEW c \in Call,
             \/ Insert(c) \/ MarkSigning(c) \/ EnsureDestATA(c) \/ Send(c)
             \/ Await(c) \/ MarkSent(c) \/ Confirm(c) \/ MarkConfirmed(c)
             \/ MarkFailed(c) \/ ChainDecides(c) \/ Cancel(c)
      PROVE  LedgerInv'
  BY <1>1, <1>2, LedgerKept
     DEF Insert, MarkSigning, EnsureDestATA, Send, Await, MarkSent, Confirm,
         MarkConfirmed, MarkFailed, ChainDecides, Cancel, ConfirmTx, ledgerVars
<1>3. ASSUME NEW c \in Call, NEW a \in Account, NEW reais \in Amounts,
             RequestWithdrawal(c, a, reais)
      PROVE  LedgerInv'
  <2>1. \A d \in Outstanding : request'[d] = request[d]
    BY <1>1, <1>3 DEF RequestWithdrawal, Outstanding, IInv, TypeOK, Progress, Opening
  <2> QED BY <1>1, <1>3, <2>1, LedgerKept DEF RequestWithdrawal, ledgerVars
<1>4. ASSUME Crash \/ UNCHANGED vars PROVE LedgerInv'
  BY <1>1, <1>4, LedgerKept DEF Crash, vars, ledgerVars
<1> QED BY <1>1, <1>2, <1>3, <1>4, LedgerDebit, LedgerRefund DEF Next, Proceed

\* No account goes below zero, and what it lost on the ledger is what was debited
\* and not refunded, to the last real, however many calls interleave and whatever
\* fails of them.
THEOREM LedgerAlwaysExplained == Spec => []LedgerExplained
<1>1. Init => LedgerInv
  <2>1. ASSUME Init, NEW a \in Account PROVE AskedBy(request, a, {}) = 0
    <3>1. {c \in {} : request[c].account = a} = {}
      OBVIOUS
    <3> QED BY <3>1, SumEmpty DEF AskedBy
  <2>2. Init => debited \ refunded = {} /\ IsFiniteSet(debited)
    BY FS_EmptySet DEF Init
  <2> QED BY <2>1, <2>2, IInvInit, AmountsAssumption
        DEF LedgerInv, LedgerExplained, Asked, AskedBy, Init
<1>2. LedgerInv => LedgerExplained
  BY DEF LedgerInv
<1> QED BY <1>1, <1>2, LedgerStep, PTL DEF Spec

-----------------------------------------------------------------------------
(* What a step may do *)

\* The row of a call is written by its own steps only, each of which knows what
\* the row says; under a cancelled context MarkFailed does not reach it.
LEMMA RowsStep ==
  ASSUME IInv, NEW c \in Call, Proceed(c)
  PROVE  RowStep
<1>1. ASSUME NEW d \in Call, d # c PROVE row'[d] = row[d]
  BY <1>1 DEF Proceed, Debit, Insert, MarkSigning, EnsureDestATA, Send, Await,
       MarkSent, Confirm, MarkConfirmed, MarkFailed, Refund, ConfirmTx, SetStatus,
       chainVars, ledgerVars, IInv, TypeOK
<1>2. row'[c] # row[c] =>
        <<row[c], row'[c]>> \in
          {<<"NONE", "REQUESTED">>, <<"REQUESTED", "SIGNING">>,
           <<"REQUESTED", "SENT">>, <<"SIGNING", "SENT">>, <<"SENT", "CONFIRMED">>,
           <<"REQUESTED", "FAILED">>, <<"SIGNING", "FAILED">>}
  BY DEF Proceed, Debit, Insert, MarkSigning, EnsureDestATA, Send, Await,
       MarkSent, Confirm, MarkConfirmed, MarkFailed, Refund, ConfirmTx, SetStatus,
       Replies, chainVars, ledgerVars, IInv, TypeOK, Progress, RowFits
<1> QED BY <1>1, <1>2 DEF RowStep

\* A row only moves forward, CONFIRMED and FAILED are final, and a row that says
\* SENT never becomes FAILED.
THEOREM RowsAlwaysForward == Spec => RowsMoveForward
<1>1. ASSUME IInv, [Next]_vars PROVE [RowStep]_vars
  <2>1. ASSUME NEW c \in Call, ChainDecides(c) \/ Cancel(c) PROVE RowStep
    BY <2>1 DEF ChainDecides, Cancel, ledgerVars, chainVars, RowStep
  <2>2. ASSUME NEW c \in Call, NEW a \in Account, NEW reais \in Amounts,
               RequestWithdrawal(c, a, reais)
        PROVE  RowStep
    BY <2>2 DEF RequestWithdrawal, RowStep
  <2>3. ASSUME Crash PROVE RowStep
    BY <2>3 DEF Crash, RowStep
  <2> QED BY <1>1, <2>1, <2>2, <2>3, RowsStep DEF Next
<1> QED BY <1>1, IInvInvariant, PTL DEF Spec, RowsMoveForward

-----------------------------------------------------------------------------
(* The refinement of Custody *)

\* Where Custody has the money of one withdrawal.
PlaceOf(c) ==
  CASE c \notin debited -> "account"
    [] c \in debited /\ c \in unheard ->
         IF c \in refunded THEN "writtenOff" ELSE "adrift"
    [] c \in debited \ unheard /\ c \in refunded ->
         IF transfer[c] = "landed" THEN "both" ELSE "returned"
    [] OTHER -> IF transfer[c] = "landed" THEN "paid" ELSE "held"

TermsOf(c) == IF c \in debited THEN request[c] ELSE NoRequest

Places == [c \in Call |-> PlaceOf(c)]
AllTerms == [c \in Call |-> TermsOf(c)]

\* The cases of PlaceOf, before and after a step.
LEMMA PlaceCases ==
  ASSUME NEW c \in Call
  PROVE  /\ c \notin debited => PlaceOf(c) = "account"
         /\ c \in debited \ (unheard \cup refunded) =>
              PlaceOf(c) = IF transfer[c] = "landed" THEN "paid" ELSE "held"
         /\ c \in (debited \cap unheard) \ refunded => PlaceOf(c) = "adrift"
BY DEF PlaceOf

LEMMA PlaceCasesNext ==
  ASSUME NEW c \in Call
  PROVE  /\ c \in debited' \ (unheard' \cup refunded') =>
              PlaceOf(c)' = IF transfer'[c] = "landed" THEN "paid" ELSE "held"
         /\ c \in (debited' \cap unheard') \ refunded' => PlaceOf(c)' = "adrift"
         /\ c \in debited' \cap unheard' \cap refunded' => PlaceOf(c)' = "writtenOff"
         /\ c \in (debited' \cap refunded') \ unheard' /\ transfer'[c] # "landed" =>
              PlaceOf(c)' = "returned"
BY DEF PlaceOf

\* A call whose debit, refund and payout stay as they are keeps its money where it
\* is.
LEMMA PlaceStays ==
  ASSUME NEW c \in Call,
         c \in debited' <=> c \in debited, c \in refunded' <=> c \in refunded,
         c \in unheard' <=> c \in unheard,
         transfer'[c] = "landed" <=> transfer[c] = "landed",
         c \in debited => request'[c] = request[c]
  PROVE  PlaceOf(c)' = PlaceOf(c) /\ TermsOf(c)' = TermsOf(c)
BY DEF PlaceOf, TermsOf

\* A payout out of sight stays so wherever the chain takes it.
LEMMA PlaceUnheard ==
  ASSUME NEW c \in Call, c \in debited \cap unheard,
         UNCHANGED <<debited, unheard, refunded>>
  PROVE  PlaceOf(c)' = PlaceOf(c)
BY DEF PlaceOf

\* What a step does to one withdrawal, it does to Custody's tables.
LEMMA OneMoves ==
  ASSUME NEW c \in Call, NEW p, NEW t, PlaceOf(c)' = p, TermsOf(c)' = t,
         \A d \in Call \ {c} :
           PlaceOf(d)' = PlaceOf(d) /\ TermsOf(d)' = TermsOf(d)
  PROVE  /\ Places' = [Places EXCEPT ![c] = p]
         /\ AllTerms' = [AllTerms EXCEPT ![c] = t]
BY DEF Places, AllTerms

LEMMA NoneMoves ==
  ASSUME \A c \in Call : PlaceOf(c)' = PlaceOf(c) /\ TermsOf(c)' = TermsOf(c)
  PROVE  UNCHANGED <<Places, AllTerms>>
BY DEF Places, AllTerms

\* Custody's actions, with its variables replaced.
LEMMA Mapping ==
  /\ Abstract!Init <=> /\ ledger \in [Account -> Nat]
                       /\ Places = [w \in Call |-> "account"]
                       /\ AllTerms = [w \in Call |-> NoRequest]
  /\ \A w \in Call :
       /\ \A t \in Request : Abstract!Hold(w, t) <=>
            /\ Places[w] = "account"
            /\ t.amount <= ledger[t.account]
            /\ ledger' = [ledger EXCEPT ![t.account] = @ - t.amount]
            /\ Places' = [Places EXCEPT ![w] = "held"]
            /\ AllTerms' = [AllTerms EXCEPT ![w] = t]
       /\ Abstract!Pay(w) <=>
            /\ Places[w] = "held"
            /\ Places' = [Places EXCEPT ![w] = "paid"]
            /\ UNCHANGED <<ledger, AllTerms>>
       /\ Abstract!Return(w) <=>
            /\ Places[w] = "held"
            /\ ledger' = [ledger EXCEPT ![AllTerms[w].account] =
                             @ + AllTerms[w].amount]
            /\ Places' = [Places EXCEPT ![w] = "returned"]
            /\ UNCHANGED AllTerms
       /\ Abstract!LoseSight(w) <=>
            /\ Places[w] = "held"
            /\ Places' = [Places EXCEPT ![w] = "adrift"]
            /\ UNCHANGED <<ledger, AllTerms>>
       /\ Abstract!WriteOff(w) <=>
            /\ Places[w] = "adrift"
            /\ ledger' = [ledger EXCEPT ![AllTerms[w].account] =
                             @ + AllTerms[w].amount]
            /\ Places' = [Places EXCEPT ![w] = "writtenOff"]
            /\ UNCHANGED AllTerms
  /\ (UNCHANGED Abstract!vars) <=> UNCHANGED <<ledger, Places, AllTerms>>
BY DEF Abstract!Init, Abstract!Hold, Abstract!Pay, Abstract!Return,
       Abstract!LoseSight, Abstract!WriteOff, Abstract!vars,
       Places, PlaceOf, AllTerms, TermsOf

CustodyStep == Abstract!Next \/ UNCHANGED Abstract!vars

\* Steps that Custody does not see.
LEMMA HiddenStep ==
  ASSUME IInv, UNCHANGED ledger,
         \A c \in Call :
           /\ c \in debited' <=> c \in debited
           /\ c \in refunded' <=> c \in refunded
           /\ c \in unheard' <=> c \in unheard
           /\ transfer'[c] = "landed" <=> transfer[c] = "landed"
           /\ c \in debited => request'[c] = request[c]
  PROVE  CustodyStep
<1>1. \A c \in Call : PlaceOf(c)' = PlaceOf(c) /\ TermsOf(c)' = TermsOf(c)
  BY PlaceStays
<1> QED BY <1>1, NoneMoves, Mapping DEF CustodyStep

\* The debit is Custody's Hold, if it takes effect.
LEMMA DebitHolds ==
  ASSUME IInv, NEW c \in Call, Debit(c)
  PROVE  CustodyStep
<1>1. CASE debited' = debited /\ ledger' = ledger
  BY <1>1, HiddenStep DEF Debit, chainVars
<1>2. CASE ~(debited' = debited /\ ledger' = ledger)
  <2> DEFINE r == request[c]
  <2>1. /\ r \in Request /\ c \notin debited /\ c \notin refunded /\ c \notin unheard
        /\ transfer[c] = "none"
    BY DEF Debit, IInv, TypeOK, Progress, Opening, PayoutFits
  <2>2. /\ r.amount <= ledger[r.account]
        /\ ledger' = [ledger EXCEPT ![r.account] = @ - r.amount]
        /\ debited' = debited \cup {c}
        /\ UNCHANGED <<request, refunded, transfer, unheard>>
    BY <1>2 DEF Debit, chainVars
  <2>3. PlaceOf(c) = "account" /\ PlaceOf(c)' = "held" /\ TermsOf(c)' = r
    BY <2>1, <2>2, PlaceCases, PlaceCasesNext DEF TermsOf
  <2>4. \A d \in Call \ {c} :
          PlaceOf(d)' = PlaceOf(d) /\ TermsOf(d)' = TermsOf(d)
    BY <2>2, PlaceStays
  <2>5. /\ Places' = [Places EXCEPT ![c] = "held"]
        /\ AllTerms' = [AllTerms EXCEPT ![c] = r]
    BY <2>3, <2>4, OneMoves
  <2>6. Places[c] = "account"
    BY <2>3 DEF Places
  <2>7. PICK t \in Request : t = r
    BY <2>1
  <2>8. Abstract!Hold(c, t)
    BY <2>2, <2>5, <2>6, <2>7, Mapping
  <2>9. t \in Abstract!Terms
    BY DEF Abstract!Terms, Request
  <2> QED BY <2>8, <2>9 DEF CustodyStep, Abstract!Next
<1> QED BY <1>1, <1>2

\* A transition of one withdrawal's place that keeps its terms.
LEMMA PlaceMoves ==
  ASSUME NEW c \in Call, NEW p, PlaceOf(c)' = p,
         UNCHANGED <<request, debited>>,
         \A d \in Call \ {c} :
           /\ d \in refunded' <=> d \in refunded
           /\ d \in unheard' <=> d \in unheard
           /\ transfer'[d] = transfer[d]
  PROVE  Places' = [Places EXCEPT ![c] = p] /\ UNCHANGED AllTerms
<1>1. \A d \in Call : TermsOf(d)' = TermsOf(d)
  BY DEF TermsOf
<1>2. \A d \in Call \ {c} : PlaceOf(d)' = PlaceOf(d)
  BY PlaceStays
<1> QED BY <1>1, <1>2 DEF Places, AllTerms

\* A broadcast that the call does not hear of loses sight of the money.
LEMMA SendLosesSight ==
  ASSUME IInv, NEW c \in Call, Send(c)
  PROVE  CustodyStep
<1>1. /\ c \in debited /\ c \notin refunded /\ c \notin unheard
      /\ transfer[c] = "none"
  BY DEF Send, IInv, Progress, Opening, PayoutFits
<1>2. CASE unheard' = unheard
  <2>1. \A d \in Call : transfer'[d] = "landed" <=> transfer[d] = "landed"
    BY <1>1, <1>2 DEF Send, chainVars, IInv, TypeOK
  <2> QED BY <1>2, <2>1, HiddenStep DEF Send, ledgerVars
<1>3. CASE unheard' # unheard
  <2>1. /\ transfer' = [transfer EXCEPT ![c] = "pending"]
        /\ unheard' = unheard \cup {c}
        /\ UNCHANGED <<request, ledger, debited, refunded>>
    BY <1>3 DEF Send, chainVars, ledgerVars
  <2>2. PlaceOf(c) = "held" /\ PlaceOf(c)' = "adrift"
    BY <1>1, <2>1, PlaceCases, PlaceCasesNext
  <2>3. \A d \in Call \ {c} : transfer'[d] = transfer[d]
    BY <2>1 DEF IInv, TypeOK
  <2>4. Places' = [Places EXCEPT ![c] = "adrift"] /\ UNCHANGED AllTerms
    BY <2>1, <2>2, <2>3, PlaceMoves
  <2>5. Abstract!LoseSight(c)
    BY <2>1, <2>2, <2>4, Mapping DEF Places
  <2> QED BY <2>5 DEF CustodyStep, Abstract!Next
<1> QED BY <1>2, <1>3

\* A payout that lands is paid, unless nobody knows that it was sent.
LEMMA LandingPays ==
  ASSUME IInv, NEW c \in Call, ChainDecides(c)
  PROVE  CustodyStep
<1>1. /\ UNCHANGED <<request, ledger, debited, refunded, unheard>>
      /\ transfer[c] = "pending" /\ c \in debited
      /\ \A d \in Call \ {c} : transfer'[d] = transfer[d]
  BY DEF ChainDecides, ledgerVars, IInv, TypeOK, Progress, PayoutFits
<1>2. CASE transfer'[c] = "landed" /\ c \notin unheard
  <2>1. c \notin refunded
    BY <1>1, <1>2 DEF IInv, Progress, PayoutFits
  <2>2. PlaceOf(c) = "held" /\ PlaceOf(c)' = "paid"
    BY <1>1, <1>2, <2>1, PlaceCases, PlaceCasesNext
  <2>3. Places' = [Places EXCEPT ![c] = "paid"] /\ UNCHANGED AllTerms
    BY <1>1, <2>2, PlaceMoves
  <2>4. Abstract!Pay(c)
    BY <1>1, <2>2, <2>3, Mapping DEF Places
  <2> QED BY <2>4 DEF CustodyStep, Abstract!Next
<1>3. CASE transfer'[c] # "landed"
  BY <1>1, <1>3, HiddenStep
<1>4. CASE c \in unheard
  <2>1. \A d \in Call : PlaceOf(d)' = PlaceOf(d) /\ TermsOf(d)' = TermsOf(d)
    <3>1. PlaceOf(c)' = PlaceOf(c) /\ TermsOf(c)' = TermsOf(c)
      BY <1>1, <1>4, PlaceUnheard DEF TermsOf
    <3> QED BY <1>1, <3>1, PlaceStays
  <2> QED BY <1>1, <2>1, NoneMoves, Mapping DEF CustodyStep
<1> QED BY <1>2, <1>3, <1>4

\* A refund returns the money, or writes off what is out of sight.
LEMMA RefundReturns ==
  ASSUME IInv, NEW c \in Call, Refund(c)
  PROVE  CustodyStep
<1> DEFINE r == request[c]
<1>1. /\ c \in debited /\ c \notin refunded
      /\ UNCHANGED <<request, debited, transfer, unheard>>
  BY DEF Refund, chainVars, IInv, Progress, Opening
<1>2. CASE UNCHANGED <<ledger, refunded>>
  BY <1>1, <1>2, HiddenStep
<1>3. CASE ~UNCHANGED <<ledger, refunded>>
  <2>1. /\ ledger' = [ledger EXCEPT ![r.account] = @ + r.amount]
        /\ refunded' = refunded \cup {c} /\ c \notin cancelled
    BY <1>3 DEF Refund, Replies
  <2>2. c \notin unheard => transfer[c] # "landed"
    BY <2>1 DEF Refund, IInv, Progress, PayoutFits
  <2>3. Places[c] = PlaceOf(c) /\ AllTerms[c] = r
    BY <1>1 DEF Places, AllTerms, TermsOf
  <2>4. CASE c \in unheard
    <3>1. PlaceOf(c) = "adrift" /\ PlaceOf(c)' = "writtenOff"
      BY <1>1, <2>1, <2>4, PlaceCases, PlaceCasesNext
    <3>2. Places' = [Places EXCEPT ![c] = "writtenOff"] /\ UNCHANGED AllTerms
      BY <1>1, <2>1, <3>1, PlaceMoves
    <3>3. Abstract!WriteOff(c)
      BY <2>1, <2>3, <3>1, <3>2, Mapping
    <3> QED BY <3>3 DEF CustodyStep, Abstract!Next
  <2>5. CASE c \notin unheard
    <3>1. PlaceOf(c) = "held" /\ PlaceOf(c)' = "returned"
      BY <1>1, <2>1, <2>2, <2>5, PlaceCases, PlaceCasesNext
    <3>2. Places' = [Places EXCEPT ![c] = "returned"] /\ UNCHANGED AllTerms
      BY <1>1, <2>1, <3>1, PlaceMoves
    <3>3. Abstract!Return(c)
      BY <2>1, <2>3, <3>1, <3>2, Mapping
    <3> QED BY <3>3 DEF CustodyStep, Abstract!Next
  <2> QED BY <2>4, <2>5
<1> QED BY <1>2, <1>3

\* What is left touches neither money nor payouts.
LEMMA QuietSteps ==
  ASSUME IInv, NEW c \in Call,
         \/ Insert(c) \/ MarkSigning(c) \/ EnsureDestATA(c) \/ Await(c)
         \/ MarkSent(c) \/ Confirm(c) \/ MarkConfirmed(c) \/ MarkFailed(c)
         \/ Cancel(c)
  PROVE  CustodyStep
BY HiddenStep
   DEF Insert, MarkSigning, EnsureDestATA, Await, MarkSent, Confirm, MarkConfirmed,
       MarkFailed, Cancel, ConfirmTx, ledgerVars, chainVars

\* Every step is one of Custody or hidden from it.
LEMMA Simulation == IInv /\ [Next]_vars => CustodyStep
<1> SUFFICES ASSUME IInv, [Next]_vars PROVE CustodyStep
  OBVIOUS
<1>1. ASSUME NEW c \in Call, Proceed(c) PROVE CustodyStep
  BY <1>1, DebitHolds, SendLosesSight, RefundReturns, QuietSteps DEF Proceed
<1>2. ASSUME NEW c \in Call, ChainDecides(c) \/ Cancel(c) PROVE CustodyStep
  BY <1>2, LandingPays, QuietSteps
<1>3. ASSUME NEW c \in Call, NEW a \in Account, NEW reais \in Amounts,
             RequestWithdrawal(c, a, reais)
      PROVE  CustodyStep
  <2>1. \A d \in Call : d \in debited => request'[d] = request[d]
    BY <1>3 DEF RequestWithdrawal, IInv, TypeOK, Progress, Opening
  <2> QED BY <1>3, <2>1, HiddenStep DEF RequestWithdrawal, ledgerVars, chainVars
<1>4. ASSUME Crash PROVE CustodyStep
  BY <1>4, HiddenStep DEF Crash, ledgerVars, chainVars
<1>5. ASSUME UNCHANGED vars PROVE CustodyStep
  BY <1>5, HiddenStep DEF vars
<1> QED BY <1>1, <1>2, <1>3, <1>4, <1>5 DEF Next

\* Whatever fails, a withdrawal's money is at one place: with the account, held,
\* paid out or returned, or it is a payout that the wallet has lost sight of, which
\* is given back at most once.
THEOREM CustodyImplemented == Spec => ImplementsCustody
<1>1. Init => Abstract!Init
  BY PlaceCases, Mapping, AmountsAssumption DEF Init, Places, AllTerms, TermsOf
<1>2. IInv /\ [Next]_vars => [Abstract!Next]_(Abstract!vars)
  BY Simulation DEF CustodyStep
<1> QED BY <1>1, <1>2, IInvInvariant, PTL DEF Spec, ImplementsCustody, Abstract!Spec
=============================================================================
