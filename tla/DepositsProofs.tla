--------------------------- MODULE DepositsProofs ---------------------------
(***************************************************************************)
(* What holds of the deposits for any number of addresses and transactions, *)
(* whatever they bring and whichever calls fail.  The proof follows one     *)
(* signature from its row to its credit: the row is inserted once, the      *)
(* poller that inserted it is the only one to credit it, and only once.     *)
(***************************************************************************)
EXTENDS Deposits, SequenceTheorems, FiniteSums

-----------------------------------------------------------------------------
(* The inductive invariant *)

\* One row and one list of credits for each transaction.
Tables ==
  /\ chain \in Seq(Tx)
  /\ deposit \in Seq(DepositRow \cup {NoRow})
  /\ credits \in Seq(Seq(Line))
  /\ Len(deposit) = Len(chain)
  /\ Len(credits) = Len(chain)

Ingesting == {"swapping", "swap", "confirmSwap", "credit", "credited", "failed"}

\* The poller has the row of the deposit at hand, and has credited it or not.
Hand ==
  /\ at \in Account /\ step \in Step /\ usdc \in Nat
  /\ seen \subseteq Sig /\ queue \subseteq Found
  /\ step \in Ingesting =>
       /\ hand \in Found
       /\ deposit[hand.sig] \in DepositRow
       /\ deposit[hand.sig].account = at
       /\ deposit[hand.sig].status \in {"DETECTED", "SWAPPING"}
  /\ step = "swapping" => deposit[hand.sig].status = "DETECTED"
  /\ step \in {"swapping", "swap", "confirmSwap", "credit"} =>
       credits[hand.sig] = <<>>
  /\ step = "credited" =>
       credits[hand.sig] = <<[account |-> at, reais |-> microUSDCToReais(usdc)]>>

IInv == Tables /\ Hand /\ CreditedAtMostOnce /\ CreditsHaveRows

-----------------------------------------------------------------------------
(* The conversion to reais *)

\* Whole reais, rounded to the nearest: at most half a real is given away.
THEOREM Rounding ==
  ASSUME NEW micro \in Nat
  PROVE  /\ microUSDCToReais(micro) \in Nat
         /\ microUSDCToReais(micro) * Unit <= micro * Rate + Unit \div 2
         /\ micro * Rate + Unit \div 2 < (microUSDCToReais(micro) + 1) * Unit
<1> DEFINE half == Unit \div 2
           product == micro * Rate
           total == product + half
<1>1. Unit \in Nat \ {0} /\ Rate \in Nat
  BY CountAssumption
<1>2. product \in Nat
  BY <1>1
<1>3. half \in Nat
  BY <1>1
<1>4. total \in Nat
  BY <1>2, <1>3
<1>5. /\ total \div Unit \in Nat
      /\ (total \div Unit) * Unit <= total
      /\ total < ((total \div Unit) + 1) * Unit
  <2> HIDE DEF total
  <2> QED BY <1>1, <1>4
<1> QED BY <1>5 DEF microUSDCToReais, mulDivRound

-----------------------------------------------------------------------------
(* What the steps do to the tables *)

\* A new transaction has no row and no credit, and the others keep theirs.
LEMMA ExtendTables ==
  ASSUME Tables, CreditedAtMostOnce, CreditsHaveRows, NEW tx \in Tx, Extend(tx)
  PROVE  /\ Tables' /\ CreditedAtMostOnce' /\ CreditsHaveRows'
         /\ Sig \subseteq Sig'
         /\ \A s \in Sig : deposit'[s] = deposit[s] /\ credits'[s] = credits[s]
<1>1. /\ chain' \in Seq(Tx)
      /\ Len(chain') = Len(chain) + 1
  BY AppendProperties DEF Tables, Extend
<1>2. /\ deposit' \in Seq(DepositRow \cup {NoRow})
      /\ Len(deposit') = Len(deposit) + 1
      /\ \A s \in 1 .. Len(deposit) : deposit'[s] = deposit[s]
      /\ deposit'[Len(deposit) + 1] = NoRow
  BY AppendProperties DEF Tables, Extend
<1>3. <<>> \in Seq(Line)
  OBVIOUS
<1>4. /\ credits' \in Seq(Seq(Line))
      /\ Len(credits') = Len(credits) + 1
      /\ \A s \in 1 .. Len(credits) : credits'[s] = credits[s]
      /\ credits'[Len(credits) + 1] = <<>>
  BY <1>3, AppendProperties DEF Tables, Extend
<1>5. Len(chain) \in Nat /\ Len(deposit) = Len(chain) /\ Len(credits) = Len(chain)
  BY DEF Tables
<1>6. \A s \in Sig' : s \in Sig \/ s = Len(chain) + 1
  BY <1>1, <1>5 DEF Sig
<1>7. Len(<<>>) = 0
  OBVIOUS
<1>8. /\ Sig \subseteq Sig'
      /\ \A s \in Sig : deposit'[s] = deposit[s] /\ credits'[s] = credits[s]
  BY <1>1, <1>2, <1>4, <1>5 DEF Sig
<1>9. CreditedAtMostOnce'
  <2> SUFFICES ASSUME NEW s \in Sig' PROVE Len(credits'[s]) <= 1
    BY DEF CreditedAtMostOnce
  <2>1. CASE s \in Sig
    BY <2>1, <1>8 DEF CreditedAtMostOnce
  <2>2. CASE s = Len(chain) + 1
    <3>1. credits'[s] = <<>>
      BY <2>2, <1>4, <1>5
    <3> QED BY <3>1, <1>7
  <2> QED BY <2>1, <2>2, <1>6
<1>10. CreditsHaveRows'
  BY <1>2, <1>4, <1>5, <1>6, <1>8 DEF CreditsHaveRows
<1> QED BY <1>1, <1>2, <1>4, <1>5, <1>8, <1>9, <1>10 DEF Tables

\* A row is written, and what it says of a credit is so.
LEMMA WriteRow ==
  ASSUME Tables, CreditedAtMostOnce, CreditsHaveRows,
         NEW s \in Sig, NEW row \in DepositRow,
         deposit' = [deposit EXCEPT ![s] = row],
         row.status = "CREDITED" =>
           credits[s] = <<[account |-> row.account, reais |-> row.reais]>>,
         UNCHANGED <<chain, credits>>
  PROVE  /\ Tables' /\ CreditedAtMostOnce' /\ CreditsHaveRows'
         /\ Sig' = Sig
         /\ deposit'[s] = row
<1>1. s \in 1 .. Len(deposit)
  BY DEF Tables, Sig
<1>2. /\ deposit' \in Seq(DepositRow \cup {NoRow})
      /\ Len(deposit') = Len(deposit)
      /\ \A t \in 1 .. Len(deposit) :
           deposit'[t] = IF t = s THEN row ELSE deposit[t]
  BY <1>1, ExceptSeq DEF Tables
<1>3. Tables' /\ Sig' = Sig
  BY <1>2 DEF Tables, Sig
<1>4. CreditedAtMostOnce'
  BY <1>3 DEF CreditedAtMostOnce
<1>5. \A t \in Sig : deposit'[t] = IF t = s THEN row ELSE deposit[t]
  BY <1>2 DEF Tables, Sig
<1>6. CreditsHaveRows'
  BY <1>3, <1>5, RowAssumption DEF CreditsHaveRows
<1> QED BY <1>1, <1>2, <1>3, <1>4, <1>6

\* A signature that has a row and no credit yet is credited.
LEMMA WriteCredit ==
  ASSUME Tables, CreditedAtMostOnce, CreditsHaveRows,
         NEW s \in Sig, NEW line \in Line,
         credits[s] = <<>>, deposit[s] \in DepositRow,
         deposit[s].status # "CREDITED",
         credits' = [credits EXCEPT ![s] = Append(@, line)],
         UNCHANGED <<chain, deposit>>
  PROVE  /\ Tables' /\ CreditedAtMostOnce' /\ CreditsHaveRows'
         /\ Sig' = Sig
         /\ credits'[s] = <<line>>
<1>1. s \in 1 .. Len(credits)
  BY DEF Tables, Sig
<1>2. Append(credits[s], line) = <<line>> /\ <<line>> \in Seq(Line) /\ Len(<<line>>) = 1
  OBVIOUS
<1>3. credits' = [credits EXCEPT ![s] = <<line>>]
  BY <1>2
<1>4. /\ credits' \in Seq(Seq(Line))
      /\ Len(credits') = Len(credits)
      /\ \A t \in 1 .. Len(credits) :
           credits'[t] = IF t = s THEN <<line>> ELSE credits[t]
  BY <1>1, <1>2, <1>3, ExceptSeq DEF Tables
<1>5. Tables' /\ Sig' = Sig
  BY <1>4 DEF Tables, Sig
<1>6. \A t \in Sig : credits'[t] = IF t = s THEN <<line>> ELSE credits[t]
  BY <1>4 DEF Tables, Sig
<1>7. CreditedAtMostOnce'
  BY <1>2, <1>5, <1>6 DEF CreditedAtMostOnce
<1>8. CreditsHaveRows'
  BY <1>5, <1>6, RowAssumption DEF CreditsHaveRows
<1> QED BY <1>1, <1>4, <1>5, <1>7, <1>8

-----------------------------------------------------------------------------
(* Every step keeps the inductive invariant *)

LEMMA IInvInit == Init => IInv
<1> SUFFICES ASSUME Init PROVE IInv
  OBVIOUS
<1>1. Tables /\ Sig = {}
  BY DEF Init, Tables, Sig
<1>2. Hand
  BY <1>1, CountAssumption DEF Init, Hand, Account, Step, Ingesting
<1> QED BY <1>1, <1>2 DEF IInv, CreditedAtMostOnce, CreditsHaveRows

\* The poller goes to an address: it holds nothing.
LEMMA AtAnAddress ==
  ASSUME NEW a \in Account, at' = a, StartAddress
  PROVE  Hand'
BY DEF StartAddress, Hand, Step, Ingesting

LEMMA NextAddressStep ==
  ASSUME IInv, NextAddress
  PROVE  Hand'
<1>1. at \in Account /\ Accounts \in Nat \ {0}
  BY CountAssumption DEF IInv, Hand
<1>2. at' \in Account
  BY <1>1 DEF NextAddress, Account
<1>3. PICK a \in Account : a = at'
  BY <1>2
<1> QED BY <1>3, AtAnAddress DEF NextAddress

\* A deposit is done with: the next one of the queue is not at hand yet.
LEMMA NextDepositStep ==
  ASSUME IInv, NEW d, NextDeposit(d), Sig' = Sig
  PROVE  Hand'
BY DEF IInv, Hand, NextDeposit, Step, Ingesting, Found

\* Steps that leave the tables alone.
LEMMA TablesStay ==
  ASSUME IInv, UNCHANGED <<chain, deposit, credits>>, Hand'
  PROVE  IInv'
BY DEF IInv, Tables, Sig, CreditedAtMostOnce, CreditsHaveRows

\* The chain grows under the poller, which may be told that its swap failed.
LEMMA ChainGrows ==
  ASSUME IInv, NEW tx \in Tx, Extend(tx),
         UNCHANGED <<at, seen, queue, hand, usdc>>,
         step' = step \/ (step = "swap" /\ step' = "failed")
  PROVE  IInv'
<1>1. /\ Tables' /\ CreditedAtMostOnce' /\ CreditsHaveRows'
      /\ Sig \subseteq Sig'
      /\ \A s \in Sig : deposit'[s] = deposit[s] /\ credits'[s] = credits[s]
  BY ExtendTables DEF IInv
<1>2. Found \subseteq Found'
  BY <1>1 DEF Found
<1>3. hand \in Found => hand.sig \in Sig
  BY DEF Found
<1>4. Hand'
  <2>1. microUSDCToReais(usdc)' = microUSDCToReais(usdc)
    BY DEF microUSDCToReais
  <2>2. /\ at' \in Account /\ step' \in Step /\ usdc' \in Nat
        /\ seen' \subseteq Sig' /\ queue' \subseteq Found'
    BY <1>1, <1>2 DEF IInv, Hand, Step
  <2>3. step' \in Ingesting => step \in Ingesting
    BY DEF Ingesting
  <2> QED BY <1>1, <1>2, <1>3, <2>1, <2>2, <2>3 DEF IInv, Hand, Ingesting
<1> QED BY <1>1, <1>4 DEF IInv

\* No row is touched when the chain grows.
LEMMA ExtendRows ==
  ASSUME IInv, deposit' = Append(deposit, NoRow)
  PROVE  RowStep
<1>1. \A s \in Sig : deposit'[s] = deposit[s]
  BY AppendProperties DEF IInv, Tables, Sig
<1> QED BY <1>1 DEF RowStep

LEMMA TransferStep ==
  ASSUME IInv, NEW brings \in Transfers, Transfer(brings)
  PROVE  IInv'
<1> DEFINE tx == [brings |-> brings, signer |-> 0]
<1>1. tx \in Tx
  BY TransferAssumption, CountAssumption DEF Tx
<1> QED BY <1>1, ChainGrows DEF Transfer, pollVars

\* A swap's transaction is one of the chain's.
LEMMA SwapTxIsTx ==
  ASSUME NEW a \in Account, NEW r \in SwapReceipts
  PROVE  SwapTx(a, r) \in Tx
BY TransferAssumption, CountAssumption DEF SwapTx, Tx, Nothing, Account

LEMMA ChainDecidesStep ==
  ASSUME IInv, ChainDecides
  PROVE  IInv'
<1>1. CASE \E r \in SwapReceipts : Extend(SwapTx(at, r))
  <2>1. PICK r \in SwapReceipts : Extend(SwapTx(at, r))
    BY <1>1
  <2>2. PICK tx : tx = SwapTx(at, r)
    OBVIOUS
  <2>3. tx \in Tx
    BY <2>2, SwapTxIsTx DEF IInv, Hand
  <2>4. Extend(tx)
    BY <2>1, <2>2 DEF Extend
  <2> QED BY <2>3, <2>4, ChainGrows DEF ChainDecides, pollVars
<1>2. CASE UNCHANGED <<chain, deposit, credits>>
  <2>1. Hand'
    BY <1>2 DEF ChainDecides, pollVars, IInv, Hand, Found, Sig, microUSDCToReais
  <2> QED BY <1>2, <2>1, TablesStay
<1> QED BY <1>1, <1>2 DEF ChainDecides

LEMMA SwapStep ==
  ASSUME IInv, Swap
  PROVE  IInv'
<1>1. CASE \E r \in SwapReceipts : Extend(SwapTx(at, r)) /\ GoTo("failed")
  <2>1. PICK r \in SwapReceipts : Extend(SwapTx(at, r)) /\ GoTo("failed")
    BY <1>1
  <2>2. PICK tx : tx = SwapTx(at, r)
    OBVIOUS
  <2>3. tx \in Tx
    BY <2>2, SwapTxIsTx DEF IInv, Hand
  <2>4. Extend(tx)
    BY <2>1, <2>2 DEF Extend
  <2> QED BY <2>1, <2>3, <2>4, ChainGrows DEF Swap, GoTo
<1>2. CASE UNCHANGED <<chain, deposit, credits>> /\ (GoTo("confirmSwap") \/ GoTo("failed"))
  <2>1. Hand'
    BY <1>2 DEF Swap, GoTo, IInv, Hand, Found, Sig, Step, Ingesting
  <2> QED BY <1>2, <2>1, TablesStay
<1> QED BY <1>1, <1>2 DEF Swap

\* The steps of the poller that read, or move its cursor.
LEMMA ReadingStep ==
  ASSUME IInv, GiveUp \/ ScanBase \/ ScanATA \/ SaveCursor \/ ConfirmSwap \/ Crash
  PROVE  IInv'
<1>1. CASE GiveUp \/ SaveCursor
  BY <1>1, NextAddressStep, TablesStay DEF GiveUp, SaveCursor
<1>2. CASE ScanBase
  <2>1. SignaturesSince(OnBase(at), cursor[at]) \subseteq Sig
    BY DEF SignaturesSince, NewestOf, OnBase
  <2>2. Hand'
    BY <1>2, <2>1 DEF ScanBase, IInv, Hand, Found, Sig, Step, Ingesting
  <2> QED BY <1>2, <2>2, TablesStay DEF ScanBase
<1>3. CASE ScanATA
  <2> DEFINE ataSigs == SignaturesSince(OnATA(at), cursor[at])
  <2>1. ataSigs \subseteq Sig /\ seen \subseteq Sig /\ at \in Account
    BY DEF SignaturesSince, NewestOf, OnATA, IInv, Hand
  <2>2. ASSUME NEW s \in Sig PROVE DepositsInTx(at, s) \subseteq [asset : {"USDC", "SOL"}, amount : Nat]
    <3>1. chain[s] \in Tx
      BY <2>2, ElementOfSeq DEF IInv, Tables, Sig
    <3>2. chain[s].brings[at].usdc \in Nat /\ chain[s].brings[at].sol \in Nat
      BY <2>1, <3>1 DEF Tx
    <3> QED BY <3>2 DEF DepositsInTx
  <2>3. ASSUME NEW list \in {"base", "ATA"}, NEW S \in SUBSET Sig
        PROVE  DepositsIn(at, list, S) \subseteq Found
    BY <2>2 DEF DepositsIn, Found
  <2>4. queue' \subseteq Found
    BY <1>3, <2>1, <2>3 DEF ScanATA
  <2>5. seen' \subseteq Sig
    BY <1>3, <2>1 DEF ScanATA
  <2>6. /\ UNCHANGED <<chain, deposit, credits, at, usdc>>
        /\ step' \in {"saveCursor", "insert"}
    BY <1>3 DEF ScanATA
  <2>7. Hand'
    BY <2>4, <2>5, <2>6 DEF IInv, Hand, Found, Sig, Step, Ingesting
  <2> QED BY <1>3, <2>7, TablesStay DEF ScanATA
<1>4. CASE ConfirmSwap
  <2>1. Hand'
    BY <1>4, TransferAssumption
       DEF ConfirmSwap, GoTo, IInv, Hand, Found, Sig, Step, Ingesting
  <2> QED BY <1>4, <2>1, TablesStay DEF ConfirmSwap
<1>5. CASE Crash
  <2>1. 1 \in Account
    BY CountAssumption DEF Account
  <2>2. Hand'
    BY <1>5, <2>1, AtAnAddress DEF Crash
  <2> QED BY <1>5, <2>2, TablesStay DEF Crash
<1> QED BY <1>1, <1>2, <1>3, <1>4, <1>5

\* InsertDepositIfNew writes a row only where there is none: no credit is there.
LEMMA InsertStep ==
  ASSUME IInv, Insert
  PROVE  IInv' /\ RowStep
<1>1. PICK d \in queue :
        \/ /\ deposit[d.sig] = NoRow
           /\ \E reply \in Replies("store") :
                /\ deposit' = IF reply = "failed" THEN deposit
                              ELSE [deposit EXCEPT ![d.sig] = DetectedRow(d)]
                /\ IF reply = "ok" THEN Resolve(d) ELSE AfterFailure(d)
        \/ /\ UNCHANGED deposit
           /\ NextDeposit(d) \/ AfterFailure(d)
  BY DEF Insert
<1>2. d \in Found /\ d.sig \in Sig /\ d.asset \in {"USDC", "SOL"} /\ d.amount \in Nat
  BY DEF IInv, Hand, Found
<1>3. at \in Account
  BY DEF IInv, Hand
<1>4. UNCHANGED <<chain, credits>>
  BY DEF Insert
<1>5. CASE UNCHANGED deposit /\ (NextDeposit(d) \/ AfterFailure(d))
  <2>1. Sig' = Sig
    BY <1>4 DEF Sig
  <2>2. Hand'
    BY <1>5, <2>1, NextAddressStep, NextDepositStep DEF AfterFailure
  <2> QED BY <1>4, <1>5, <2>2, TablesStay DEF RowStep
<1>6. CASE /\ deposit[d.sig] = NoRow
           /\ deposit' = [deposit EXCEPT ![d.sig] = DetectedRow(d)]
           /\ Resolve(d) \/ AfterFailure(d)
  <2> DEFINE row == DetectedRow(d)
  <2>1. /\ row \in DepositRow /\ row.status = "DETECTED" /\ row.account = at
    BY <1>2, <1>3 DEF DetectedRow, DepositRow, DepositStatus
  <2>2. PICK r \in DepositRow : r = row
    BY <2>1
  <2>3. /\ Tables' /\ CreditedAtMostOnce' /\ CreditsHaveRows'
        /\ Sig' = Sig
        /\ deposit'[d.sig] = r
    BY <1>2, <1>4, <1>6, <2>1, <2>2, WriteRow DEF IInv
  <2>4. credits[d.sig] = <<>>
    BY <1>2, <1>6 DEF IInv, CreditsHaveRows
  <2>5. RowStep
    BY <1>6, RowAssumption DEF RowStep
  <2>6. CASE Resolve(d)
    <3>1. deposit'[hand'.sig] = r /\ credits'[hand'.sig] = <<>> /\ hand' \in Found' /\ at' = at
      BY <1>2, <1>4, <2>3, <2>4, <2>6 DEF Resolve, Found
    <3>2. Hand'
      BY <1>2, <2>1, <2>2, <2>3, <2>6, <3>1 DEF Resolve, IInv, Hand, Found, Step, Ingesting
    <3> QED BY <2>3, <2>5, <3>2 DEF IInv
  <2>7. CASE AfterFailure(d)
    BY <2>3, <2>5, <2>7, NextAddressStep DEF IInv, AfterFailure
  <2> QED BY <1>6, <2>6, <2>7
<1> QED BY <1>1, <1>5, <1>6

\* The row at hand is given another status, one that speaks of no credit.
LEMMA SetStatusStep ==
  ASSUME IInv, NEW reply, NEW status \in {"SWAPPING", "FAILED"},
         step \in {"swapping", "failed"},
         status = "SWAPPING" => step = "swapping",
         SetStatus(hand.sig, status, reply),
         UNCHANGED <<chain, credits>>
  PROVE  /\ Tables' /\ CreditedAtMostOnce' /\ CreditsHaveRows'
         /\ Sig' = Sig
         /\ deposit'[hand.sig] \in DepositRow
         /\ deposit'[hand.sig].account = at
         /\ status = "SWAPPING" => deposit'[hand.sig].status \in {"DETECTED", "SWAPPING"}
         /\ RowStep
<1>1. /\ hand.sig \in Sig /\ deposit[hand.sig] \in DepositRow
      /\ deposit[hand.sig].account = at
      /\ deposit[hand.sig].status \in {"DETECTED", "SWAPPING"}
      /\ step = "swapping" => deposit[hand.sig].status = "DETECTED"
  BY DEF IInv, Hand, Ingesting, Found
<1>2. CASE reply = "failed"
  <2>1. UNCHANGED deposit
    BY <1>2 DEF SetStatus
  <2> QED BY <1>1, <2>1 DEF IInv, Tables, CreditedAtMostOnce, CreditsHaveRows, Sig, RowStep
<1>3. CASE reply # "failed"
  <2>1. PICK row : row = [deposit[hand.sig] EXCEPT !.status = status]
    OBVIOUS
  <2>2. /\ row \in DepositRow /\ row.status = status /\ row.account = at
        /\ row.asset = deposit[hand.sig].asset /\ row.raw = deposit[hand.sig].raw
    BY <1>1, <2>1 DEF DepositRow, DepositStatus
  <2>3. PICK s \in Sig : s = hand.sig
    BY <1>1
  <2>4. deposit' = [deposit EXCEPT ![s] = row]
    BY <1>3, <2>1, <2>3 DEF SetStatus
  <2>5. /\ Tables' /\ CreditedAtMostOnce' /\ CreditsHaveRows'
        /\ Sig' = Sig
        /\ deposit'[s] = row
    BY <2>2, <2>4, WriteRow DEF IInv
  <2>6. RowStep
    BY <1>1, <2>2, <2>3, <2>4, <2>5 DEF RowStep
  <2> QED BY <2>2, <2>3, <2>5, <2>6
<1> QED BY <1>2, <1>3

LEMMA StatusSteps ==
  ASSUME IInv, MarkSwapping \/ MarkFailed
  PROVE  IInv' /\ RowStep
<1>1. CASE MarkSwapping
  <2>1. PICK reply \in Replies("store") :
          /\ SetStatus(hand.sig, "SWAPPING", reply)
          /\ GoTo(IF reply = "ok" THEN "swap" ELSE "failed")
    BY <1>1 DEF MarkSwapping
  <2>2. /\ Tables' /\ CreditedAtMostOnce' /\ CreditsHaveRows'
        /\ Sig' = Sig
        /\ deposit'[hand.sig] \in DepositRow
        /\ deposit'[hand.sig].account = at
        /\ deposit'[hand.sig].status \in {"DETECTED", "SWAPPING"}
        /\ RowStep
    BY <1>1, <2>1, SetStatusStep DEF MarkSwapping
  <2>3. Hand'
    BY <1>1, <2>1, <2>2 DEF MarkSwapping, GoTo, IInv, Hand, Found, Step, Ingesting
  <2> QED BY <2>2, <2>3 DEF IInv
<1>2. CASE MarkFailed
  <2>1. PICK reply \in Replies("store") : SetStatus(hand.sig, "FAILED", reply)
    BY <1>2 DEF MarkFailed
  <2>2. /\ Tables' /\ CreditedAtMostOnce' /\ CreditsHaveRows'
        /\ Sig' = Sig
        /\ RowStep
    BY <1>2, <2>1, SetStatusStep DEF MarkFailed
  <2>3. Hand'
    BY <1>2, NextAddressStep DEF MarkFailed, AfterFailure
  <2> QED BY <2>2, <2>3 DEF IInv
<1> QED BY <1>1, <1>2

\* The ledger is asked once for each row, by the call that inserted it.
LEMMA CreditStep ==
  ASSUME IInv, Credit
  PROVE  IInv' /\ RowStep
<1>1. PICK reply \in Replies("ledger") :
        /\ credits' = IF reply = "failed" THEN credits
                      ELSE [credits EXCEPT ![hand.sig] =
                              Append(@, [account |-> at,
                                         reais |-> microUSDCToReais(usdc)])]
        /\ GoTo(AfterCredit(reply))
  BY DEF Credit
<1>2. /\ hand.sig \in Sig /\ deposit[hand.sig] \in DepositRow
      /\ deposit[hand.sig].account = at
      /\ deposit[hand.sig].status \in {"DETECTED", "SWAPPING"}
      /\ credits[hand.sig] = <<>>
      /\ at \in Account /\ usdc \in Nat
  BY DEF Credit, IInv, Hand, Ingesting, Found
<1>3. RowStep
  BY DEF Credit, RowStep
<1>4. step' \in {"credited", "failed"} /\ (step' = "credited" => reply = "ok")
  BY <1>1 DEF GoTo, AfterCredit
<1>5. microUSDCToReais(usdc)' = microUSDCToReais(usdc)
  BY <1>1 DEF GoTo, microUSDCToReais
<1>6. CASE reply = "failed"
  <2>1. UNCHANGED <<chain, deposit, credits>>
    BY <1>1, <1>6 DEF Credit
  <2>2. Hand'
    BY <1>1, <1>2, <1>4, <1>6, <2>1 DEF Credit, GoTo, IInv, Hand, Found, Sig, Step, Ingesting
  <2> QED BY <1>3, <2>1, <2>2, TablesStay
<1>7. CASE reply # "failed"
  <2>1. PICK line \in Line : line = [account |-> at, reais |-> microUSDCToReais(usdc)]
    BY <1>2, Rounding DEF Line
  <2>2. PICK s \in Sig : s = hand.sig
    BY <1>2
  <2>3. /\ Tables' /\ CreditedAtMostOnce' /\ CreditsHaveRows'
        /\ Sig' = Sig
        /\ credits'[s] = <<line>>
    BY <1>1, <1>2, <1>7, <2>1, <2>2, WriteCredit DEF IInv, Credit
  <2>4. Hand'
    BY <1>1, <1>2, <1>4, <1>5, <2>1, <2>2, <2>3
       DEF Credit, GoTo, IInv, Hand, Found, Step, Ingesting
  <2> QED BY <1>3, <2>3, <2>4 DEF IInv
<1> QED BY <1>6, <1>7

\* MarkDepositCredited says what has been credited.
LEMMA MarkCreditedStep ==
  ASSUME IInv, MarkCredited
  PROVE  IInv' /\ RowStep
<1>1. PICK reply \in Replies("store") :
        /\ deposit' = IF reply = "failed" THEN deposit
                      ELSE [deposit EXCEPT ![hand.sig].status = "CREDITED",
                                           ![hand.sig].reais = microUSDCToReais(usdc)]
        /\ IF reply = "ok" THEN NextDeposit(hand) ELSE AfterFailure(hand)
  BY DEF MarkCredited
<1>2. /\ hand.sig \in Sig /\ deposit[hand.sig] \in DepositRow
      /\ deposit[hand.sig].account = at
      /\ deposit[hand.sig].status \in {"DETECTED", "SWAPPING"}
      /\ credits[hand.sig] = <<[account |-> at, reais |-> microUSDCToReais(usdc)]>>
      /\ usdc \in Nat
  BY DEF MarkCredited, IInv, Hand, Ingesting, Found
<1>3. UNCHANGED <<chain, credits>> /\ Sig' = Sig
  BY DEF MarkCredited, Sig
<1>4. Hand'
  <2>1. PICK d : d = hand
    OBVIOUS
  <2>2. CASE NextDeposit(hand)
    BY <1>3, <2>1, <2>2, NextDepositStep DEF NextDeposit
  <2>3. CASE AfterFailure(hand)
    BY <2>3, NextAddressStep DEF AfterFailure
  <2> QED BY <1>1, <2>2, <2>3
<1>5. CASE reply = "failed"
  BY <1>1, <1>3, <1>4, <1>5, TablesStay DEF RowStep
<1>6. CASE reply # "failed"
  <2>1. PICK row : row = [[deposit[hand.sig] EXCEPT !.status = "CREDITED"]
                            EXCEPT !.reais = microUSDCToReais(usdc)]
    OBVIOUS
  <2>2. /\ row \in DepositRow /\ row.status = "CREDITED" /\ row.account = at
        /\ row.reais = microUSDCToReais(usdc)
        /\ row.asset = deposit[hand.sig].asset /\ row.raw = deposit[hand.sig].raw
    BY <1>2, <2>1, Rounding DEF DepositRow, DepositStatus
  <2>3. PICK s \in Sig : s = hand.sig
    BY <1>2
  <2>4. deposit' = [deposit EXCEPT ![s] = row]
    BY <1>1, <1>2, <1>6, <2>1, <2>3
  <2>5. /\ Tables' /\ CreditedAtMostOnce' /\ CreditsHaveRows'
        /\ deposit'[s] = row
    BY <1>2, <1>3, <2>2, <2>3, <2>4, WriteRow DEF IInv
  <2>6. RowStep
    BY <1>2, <2>2, <2>3, <2>4, <2>5 DEF RowStep
  <2> QED BY <1>4, <2>5, <2>6 DEF IInv
<1> QED BY <1>5, <1>6

LEMMA IInvStep == IInv /\ [Next]_vars => IInv' /\ [RowStep]_vars
<1> SUFFICES ASSUME IInv, [Next]_vars PROVE IInv' /\ [RowStep]_vars
  OBVIOUS
<1>1. CASE UNCHANGED vars
  <2>1. Hand'
    BY <1>1 DEF vars, IInv, Hand, Found, Sig, microUSDCToReais
  <2> QED BY <1>1, <2>1, TablesStay DEF vars
<1>2. CASE \E brings \in Transfers : Transfer(brings)
  BY <1>2, TransferStep, ExtendRows DEF Extend, Transfer
<1>3. CASE Insert \/ MarkSwapping \/ Credit \/ MarkCredited \/ MarkFailed
  BY <1>3, InsertStep, StatusSteps, CreditStep, MarkCreditedStep
<1>4. CASE Swap
  BY <1>4, SwapStep, ExtendRows DEF Extend, Swap, RowStep
<1>5. CASE ChainDecides
  BY <1>5, ChainDecidesStep, ExtendRows DEF Extend, ChainDecides, RowStep
<1>6. CASE GiveUp \/ ScanBase \/ ScanATA \/ SaveCursor \/ ConfirmSwap \/ Crash
  BY <1>6, ReadingStep DEF GiveUp, ScanBase, ScanATA, SaveCursor, ConfirmSwap, Crash, RowStep
<1> QED BY <1>1, <1>2, <1>3, <1>4, <1>5, <1>6 DEF Next, Poll

\* The inductive invariant holds of every behaviour.
LEMMA IInvHolds == Spec => []IInv /\ [][RowStep]_vars
BY IInvInit, IInvStep, PTL DEF Spec

-----------------------------------------------------------------------------
(* What is credited is backed by what was received *)

\* What a deposit is credited for: the USDC of its transaction, or what the swap of
\* its SOL brings at least.
Worth(s, a) == IF deposit[s].asset = "USDC" THEN chain[s].brings[a].usdc ELSE SwapMinOut

\* A signature is credited with what it is worth, rounded.
Backed(s) ==
  credits[s] # <<>> =>
    \E line \in Line :
      /\ credits[s] = <<line>>
      /\ line.reais * Unit <= Worth(s, line.account) * Rate + Unit \div 2

\* A swap pays the account that signs for it, at least what was quoted.
SwapsPay ==
  \A s \in Sig : chain[s].signer # 0 =>
    SwapMinOut <= chain[s].brings[chain[s].signer].usdc

\* The credits of an account for its SOL, and the one that is about to be made: there
\* is a swap of its own for each.
SwapCredits(a) == {s \in Sig : /\ credits[s] # <<>> /\ credits[s][1].account = a
                              /\ deposit[s].asset # "USDC"}
SwapInHand(a) ==
  /\ at = a
  /\ \/ step = "confirmSwap" /\ swap = "landed"
     \/ step = "credit" /\ hand.asset # "USDC"
SwapsCover(a) ==
  /\ Cardinality(SwapCredits(a)) <= Cardinality(SwapsOf(a))
  /\ SwapInHand(a) => Cardinality(SwapCredits(a)) < Cardinality(SwapsOf(a))

BackedHand ==
  /\ swap = "none" \/ step = "confirmSwap"
  /\ \A d \in queue : d.asset = "USDC" => d.amount = chain[d.sig].brings[at].usdc
  /\ step \in Ingesting => deposit[hand.sig].asset = hand.asset
  /\ step \in {"swapping", "swap", "confirmSwap"} => hand.asset # "USDC"
  /\ step = "credit" => usdc = Worth(hand.sig, at)

BackedInv ==
  /\ IInv /\ SwapsPay /\ BackedHand
  /\ \A s \in Sig : Backed(s)
  /\ \A a \in Account : SwapsCover(a)

\* What a transaction brings is a number of micro-USDC and one of lamports.
LEMMA BringsType ==
  ASSUME Tables, NEW s \in Sig, NEW a \in Account
  PROVE  chain[s].brings[a].usdc \in Nat /\ chain[s].brings[a].sol \in Nat
<1>1. chain[s] \in Tx
  BY ElementOfSeq DEF Tables, Sig
<1> QED BY <1>1 DEF Tx

\* The transactions that are on the chain stay as they are, and so do their rows and
\* credits when another one comes.
LEMMA OldTransactions ==
  ASSUME Tables, NEW tx, Extend(tx)
  PROVE  /\ Len(chain) \in Nat /\ Sig' = Sig \cup {Len(chain) + 1}
         /\ \A s \in Sig : /\ chain'[s] = chain[s] /\ deposit'[s] = deposit[s]
                           /\ credits'[s] = credits[s]
         /\ chain'[Len(chain) + 1] = tx /\ deposit'[Len(chain) + 1] = NoRow
         /\ credits'[Len(chain) + 1] = <<>>
BY AppendProperties DEF Tables, Extend, Sig

\* The numbers of swaps and of credits for them are natural numbers.
LEMMA SwapCounts ==
  ASSUME Tables, NEW a
  PROVE  /\ IsFiniteSet(SwapsOf(a)) /\ Cardinality(SwapsOf(a)) \in Nat
         /\ IsFiniteSet(SwapCredits(a)) /\ Cardinality(SwapCredits(a)) \in Nat
<1>1. IsFiniteSet(Sig)
  <2>1. Len(chain) \in Nat
    BY DEF Tables
  <2> QED BY <2>1, FS_Interval DEF Sig
<1>2. SwapsOf(a) \subseteq Sig /\ SwapCredits(a) \subseteq Sig
  BY DEF SwapsOf, SwapCredits
<1> QED BY <1>1, <1>2, FS_Subset, FS_CardinalityType

\* A row keeps its asset.
LEMMA AssetsStay ==
  ASSUME RowStep, NEW s \in Sig, deposit[s] # NoRow
  PROVE  deposit'[s].asset = deposit[s].asset
BY DEF RowStep

\* A step that neither credits nor adds to the chain leaves what was credited backed.
LEMMA BackedStays ==
  ASSUME BackedInv, IInv', RowStep, UNCHANGED <<chain, credits>>, BackedHand',
         \A a \in Account : SwapInHand(a)' => SwapInHand(a)
  PROVE  BackedInv'
<1>1. Sig' = Sig
  BY DEF Sig
<1>2. \A s \in Sig : credits[s] # <<>> => deposit'[s].asset = deposit[s].asset
  BY AssetsStay DEF BackedInv, IInv, CreditsHaveRows
<1>3. \A s \in Sig : Backed(s)'
  BY <1>2 DEF BackedInv, Backed, Worth
<1>4. ASSUME NEW a \in Account PROVE SwapsCover(a)'
  <2>1. SwapCredits(a)' = SwapCredits(a) /\ SwapsOf(a)' = SwapsOf(a)
    BY <1>1, <1>2 DEF SwapCredits, SwapsOf
  <2> QED BY <2>1 DEF BackedInv, SwapsCover
<1> QED BY <1>1, <1>3, <1>4 DEF BackedInv, SwapsPay

\* The chain grows by a transaction from outside, or by one swap of the account that
\* the poller is at.
LEMMA BackedExtends ==
  ASSUME BackedInv, IInv', NEW tx \in Tx, Extend(tx), UNCHANGED <<at, queue, hand, usdc>>,
         \/ tx.signer = 0 /\ UNCHANGED <<step, swap>>
         \/ /\ tx.signer = at /\ SwapMinOut <= tx.brings[at].usdc
            /\ \/ UNCHANGED step /\ step = "confirmSwap"
               \/ step' = "failed" /\ step = "swap" /\ UNCHANGED swap
  PROVE  BackedInv'
<1> DEFINE last == Len(chain) + 1
<1>1. /\ Len(chain) \in Nat /\ Sig' = Sig \cup {last} /\ last \notin Sig
      /\ \A s \in Sig : /\ chain'[s] = chain[s] /\ deposit'[s] = deposit[s]
                        /\ credits'[s] = credits[s]
      /\ chain'[last] = tx /\ credits'[last] = <<>>
  BY OldTransactions DEF BackedInv, IInv, Sig
<1>2. at \in Account /\ Tables /\ Tables'
  BY DEF BackedInv, IInv, Hand
<1>3. SwapsPay'
  BY <1>1, <1>2 DEF BackedInv, SwapsPay
<1>4. BackedHand'
  <2>1. /\ \A d \in queue : d.sig \in Sig
        /\ step \in Ingesting => hand.sig \in Sig
        /\ step' \in Ingesting => step \in Ingesting
        /\ step' \in {"swapping", "swap", "confirmSwap"} => step' = step
        /\ step' = "credit" => step' = step
    BY DEF BackedInv, IInv, Hand, Ingesting, Found
  <2>2. step = "credit" => step \in Ingesting
    BY DEF Ingesting
  <2> QED BY <1>1, <2>1, <2>2 DEF BackedInv, BackedHand, Worth
<1>5. \A s \in Sig' : Backed(s)'
  BY <1>1 DEF BackedInv, Backed, Worth
<1>6. ASSUME NEW a \in Account PROVE SwapsCover(a)'
  <2>1. SwapCredits(a)' = SwapCredits(a)
    BY <1>1 DEF SwapCredits
  <2>2. /\ Cardinality(SwapsOf(a)) \in Nat /\ IsFiniteSet(SwapsOf(a))
        /\ Cardinality(SwapCredits(a)) \in Nat
    BY <1>2, SwapCounts
  <2>3. CASE tx.signer = a
    <3>1. SwapsOf(a)' = SwapsOf(a) \cup {last} /\ last \notin SwapsOf(a)
      BY <1>1, <2>3 DEF SwapsOf
    <3>2. Cardinality(SwapsOf(a)') = Cardinality(SwapsOf(a)) + 1
      BY <2>2, <3>1, FS_AddElement
    <3> QED BY <2>1, <2>2, <3>2 DEF BackedInv, SwapsCover
  <2>4. CASE tx.signer # a
    <3>1. SwapsOf(a)' = SwapsOf(a)
      BY <1>1, <2>4 DEF SwapsOf
    <3>2. SwapInHand(a)' => SwapInHand(a)
      BY <2>4 DEF SwapInHand
    <3> QED BY <2>1, <3>1, <3>2 DEF BackedInv, SwapsCover
  <2> QED BY <2>3, <2>4
<1> QED BY <1>3, <1>4, <1>5, <1>6 DEF BackedInv

\* The poller leaves a deposit with empty hands.
LEMMA BackedAnew ==
  ASSUME BackedInv, IInv', RowStep, StartAddress, UNCHANGED <<chain, credits>>,
         swap' = "none"
  PROVE  BackedInv'
<1>1. BackedHand' /\ \A a \in Account : ~SwapInHand(a)'
  BY DEF BackedHand, SwapInHand, StartAddress, Ingesting
<1> QED BY <1>1, BackedStays

LEMMA BackedNext ==
  ASSUME BackedInv, IInv', RowStep, NEW d, NextDeposit(d), UNCHANGED <<chain, credits>>,
         swap' = "none"
  PROVE  BackedInv'
<1>1. BackedHand' /\ \A a \in Account : ~SwapInHand(a)'
  BY DEF BackedInv, BackedHand, SwapInHand, NextDeposit, Ingesting
<1> QED BY <1>1, BackedStays

LEMMA InDeposits ==
  ASSUME NEW a, NEW list, NEW sigs
  PROVE  \A d : d \in DepositsIn(a, list, sigs) <=>
           \E s \in sigs : \E e \in DepositsInTx(a, s) :
              d = [list |-> list, sig |-> s, asset |-> e.asset, amount |-> e.amount]
BY DEF DepositsIn

\* What a scan finds is what the transactions bring.
LEMMA BackedScan ==
  ASSUME BackedInv, IInv', RowStep, ScanATA
  PROVE  BackedInv'
<1>1. /\ UNCHANGED <<chain, credits, at>> /\ step' \in {"saveCursor", "insert"}
      /\ swap' = "none"
  BY DEF ScanATA, BackedInv, BackedHand
<1>2. ASSUME NEW d \in queue', d.asset = "USDC"
      PROVE  d.amount = chain[d.sig].brings[at].usdc
  <2>1. PICK list, sigs : d \in DepositsIn(at, list, sigs)
    BY DEF ScanATA
  <2>2. PICK s \in sigs :
        \E e \in DepositsInTx(at, s) :
          d = [list |-> list, sig |-> s, asset |-> e.asset, amount |-> e.amount]
    BY <2>1, InDeposits
  <2>3. PICK e \in DepositsInTx(at, s) :
          d = [list |-> list, sig |-> s, asset |-> e.asset, amount |-> e.amount]
    BY <2>2
  <2>4. e.asset = "USDC" => e.amount = chain[s].brings[at].usdc
    BY DEF DepositsInTx
  <2> QED BY <1>2, <2>3, <2>4
<1>3. BackedHand' /\ \A a \in Account : ~SwapInHand(a)'
  BY <1>1, <1>2 DEF BackedHand, SwapInHand, Ingesting
<1> QED BY <1>1, <1>3, BackedStays

\* A deposit of USDC is credited as it is.
LEMMA BackedInsert ==
  ASSUME BackedInv, IInv', RowStep, Insert
  PROVE  BackedInv'
<1>1. UNCHANGED <<chain, credits>> /\ swap' = "none"
  BY DEF Insert, BackedInv, BackedHand
<1>2. PICK d \in queue :
        \/ /\ deposit[d.sig] = NoRow /\ Resolve(d)
           /\ deposit' = [deposit EXCEPT ![d.sig] = DetectedRow(d)]
        \/ NextDeposit(d) \/ NextAddress
  BY DEF Insert, AfterFailure, Replies
<1>3. CASE /\ deposit[d.sig] = NoRow /\ Resolve(d)
           /\ deposit' = [deposit EXCEPT ![d.sig] = DetectedRow(d)]
  <2>1. d.asset \in {"USDC", "SOL"} /\ d.sig \in DOMAIN deposit
    BY DEF BackedInv, IInv, Hand, Found, Tables, Sig
  <2>2. deposit'[d.sig].asset = d.asset
    BY <1>3, <2>1 DEF DetectedRow
  <2>3. /\ UNCHANGED <<at, queue>> /\ hand' = d
        /\ IF d.asset = "SOL" THEN step' = "swapping"
           ELSE step' = "credit" /\ usdc' = d.amount
    BY <1>3 DEF Resolve
  <2>4. BackedHand'
    BY <1>1, <2>1, <2>2, <2>3 DEF BackedInv, BackedHand, Worth, Ingesting
  <2>5. \A a \in Account : ~SwapInHand(a)'
    BY <2>1, <2>3 DEF SwapInHand
  <2> QED BY <1>1, <2>4, <2>5, BackedStays
<1> QED BY <1>1, <1>2, <1>3, BackedNext, BackedAnew DEF NextAddress

\* The ledger is told what the deposit is worth, rounded; the swap of its SOL, if
\* any, is used up.
LEMMA BackedCredit ==
  ASSUME BackedInv, IInv', Credit
  PROVE  BackedInv'
<1>1. PICK reply \in Replies("ledger") :
        credits' = IF reply = "failed" THEN credits
                   ELSE [credits EXCEPT ![hand.sig] =
                           Append(@, [account |-> at,
                                      reais |-> microUSDCToReais(usdc)])]
  BY DEF Credit
<1>2. /\ UNCHANGED <<chain, deposit, at, queue, hand, usdc, swap>> /\ Sig' = Sig
      /\ step' \in {"credited", "failed"} /\ step = "credit" /\ swap = "none"
  BY DEF Credit, GoTo, AfterCredit, Sig, BackedInv, BackedHand
<1>3. PICK s \in Sig : s = hand.sig
  BY DEF Credit, BackedInv, IInv, Hand, Ingesting, Found
<1>4. /\ at \in Account /\ usdc \in Nat /\ credits[s] = <<>>
      /\ usdc = Worth(s, at) /\ deposit[s].asset = hand.asset
  BY <1>2, <1>3 DEF BackedInv, BackedHand, IInv, Hand, Ingesting
<1>5. PICK line \in Line : line = [account |-> at, reais |-> microUSDCToReais(usdc)]
  BY <1>4, Rounding DEF Line
<1>6. line.reais * Unit <= Worth(s, line.account) * Rate + Unit \div 2
  BY <1>4, <1>5, Rounding
<1>7. /\ \A t \in Sig \ {s} : credits'[t] = credits[t]
      /\ credits'[s] = <<>> \/ credits'[s] = <<line>>
  <2>1. s \in DOMAIN credits /\ Append(credits[s], line) = <<line>>
    BY <1>4 DEF BackedInv, IInv, Tables, Sig
  <2> QED BY <1>1, <1>3, <1>4, <1>5, <2>1
<1>8. \A t \in Sig : Backed(t)'
  <2>1. \A t \in Sig : \A a : Worth(t, a)' = Worth(t, a)
    BY <1>2 DEF Worth
  <2> QED BY <1>2, <1>6, <1>7, <2>1 DEF BackedInv, Backed
<1>9. BackedHand'
  BY <1>2 DEF BackedInv, BackedHand, Ingesting
<1>10. ASSUME NEW a \in Account PROVE SwapsCover(a)'
  <2>1. SwapsOf(a)' = SwapsOf(a) /\ ~SwapInHand(a)'
    BY <1>2 DEF SwapsOf, SwapInHand
  <2>2. /\ IsFiniteSet(SwapCredits(a)) /\ Cardinality(SwapCredits(a)) \in Nat
        /\ Cardinality(SwapsOf(a)) \in Nat
    BY SwapCounts DEF BackedInv, IInv
  <2>3. CASE a = at /\ hand.asset # "USDC"
    <3>1. Cardinality(SwapCredits(a)) < Cardinality(SwapsOf(a))
      BY <1>2, <2>3 DEF BackedInv, SwapsCover, SwapInHand
    <3>2. SwapCredits(a)' = SwapCredits(a) \/ SwapCredits(a)' = SwapCredits(a) \cup {s}
      BY <1>2, <1>4, <1>7 DEF SwapCredits
    <3>3. s \notin SwapCredits(a)
      BY <1>4 DEF SwapCredits
    <3>4. Cardinality(SwapCredits(a) \cup {s}) = Cardinality(SwapCredits(a)) + 1
      BY <2>2, <3>3, FS_AddElement
    <3>5. \/ Cardinality(SwapCredits(a)') = Cardinality(SwapCredits(a))
          \/ Cardinality(SwapCredits(a)') = Cardinality(SwapCredits(a)) + 1
      BY <3>2, <3>4, Zenon
    <3>6. Cardinality(SwapCredits(a)') <= Cardinality(SwapsOf(a))
      BY <2>2, <3>1, <3>5
    <3> QED BY <2>1, <3>6 DEF SwapsCover
  <2>4. CASE a # at \/ hand.asset = "USDC"
    <3>1. <<line>>[1].account = at
      BY <1>5
    <3>2. SwapCredits(a)' = SwapCredits(a)
      BY <1>2, <1>4, <1>7, <2>4, <3>1 DEF SwapCredits
    <3> QED BY <2>1, <3>2 DEF BackedInv, SwapsCover
  <2> QED BY <2>3, <2>4
<1> QED BY <1>2, <1>8, <1>9, <1>10 DEF BackedInv, SwapsPay

\* The swap that the poller waits for lands, or fails, and is credited at the minimum
\* that was quoted.
LEMMA BackedSwap ==
  ASSUME BackedInv, IInv', RowStep, MarkSwapping \/ Swap \/ ConfirmSwap \/ ChainDecides
  PROVE  BackedInv'
<1>1. CASE \E r \in SwapReceipts :
             /\ Extend(SwapTx(at, r)) /\ UNCHANGED <<at, queue, hand, usdc>>
             /\ \/ UNCHANGED step /\ step = "confirmSwap"
                \/ step' = "failed" /\ step = "swap" /\ UNCHANGED swap
  <2>1. PICK r \in SwapReceipts :
             /\ Extend(SwapTx(at, r)) /\ UNCHANGED <<at, queue, hand, usdc>>
             /\ \/ UNCHANGED step /\ step = "confirmSwap"
                \/ step' = "failed" /\ step = "swap" /\ UNCHANGED swap
    BY <1>1
  <2>2. PICK tx : tx = SwapTx(at, r)
    OBVIOUS
  <2>3. at \in Account
    BY DEF BackedInv, IInv, Hand
  <2>4. tx \in Tx
    BY <2>2, <2>3, SwapTxIsTx
  <2>5. tx.signer = at /\ tx.brings[at].usdc = r
    BY <2>2, <2>3 DEF SwapTx
  <2>6. SwapMinOut <= tx.brings[at].usdc
    BY <2>5, TransferAssumption
  <2>7. Extend(tx)
    BY <2>1, <2>2 DEF Extend
  <2> QED BY <2>1, <2>4, <2>5, <2>6, <2>7, BackedExtends
<1>2. CASE /\ UNCHANGED <<chain, deposit, credits, at, queue, hand, usdc>>
           /\ \/ step = "swap" /\ step' = "confirmSwap" /\ swap' = "pending"
              \/ step = "swap" /\ step' = "failed" /\ UNCHANGED swap
              \/ step = "confirmSwap" /\ UNCHANGED step /\ swap' \in {"rejected", "dropped"}
  <2>1. BackedHand' /\ \A a \in Account : ~SwapInHand(a)'
    BY <1>2 DEF BackedInv, BackedHand, SwapInHand, Worth, Ingesting
  <2> QED BY <1>2, <2>1, BackedStays
<1>3. CASE MarkSwapping
  <2>1. /\ UNCHANGED <<chain, credits, at, queue, hand, usdc, swap>>
        /\ step = "swapping" /\ step' \in {"swap", "failed"}
    BY <1>3 DEF MarkSwapping, GoTo
  <2>2. deposit'[hand.sig].asset = deposit[hand.sig].asset
    <3>1. hand.sig \in Sig /\ deposit[hand.sig] # NoRow
      BY <2>1, RowAssumption DEF BackedInv, IInv, Hand, Ingesting, Found
    <3> QED BY <3>1, AssetsStay
  <2>3. BackedHand' /\ \A a \in Account : ~SwapInHand(a)'
    BY <2>1, <2>2 DEF BackedInv, BackedHand, SwapInHand, Worth, Ingesting
  <2> QED BY <2>1, <2>3, BackedStays
<1>4. CASE ConfirmSwap
  <2>1. /\ UNCHANGED <<chain, deposit, credits, at, queue, hand>>
        /\ step = "confirmSwap" /\ swap' = "none"
        /\ \/ swap = "landed" /\ step' = "credit" /\ usdc' = SwapMinOut
           \/ step' = "failed"
    BY <1>4 DEF ConfirmSwap, GoTo
  <2>2. BackedHand' /\ \A a \in Account : SwapInHand(a)' => SwapInHand(a)
    BY <2>1 DEF BackedInv, BackedHand, SwapInHand, Worth, Ingesting
  <2> QED BY <2>1, <2>2, BackedStays
<1>5. CASE Swap
  BY <1>1, <1>2, <1>5 DEF Swap, GoTo
<1>6. CASE ChainDecides
  <2>1. step = "confirmSwap"
    BY <1>6 DEF ChainDecides, BackedInv, BackedHand
  <2> QED BY <1>1, <1>2, <1>6, <2>1 DEF ChainDecides, pollVars
<1> QED BY <1>3, <1>4, <1>5, <1>6

LEMMA BackedTransfer ==
  ASSUME BackedInv, IInv', NEW brings \in Transfers, Transfer(brings)
  PROVE  BackedInv'
<1>1. PICK tx : tx = [brings |-> brings, signer |-> 0]
  OBVIOUS
<1>2. tx \in Tx /\ tx.signer = 0
  BY <1>1, TransferAssumption, CountAssumption DEF Tx
<1>3. Extend(tx) /\ UNCHANGED <<at, queue, hand, usdc, step, swap>>
  BY <1>1 DEF Transfer, pollVars
<1> QED BY <1>2, <1>3, BackedExtends

LEMMA BackedStep == BackedInv /\ [Next]_vars => BackedInv'
<1> SUFFICES ASSUME BackedInv, [Next]_vars PROVE BackedInv'
  OBVIOUS
<1>1. IInv' /\ (RowStep \/ UNCHANGED vars)
  BY IInvStep DEF BackedInv
<1>2. CASE UNCHANGED vars
  <2>1. RowStep
    BY <1>2 DEF vars, RowStep
  <2>2. BackedHand' /\ \A a \in Account : SwapInHand(a)' => SwapInHand(a)
    BY <1>2 DEF vars, BackedInv, BackedHand, SwapInHand, Worth
  <2> QED BY <1>1, <1>2, <2>1, <2>2, BackedStays DEF vars
<1>3. RowStep
  BY <1>1, <1>2 DEF vars, RowStep
<1>4. CASE GiveUp \/ SaveCursor \/ Crash \/ MarkFailed
  <2>1. swap' = "none" /\ StartAddress /\ UNCHANGED <<chain, credits>>
    BY <1>4 DEF GiveUp, SaveCursor, Crash, MarkFailed, AfterFailure, NextAddress,
                BackedInv, BackedHand
  <2> QED BY <1>1, <1>3, <2>1, BackedAnew
<1>5. CASE ScanBase
  <2>1. BackedHand' /\ \A a \in Account : ~SwapInHand(a)'
    BY <1>5 DEF ScanBase, BackedInv, BackedHand, SwapInHand, Ingesting
  <2> QED BY <1>1, <1>3, <1>5, <2>1, BackedStays DEF ScanBase
<1>6. CASE MarkCredited
  <2>1. UNCHANGED <<chain, credits>> /\ swap' = "none"
    BY <1>6 DEF MarkCredited, BackedInv, BackedHand
  <2>2. PICK d : d = hand
    OBVIOUS
  <2>3. NextDeposit(d) \/ NextAddress
    BY <1>6, <2>2 DEF MarkCredited, AfterFailure
  <2> QED BY <1>1, <1>3, <2>1, <2>3, BackedNext, BackedAnew DEF NextAddress
<1> QED BY <1>1, <1>2, <1>3, <1>4, <1>5, <1>6, BackedTransfer, BackedScan, BackedInsert,
           BackedCredit, BackedSwap
        DEF Next, Poll

\* A bound that holds of every line of a sum, in whole units and rounded, holds of
\* the sums.
LEMMA RoundedSums ==
  ASSUME NEW f, NEW g, NEW k, NEW S, IsFiniteSet(S),
         NEW u \in Int, NEW r \in Int, NEW h \in Int,
         \A x \in S : /\ f[x] \in Int /\ g[x] \in Int /\ k[x] \in Int
                     /\ f[x] * u <= g[x] * r + k[x] * h
  PROVE  SumFunctionOnSet(f, S) * u <=
           SumFunctionOnSet(g, S) * r + SumFunctionOnSet(k, S) * h
<1>1. PICK zero : zero = [x \in S |-> 0]
  OBVIOUS
<1>2. PICK left : left = [x \in S |-> u * f[x]]
  OBVIOUS
<1>3. PICK part : part = [x \in S |-> h * k[x]]
  OBVIOUS
<1>4. PICK right : right = [x \in S |-> r * g[x] + part[x]]
  OBVIOUS
<1>5. ASSUME NEW x \in S
      PROVE  /\ zero[x] = 0 /\ zero[x] \in Int
             /\ left[x] \in Int /\ left[x] = u * f[x] + zero[x]
             /\ part[x] \in Int /\ part[x] = h * k[x] + zero[x]
             /\ right[x] \in Int /\ right[x] = r * g[x] + part[x]
             /\ left[x] <= right[x]
  <2>1. PICK a \in Int, b \in Int, c \in Int : a = f[x] /\ b = g[x] /\ c = k[x]
    OBVIOUS
  <2>2. a * u <= b * r + c * h
    BY <2>1
  <2>3. zero[x] = 0 /\ left[x] = u * a /\ part[x] = h * c /\ right[x] = r * b + h * c
    BY <1>1, <1>2, <1>3, <1>4, <2>1
  <2> QED BY <2>1, <2>2, <2>3
<1>6. SumFunctionOnSet(zero, S) = 0
  <2>1. SumFunctionOnSet(zero, S) = 0 * Cardinality(S) /\ Cardinality(S) \in Nat
    BY <1>5, SumConstant, FS_CardinalityType
  <2> QED BY <2>1
<1>7. PICK F \in Int, G \in Int, K \in Int :
        /\ F = SumFunctionOnSet(f, S) /\ G = SumFunctionOnSet(g, S)
        /\ K = SumFunctionOnSet(k, S)
  BY SumInt
<1>8. SumFunctionOnSet(left, S) = u * SumFunctionOnSet(f, S) + SumFunctionOnSet(zero, S)
  BY <1>5, SumLinear
<1>9. SumFunctionOnSet(part, S) = h * SumFunctionOnSet(k, S) + SumFunctionOnSet(zero, S)
  BY <1>5, SumLinear
<1>10. SumFunctionOnSet(right, S) =
         r * SumFunctionOnSet(g, S) + SumFunctionOnSet(part, S)
  BY <1>5, SumLinear
<1>11. SumFunctionOnSet(left, S) <= SumFunctionOnSet(right, S)
  BY <1>5, SumMonotonic
<1>12. u * F <= r * G + h * K
  BY <1>6, <1>7, <1>8, <1>9, <1>10, <1>11
<1> QED BY <1>7, <1>12

\* The lines of a signature that has one credit, for an account or not.
LEMMA LinesOfOne ==
  ASSUME Tables, NEW s \in Sig, NEW a \in Account, Backed(s)
  PROVE  /\ ReaisIn(a, s) \in Int /\ Cardinality(LinesOf(a, s)) \in Int
         /\ ReaisIn(a, s) * Unit <=
              (chain[s].brings[a].usdc + (IF s \in SwapCredits(a) THEN SwapMinOut ELSE 0)) * Rate
                + Cardinality(LinesOf(a, s)) * (Unit \div 2)
<1> DEFINE worth == chain[s].brings[a].usdc + (IF s \in SwapCredits(a) THEN SwapMinOut ELSE 0)
<1>1. worth \in Nat /\ Unit \in Nat /\ Rate \in Nat /\ Unit \div 2 \in Nat
  BY BringsType, CountAssumption, TransferAssumption
<1>2. PICK got \in Nat, half \in Nat : got = worth /\ half = Unit \div 2
  BY <1>1
<1>3. got * Rate \in Nat
  BY <1>1
<1>4. CASE LinesOf(a, s) = {}
  <2>1. ReaisIn(a, s) = 0 /\ Cardinality(LinesOf(a, s)) = 0
    BY <1>4, SumEmpty, FS_EmptySet DEF ReaisIn
  <2> QED BY <1>1, <1>2, <1>3, <2>1
<1>5. CASE LinesOf(a, s) # {}
  <2>1. PICK line \in Line :
          /\ credits[s] = <<line>>
          /\ line.reais * Unit <= Worth(s, line.account) * Rate + Unit \div 2
    BY <1>5 DEF Backed, LinesOf
  <2>2. LinesOf(a, s) = {1} /\ line.account = a /\ line.reais \in Nat
    BY <1>5, <2>1 DEF LinesOf, Line
  <2>3. PICK f : f = [i \in DOMAIN credits[s] |-> credits[s][i].reais]
    OBVIOUS
  <2>4. f[1] = line.reais
    BY <2>1, <2>3
  <2>5. IsFiniteSet({1}) /\ Cardinality({1}) = 1
    BY FS_Singleton
  <2>6. SumFunctionOnSet(f, {1}) = line.reais
    <3>1. SumFunctionOnSet(f, {1}) = line.reais * Cardinality({1})
      BY <2>2, <2>4, <2>5, SumConstant
    <3> QED BY <2>2, <2>5, <3>1
  <2>7. ReaisIn(a, s) = line.reais /\ Cardinality(LinesOf(a, s)) = 1
    <3>1. ReaisIn(a, s) = SumFunctionOnSet(f, {1})
      BY <2>2, <2>3 DEF ReaisIn
    <3>2. Cardinality(LinesOf(a, s)) = Cardinality({1})
      BY <2>2, Zenon
    <3> QED BY <2>5, <2>6, <3>1, <3>2
  <2>8. PICK w \in Nat : w = Worth(s, a) /\ w <= got
    <3>1. PICK u \in Nat, min \in Nat : u = chain[s].brings[a].usdc /\ min = SwapMinOut
      BY BringsType, TransferAssumption
    <3>2. CASE deposit[s].asset = "USDC"
      <4>1. Worth(s, a) = u /\ u <= got
        BY <1>2, <3>1, <3>2 DEF Worth
      <4> QED BY <4>1
    <3>3. CASE deposit[s].asset # "USDC"
      <4>1. credits[s] # <<>> /\ credits[s][1].account = a
        BY <2>1, <2>2
      <4>2. s \in SwapCredits(a)
        BY <3>3, <4>1 DEF SwapCredits
      <4>3. Worth(s, a) = min /\ min <= got
        BY <1>2, <3>1, <3>3, <4>2 DEF Worth
      <4> QED BY <4>3
    <3> QED BY <3>2, <3>3
  <2>9. line.reais * Unit <= w * Rate + half
    BY <1>2, <2>1, <2>2, <2>8
  <2>10. w * Rate <= got * Rate /\ w * Rate \in Nat
    BY <1>1, <2>8
  <2>11. line.reais * Unit \in Nat
    BY <1>1, <2>2
  <2>12. line.reais * Unit <= got * Rate + half
    BY <1>3, <2>9, <2>10, <2>11
  <2> QED BY <1>2, <1>3, <2>2, <2>7, <2>12
<1> QED BY <1>4, <1>5

\* The swaps of an account brought at least the minimum for each of its credits for
\* SOL.
LEMMA SwapsPaid ==
  ASSUME BackedInv, NEW a \in Account, NEW h,
         \A s \in Sig : h[s] = IF s \in SwapCredits(a) THEN SwapMinOut ELSE 0
  PROVE  SumFunctionOnSet(h, Sig) <= SwappedFor(a)
<1>1. /\ IsFiniteSet(SwapsOf(a)) /\ IsFiniteSet(SwapCredits(a))
      /\ Cardinality(SwapsOf(a)) \in Nat /\ Cardinality(SwapCredits(a)) \in Nat
      /\ Cardinality(SwapCredits(a)) <= Cardinality(SwapsOf(a))
  BY SwapCounts DEF BackedInv, IInv, SwapsCover
<1>2. PICK C : C = SwapCredits(a)
  OBVIOUS
<1>3. PICK R : R = Sig \ C
  OBVIOUS
<1>4. IsFiniteSet(Sig) /\ IsFiniteSet(R) /\ IsFiniteSet(C) /\ C \cap R = {} /\ C \cup R = Sig
  <2>1. Len(chain) \in Nat
    BY DEF BackedInv, IInv, Tables
  <2>2. IsFiniteSet(Sig)
    BY <2>1, FS_Interval DEF Sig
  <2> QED BY <1>1, <1>2, <1>3, <2>2, FS_Subset DEF SwapCredits
<1>5. PICK min \in Nat : min = SwapMinOut
  BY TransferAssumption
<1>6. SumFunctionOnSet(h, Sig) = SumFunctionOnSet(h, C) + SumFunctionOnSet(h, R)
  <2>1. \A s \in C \cup R : h[s] \in Int
    BY <1>4, <1>5
  <2>2. SumFunctionOnSet(h, C \cup R) = SumFunctionOnSet(h, C) + SumFunctionOnSet(h, R)
    BY <1>4, <2>1, SumUnion
  <2> QED BY <1>4, <2>2
<1>7. SumFunctionOnSet(h, C) = min * Cardinality(C)
  BY <1>2, <1>4, <1>5, SumConstant
<1>8. SumFunctionOnSet(h, R) = 0
  <2>1. \A s \in R : h[s] = 0
    BY <1>2, <1>3
  <2>2. SumFunctionOnSet(h, R) = 0 * Cardinality(R) /\ Cardinality(R) \in Nat
    BY <1>4, <2>1, SumConstant, FS_CardinalityType
  <2> QED BY <2>2
<1>9. min * Cardinality(SwapsOf(a)) <= SwappedFor(a)
  <2>1. PICK g : g = [s \in Sig |-> chain[s].brings[a].usdc]
    OBVIOUS
  <2>2. PICK k : k = [s \in Sig |-> min]
    OBVIOUS
  <2>3. ASSUME NEW s \in SwapsOf(a)
        PROVE  k[s] = min /\ k[s] \in Int /\ g[s] \in Int /\ k[s] <= g[s]
    <3>1. s \in Sig /\ chain[s].signer = a /\ a # 0
      BY CountAssumption DEF SwapsOf, Account
    <3>2. SwapMinOut <= chain[s].brings[a].usdc
      BY <3>1 DEF BackedInv, SwapsPay
    <3>3. chain[s].brings[a].usdc \in Nat
      BY <3>1, BringsType DEF BackedInv, IInv
    <3> QED BY <1>5, <2>1, <2>2, <3>1, <3>2, <3>3
  <2>4. SumFunctionOnSet(k, SwapsOf(a)) = min * Cardinality(SwapsOf(a))
    BY <1>1, <2>3, SumConstant
  <2>5. SumFunctionOnSet(k, SwapsOf(a)) <= SumFunctionOnSet(g, SwapsOf(a))
    BY <1>1, <2>3, SumMonotonic
  <2> QED BY <2>1, <2>4, <2>5 DEF SwappedFor
<1>10. min * Cardinality(C) <= min * Cardinality(SwapsOf(a))
  BY <1>1, <1>2
<1>11. SwappedFor(a) \in Int
  <2>1. PICK g : g = [s \in Sig |-> chain[s].brings[a].usdc]
    OBVIOUS
  <2>2. \A s \in SwapsOf(a) : g[s] \in Int
    BY <2>1, BringsType DEF SwapsOf, BackedInv, IInv
  <2> QED BY <1>1, <2>1, <2>2, SumInt DEF SwappedFor
<1>12. min * Cardinality(C) \in Nat /\ min * Cardinality(SwapsOf(a)) \in Nat
  BY <1>1, <1>2
<1> QED BY <1>6, <1>7, <1>8, <1>9, <1>10, <1>11, <1>12

LEMMA NothingInvented == BackedInv => NeverInventsUSDC
<1> SUFFICES ASSUME BackedInv, NEW a \in Account
             PROVE  ReaisOf(a) * Unit <=
                      (Received(a) + SwappedFor(a)) * Rate + CreditsOf(a) * (Unit \div 2)
  BY DEF NeverInventsUSDC
<1>1. IsFiniteSet(Sig) /\ Tables
  <2>1. Len(chain) \in Nat
    BY DEF BackedInv, IInv, Tables
  <2> QED BY <2>1, FS_Interval DEF BackedInv, IInv, Sig
<1>2. PICK f : f = [s \in Sig |-> ReaisIn(a, s)]
  OBVIOUS
<1>3. PICK g : g = [s \in Sig |-> chain[s].brings[a].usdc]
  OBVIOUS
<1>4. PICK h : h = [s \in Sig |-> IF s \in SwapCredits(a) THEN SwapMinOut ELSE 0]
  OBVIOUS
<1>5. PICK one \in Int : one = 1
  OBVIOUS
<1>6. PICK w : w = [s \in Sig |-> one * g[s] + h[s]]
  OBVIOUS
<1>7. PICK k : k = [s \in Sig |-> Cardinality(LinesOf(a, s))]
  OBVIOUS
<1>8. PICK half \in Int : half = Unit \div 2
  BY CountAssumption
<1>9. Unit \in Int /\ Rate \in Nat
  BY CountAssumption
<1>10. ASSUME NEW s \in Sig
      PROVE  /\ f[s] \in Int /\ g[s] \in Int /\ h[s] \in Int /\ w[s] \in Int /\ k[s] \in Int
             /\ w[s] = one * g[s] + h[s]
             /\ f[s] * Unit <= w[s] * Rate + k[s] * half
  <2>1. PICK b : b = IF s \in SwapCredits(a) THEN SwapMinOut ELSE 0
    OBVIOUS
  <2>2. /\ ReaisIn(a, s) \in Int /\ Cardinality(LinesOf(a, s)) \in Int
        /\ ReaisIn(a, s) * Unit <=
             (chain[s].brings[a].usdc + b) * Rate + Cardinality(LinesOf(a, s)) * half
    BY <1>1, <1>8, <2>1, LinesOfOne DEF BackedInv
  <2>3. chain[s].brings[a].usdc \in Nat /\ b \in Nat
    BY <1>1, <2>1, BringsType, TransferAssumption
  <2>4. /\ f[s] = ReaisIn(a, s) /\ g[s] = chain[s].brings[a].usdc /\ h[s] = b
        /\ w[s] = one * g[s] + h[s] /\ k[s] = Cardinality(LinesOf(a, s))
    BY <1>2, <1>3, <1>4, <1>6, <1>7, <2>1
  <2>5. w[s] = chain[s].brings[a].usdc + b
    BY <1>5, <2>3, <2>4
  <2> QED BY <2>2, <2>3, <2>4, <2>5
<1>11. \A s \in Sig : /\ f[s] \in Int /\ w[s] \in Int /\ k[s] \in Int
                      /\ f[s] * Unit <= w[s] * Rate + k[s] * half
  BY ONLY <1>10
<1>12. \A s \in Sig : g[s] \in Int /\ h[s] \in Int /\ w[s] = one * g[s] + h[s]
  BY ONLY <1>10
<1>13. Unit \in Int /\ Rate \in Int /\ half \in Int
  BY ONLY <1>8, <1>9
<1>14. SumFunctionOnSet(f, Sig) * Unit <=
         SumFunctionOnSet(w, Sig) * Rate + SumFunctionOnSet(k, Sig) * half
  BY ONLY <1>1, <1>11, <1>13, RoundedSums
<1>15. SumFunctionOnSet(w, Sig) = one * SumFunctionOnSet(g, Sig) + SumFunctionOnSet(h, Sig)
  BY ONLY <1>5, <1>1, <1>12, SumLinear
<1>16. SumFunctionOnSet(h, Sig) <= SwappedFor(a)
  BY <1>4, SwapsPaid
<1>17. /\ SumFunctionOnSet(f, Sig) \in Int /\ SumFunctionOnSet(g, Sig) \in Int
       /\ SumFunctionOnSet(h, Sig) \in Int /\ SumFunctionOnSet(k, Sig) \in Int
  BY ONLY <1>1, <1>10, SumInt
<1>18. SwappedFor(a) \in Int
  <2>1. IsFiniteSet(SwapsOf(a)) /\ SwapsOf(a) \subseteq Sig
    BY <1>1, SwapCounts DEF SwapsOf
  <2>2. \A s \in SwapsOf(a) : g[s] \in Int
    BY <1>10, <2>1
  <2> QED BY <1>3, <2>1, <2>2, SumInt DEF SwappedFor
<1>19. PICK F \in Int, G \in Int, H \in Int, K \in Int, S \in Int :
         /\ F = SumFunctionOnSet(f, Sig) /\ G = SumFunctionOnSet(g, Sig)
         /\ H = SumFunctionOnSet(h, Sig) /\ K = SumFunctionOnSet(k, Sig)
         /\ S = SwappedFor(a)
  BY <1>17, <1>18
<1>20. F * Unit <= (G + H) * Rate + K * half /\ H <= S
  BY <1>5, <1>14, <1>15, <1>16, <1>19
<1>21. (G + H) * Rate <= (G + S) * Rate
  BY <1>9, <1>20
<1>22. F * Unit <= (G + S) * Rate + K * half
  <2>1. PICK x \in Int, y \in Int, z \in Int, t \in Int :
          x = F * Unit /\ y = (G + H) * Rate /\ z = (G + S) * Rate /\ t = K * half
    BY <1>9
  <2>2. x <= y + t /\ y <= z
    BY <1>20, <1>21, <2>1
  <2> QED BY <2>1, <2>2
<1> QED BY <1>2, <1>3, <1>7, <1>8, <1>19, <1>22 DEF ReaisOf, Received, CreditsOf

\* An account is not credited with more than the USDC that its token account has
\* received, but for the rounding of each credit and for one more count of what its
\* own swaps brought: for any number of accounts and transactions, whatever they
\* bring, and under every fault.
THEOREM USDCNeverInvented == Spec => []NeverInventsUSDC
<1>1. Init => BackedInv
  <2> SUFFICES ASSUME Init PROVE BackedInv
    OBVIOUS
  <2>1. Sig = {} /\ IInv
    BY IInvInit DEF Init, Sig
  <2>2. BackedHand /\ SwapsPay /\ \A s \in Sig : Backed(s)
    BY <2>1 DEF Init, BackedHand, SwapsPay, Ingesting
  <2>3. ASSUME NEW a \in Account PROVE SwapsCover(a)
    <3>1. SwapsOf(a) = {} /\ SwapCredits(a) = {} /\ ~SwapInHand(a)
      BY <2>1 DEF SwapsOf, SwapCredits, SwapInHand, Init
    <3> QED BY <3>1, FS_EmptySet DEF SwapsCover
  <2> QED BY <2>1, <2>2, <2>3 DEF BackedInv
<1>2. BackedInv /\ [Next]_vars => BackedInv'
  BY BackedStep
<1> QED BY <1>1, <1>2, NothingInvented, PTL DEF Spec

-----------------------------------------------------------------------------
(* What the cursor waits for *)

\* What a scan has returned has its row, or is still in the queue.
Passing ==
  /\ step \in Ingesting \cup {"insert", "saveCursor"} =>
       \A s \in seen : DepositsInTx(at, s) # {} =>
         deposit[s] # NoRow \/ \E d \in queue : d.sig = s
  /\ step = "saveCursor" => queue = {}

PassingInv == IInv /\ Passing

\* Transactions and rows that are there stay there.
RowsStay ==
  \A s \in Sig : chain'[s] = chain[s] /\ (deposit[s] # NoRow => deposit'[s] # NoRow)

\* The poller is with a deposit, and nothing leaves its queue.
LEMMA PassingStays ==
  ASSUME PassingInv, RowsStay, UNCHANGED <<at, seen, queue>>,
         step \in Ingesting \cup {"insert", "saveCursor"} \/ step' = step,
         step' = "saveCursor" => step = "saveCursor"
  PROVE  Passing'
<1>1. \A s \in seen : DepositsInTx(at, s)' = DepositsInTx(at, s)
  BY DEF RowsStay, PassingInv, IInv, Hand, DepositsInTx
<1>2. seen \subseteq Sig
  BY DEF PassingInv, IInv, Hand
<1> QED BY <1>1, <1>2 DEF PassingInv, Passing, RowsStay

\* A deposit leaves the queue when it has its row.
LEMMA PassingNext ==
  ASSUME PassingInv, RowsStay, NEW d, NextDeposit(d), deposit[d.sig] # NoRow, d.sig \in Sig,
         step \in Ingesting \cup {"insert"}
  PROVE  Passing'
<1>1. \A s \in seen : DepositsInTx(at, s)' = DepositsInTx(at, s)
  BY DEF RowsStay, PassingInv, IInv, Hand, DepositsInTx, NextDeposit
<1>2. seen \subseteq Sig
  BY DEF PassingInv, IInv, Hand
<1>3. /\ UNCHANGED <<at, seen>> /\ queue' = queue \ {d}
      /\ step' = "saveCursor" => queue' = {}
  BY DEF NextDeposit
<1> QED BY <1>1, <1>2, <1>3 DEF PassingInv, Passing, RowsStay

LEMMA PassingAnew == StartAddress => Passing'
BY DEF StartAddress, Passing, Ingesting

\* What a scan returns is in the queue, if it has brought anything.
LEMMA PassingScan ==
  ASSUME PassingInv, ScanATA
  PROVE  Passing'
<1>1. /\ UNCHANGED <<chain, deposit, at>>
      /\ step' = "saveCursor" => queue' = {}
  BY DEF ScanATA
<1>2. PICK ataSigs :
        /\ queue' = DepositsIn(at, "base", seen) \cup DepositsIn(at, "ATA", ataSigs \ seen)
        /\ seen' = seen \cup ataSigs
  BY DEF ScanATA
<1>3. ASSUME NEW s \in seen', DepositsInTx(at, s) # {}
      PROVE  \E d \in queue' : d.sig = s
  <2>1. PICK e \in DepositsInTx(at, s) : TRUE
    BY <1>3
  <2>2. PICK list, sigs : s \in sigs /\ DepositsIn(at, list, sigs) \subseteq queue'
    BY <1>2, <1>3
  <2>3. PICK d : d = [list |-> list, sig |-> s, asset |-> e.asset, amount |-> e.amount]
    OBVIOUS
  <2>4. d \in DepositsIn(at, list, sigs)
    BY <2>1, <2>2, <2>3, InDeposits
  <2> QED BY <2>2, <2>3, <2>4
<1>4. ASSUME NEW s PROVE DepositsInTx(at, s)' = DepositsInTx(at, s)
  BY <1>1 DEF DepositsInTx
<1> QED BY <1>1, <1>3, <1>4 DEF Passing

LEMMA PassingInsert ==
  ASSUME PassingInv, Insert
  PROVE  Passing'
<1>1. PICK d \in queue :
        \/ /\ deposit[d.sig] = NoRow /\ Resolve(d)
           /\ deposit' = [deposit EXCEPT ![d.sig] = DetectedRow(d)]
        \/ deposit[d.sig] # NoRow /\ UNCHANGED deposit /\ NextDeposit(d)
        \/ NextAddress
  BY DEF Insert, AfterFailure, Replies
<1>2. /\ UNCHANGED chain /\ step = "insert" /\ d.sig \in Sig
      /\ d.sig \in DOMAIN deposit
  BY DEF Insert, PassingInv, IInv, Hand, Found, Tables, Sig
<1>3. CASE /\ deposit[d.sig] = NoRow /\ Resolve(d)
           /\ deposit' = [deposit EXCEPT ![d.sig] = DetectedRow(d)]
  <2>1. \A s \in Sig : deposit[s] # NoRow => deposit'[s] = deposit[s]
    BY <1>3
  <2>2. RowsStay
    BY <1>2, <2>1 DEF RowsStay
  <2>3. UNCHANGED <<at, seen, queue>> /\ step' \in {"swapping", "credit"}
    BY <1>3 DEF Resolve
  <2> QED BY <1>2, <2>2, <2>3, PassingStays
<1>4. CASE deposit[d.sig] # NoRow /\ UNCHANGED deposit /\ NextDeposit(d)
  <2>1. RowsStay
    BY <1>2, <1>4 DEF RowsStay
  <2> QED BY <1>2, <1>4, <2>1, PassingNext
<1> QED BY <1>1, <1>3, <1>4, PassingAnew DEF NextAddress

\* The steps that ingest the deposit at hand keep its row.
LEMMA PassingIngest ==
  ASSUME PassingInv, MarkSwapping \/ Credit \/ MarkCredited
  PROVE  Passing'
<1>1. /\ hand.sig \in Sig /\ deposit[hand.sig] \in DepositRow
      /\ hand.sig \in DOMAIN deposit /\ UNCHANGED chain
  BY DEF MarkSwapping, Credit, MarkCredited, PassingInv, IInv, Hand, Ingesting, Found, Tables, Sig
<1>2. deposit[hand.sig] # NoRow
  BY <1>1, RowAssumption
<1>3. ASSUME NEW row \in DepositRow, deposit' = [deposit EXCEPT ![hand.sig] = row]
      PROVE  RowsStay
  BY <1>1, <1>3, RowAssumption DEF RowsStay
<1>4. CASE UNCHANGED deposit
  <2>1. RowsStay
    BY <1>1, <1>4 DEF RowsStay
  <2>2. CASE MarkSwapping \/ Credit
    <3>1. /\ UNCHANGED <<at, seen, queue>> /\ step \in Ingesting
          /\ step' \in {"swap", "credited", "failed"}
      BY <2>2 DEF MarkSwapping, Credit, GoTo, AfterCredit, Ingesting
    <3> QED BY <2>1, <3>1, PassingStays
  <2>3. CASE MarkCredited
    <3>1. PICK d : d = hand
      OBVIOUS
    <3>2. NextDeposit(d) \/ NextAddress
      BY <2>3, <3>1 DEF MarkCredited, AfterFailure
    <3> QED BY <1>1, <1>2, <2>1, <2>3, <3>1, <3>2, PassingNext, PassingAnew
          DEF NextAddress, MarkCredited, Ingesting
  <2> QED BY <2>2, <2>3
<1>5. CASE MarkSwapping /\ ~UNCHANGED deposit
  <2>1. PICK row : row = [deposit[hand.sig] EXCEPT !.status = "SWAPPING"]
    OBVIOUS
  <2>2. row \in DepositRow
    BY <1>1, <2>1 DEF DepositRow, DepositStatus
  <2>3. deposit' = [deposit EXCEPT ![hand.sig] = row]
    BY <1>5, <2>1 DEF MarkSwapping, SetStatus
  <2>4. RowsStay
    BY <1>3, <2>2, <2>3
  <2>5. /\ UNCHANGED <<at, seen, queue>> /\ step \in Ingesting
        /\ step' \in {"swap", "failed"}
    BY <1>5 DEF MarkSwapping, GoTo, Ingesting
  <2> QED BY <2>4, <2>5, PassingStays
<1>6. CASE MarkCredited /\ ~UNCHANGED deposit
  <2>1. PICK r \in Nat : r = microUSDCToReais(usdc)
    BY Rounding DEF PassingInv, IInv, Hand
  <2>2. PICK row : row = [[deposit[hand.sig] EXCEPT !.status = "CREDITED"] EXCEPT !.reais = r]
    OBVIOUS
  <2>3. row \in DepositRow
    BY <1>1, <2>2 DEF DepositRow, DepositStatus
  <2>4. deposit' = [deposit EXCEPT ![hand.sig] = row]
    BY <1>1, <1>6, <2>1, <2>2 DEF MarkCredited
  <2>5. RowsStay
    BY <1>3, <2>3, <2>4
  <2>6. PICK d : d = hand
    OBVIOUS
  <2>7. NextDeposit(d) \/ NextAddress
    BY <1>6, <2>6 DEF MarkCredited, AfterFailure
  <2> QED BY <1>1, <1>2, <1>6, <2>5, <2>6, <2>7, PassingNext, PassingAnew
        DEF NextAddress, MarkCredited, Ingesting
<1>7. CASE Credit
  BY <1>4, <1>7 DEF Credit
<1> QED BY <1>4, <1>5, <1>6, <1>7

\* The chain grows, or the poller waits for its swap, which touches no row.
LEMMA PassingOthers ==
  ASSUME PassingInv, UNCHANGED vars \/ Swap \/ ConfirmSwap \/ ChainDecides
                     \/ \E brings \in Transfers : Transfer(brings)
  PROVE  Passing'
<1>1. ASSUME NEW tx, Extend(tx) PROVE RowsStay
  BY <1>1, OldTransactions DEF PassingInv, IInv, RowsStay
<1>2. RowsStay
  <2>1. CASE UNCHANGED <<chain, deposit>>
    BY <2>1 DEF RowsStay
  <2> QED BY <1>1, <2>1 DEF vars, Swap, ConfirmSwap, ChainDecides, Transfer
<1>3. /\ UNCHANGED <<at, seen, queue>>
      /\ \/ UNCHANGED step
         \/ step \in Ingesting /\ step' \in {"confirmSwap", "failed", "credit"}
  BY DEF vars, Swap, ConfirmSwap, ChainDecides, Transfer, pollVars, GoTo, Ingesting
<1> QED BY <1>2, <1>3, PassingStays

LEMMA PassingStep == PassingInv /\ [Next]_vars => PassingInv' /\ [CursorStep]_vars
<1> SUFFICES ASSUME PassingInv, [Next]_vars PROVE PassingInv' /\ [CursorStep]_vars
  OBVIOUS
<1>1. IInv'
  BY IInvStep DEF PassingInv
<1>2. Passing'
  <2>1. CASE GiveUp \/ SaveCursor \/ Crash \/ MarkFailed
    BY <2>1, PassingAnew DEF GiveUp, SaveCursor, Crash, MarkFailed, AfterFailure, NextAddress
  <2>2. CASE ScanBase
    BY <2>2 DEF ScanBase, Passing, Ingesting
  <2> QED BY <2>1, <2>2, PassingScan, PassingInsert, PassingIngest, PassingOthers
        DEF Next, Poll
<1>3. CASE SaveCursor
  <2>1. step = "saveCursor" /\ queue = {}
    BY <1>3 DEF SaveCursor, PassingInv, Passing
  <2>2. \A s \in seen : DepositsInTx(at, s) # {} => deposit[s] # NoRow
    BY <2>1 DEF PassingInv, Passing
  <2> QED BY <1>1, <1>2, <2>2 DEF CursorStep, PassingInv
<1>4. SaveCursor \/ UNCHANGED cursor
  BY DEF Next, Poll, vars, Transfer, GiveUp, ScanBase, ScanATA, Insert, MarkSwapping,
         Swap, ConfirmSwap, Credit, MarkCredited, MarkFailed, ChainDecides, Crash
<1> QED BY <1>1, <1>2, <1>3, <1>4 DEF PassingInv, CursorStep

\* The saved cursor has passed, of what its scan returned, only what has its row: for
\* any number of addresses and transactions, whatever they bring, and under every
\* fault.
THEOREM CursorAlwaysWaits == Spec => CursorWaitsForIngest
<1>1. Init => PassingInv
  BY IInvInit DEF Init, PassingInv, Passing, Ingesting
<1> QED BY <1>1, PassingStep, PTL DEF Spec, CursorWaitsForIngest

-----------------------------------------------------------------------------
(* The theorems *)

\* IngestDeposit credits a signature at most once, whatever is scanned again, lost
\* on the way back or cut short by a stop of the process.
THEOREM CreditedOnceEver == Spec => []CreditedAtMostOnce
BY IInvHolds, PTL DEF IInv

\* No credit without a row, and MarkDepositCredited tells the truth: the row says
\* to whom and how much.
THEOREM CreditsAlwaysHaveRows == Spec => []CreditsHaveRows
BY IInvHolds, PTL DEF IInv

\* No row of deposits is ever rewritten but for its status, which never goes back.
THEOREM RowsAlwaysForward == Spec => RowsMoveForward
BY IInvHolds, PTL DEF RowsMoveForward

\* No address is scanned, and no row written, for an account that is not there, and
\* the deposit that is ingested is one of the chain's.
THEOREM TablesCorrect == Spec => [](Tables /\ Hand)
BY IInvHolds, PTL DEF IInv
=============================================================================
