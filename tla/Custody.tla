------------------------------ MODULE Custody ------------------------------
(***************************************************************************)
(* What wallet-backend promises about a withdrawal: the amount leaves the   *)
(* account's cash once, is then held, and ends at one place for good: paid  *)
(* out on the chain, or returned to the account.  The wallet may lose sight *)
(* of a payout; then it can only tell that it gives back the amount once.   *)
(***************************************************************************)
EXTENDS Integers

CONSTANTS Account, Withdrawal, Amounts, NoTerms

VARIABLES
  cash,    \* what each account has
  place,   \* where each withdrawal's money is
  terms    \* the account and the amount of each withdrawal, once it is held

vars == <<cash, place, terms>>

Terms == [account : Account, amount : Amounts]

Init ==
  /\ cash \in [Account -> Nat]
  /\ place = [w \in Withdrawal |-> "account"]
  /\ terms = [w \in Withdrawal |-> NoTerms]

Hold(w, t) ==
  /\ place[w] = "account"
  /\ t.amount <= cash[t.account]
  /\ cash' = [cash EXCEPT ![t.account] = @ - t.amount]
  /\ place' = [place EXCEPT ![w] = "held"]
  /\ terms' = [terms EXCEPT ![w] = t]

Pay(w) ==
  /\ place[w] = "held"
  /\ place' = [place EXCEPT ![w] = "paid"]
  /\ UNCHANGED <<cash, terms>>

Return(w) ==
  /\ place[w] = "held"
  /\ cash' = [cash EXCEPT ![terms[w].account] = @ + terms[w].amount]
  /\ place' = [place EXCEPT ![w] = "returned"]
  /\ UNCHANGED terms

\* A payout is sent and the wallet does not know.
LoseSight(w) ==
  /\ place[w] = "held"
  /\ place' = [place EXCEPT ![w] = "adrift"]
  /\ UNCHANGED <<cash, terms>>

WriteOff(w) ==
  /\ place[w] = "adrift"
  /\ cash' = [cash EXCEPT ![terms[w].account] = @ + terms[w].amount]
  /\ place' = [place EXCEPT ![w] = "writtenOff"]
  /\ UNCHANGED terms

Next ==
  \E w \in Withdrawal :
    \/ \E t \in Terms : Hold(w, t)
    \/ Pay(w) \/ Return(w)
    \/ LoseSight(w) \/ WriteOff(w)

Spec == Init /\ [][Next]_vars
=============================================================================
