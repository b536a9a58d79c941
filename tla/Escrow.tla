------------------------------- MODULE Escrow -------------------------------
(***************************************************************************)
(* What the betting engine promises about money, without bets, pools or     *)
(* listings: every market has a pot, money moves between the accounts and   *)
(* the pots, and a pot is paid out in full, exactly once.  Nothing but an   *)
(* outside payment into or out of one account changes the total.            *)
(***************************************************************************)
EXTENDS Integers, FiniteSetsExt

CONSTANTS Account, House, Market

VARIABLES
  cash,   \* what each account may spend
  pot,    \* what each market holds in escrow
  phase   \* "new", "open", "closed" or "settled"

vars == <<cash, pot, phase>>

CashSum(c) == SumFunctionOnSet(c, Account)

Init ==
  /\ cash \in [Account -> Nat]
  /\ pot = [m \in Market |-> 0]
  /\ phase = [m \in Market |-> "new"]

\* A deposit, a withdrawal or a new account.
External(a) ==
  /\ cash' \in [Account -> Nat]
  /\ \A c \in Account \ {a} : cash'[c] = cash[c]
  /\ UNCHANGED <<pot, phase>>

\* A new market: the house funds its seeds.
Open(m) ==
  /\ phase[m] = "new"
  /\ phase' = [phase EXCEPT ![m] = "open"]
  /\ cash' \in [Account -> Nat]
  /\ \A a \in Account \ {House} : cash'[a] = cash[a]
  /\ cash'[House] <= cash[House]
  /\ pot' = [pot EXCEPT ![m] = cash[House] - cash'[House]]

\* An account stakes money on an open market; the house may.
Stake(a, m) ==
  /\ phase[m] = "open"
  /\ cash' \in [Account -> Nat]
  /\ cash'[a] < cash[a]
  /\ \A c \in Account \ {a} : cash'[c] = cash[c]
  /\ pot' = [pot EXCEPT ![m] = @ + cash[a] - cash'[a]]
  /\ UNCHANGED phase

\* Two accounts trade.
Trade(a, b) ==
  /\ cash' \in [Account -> Nat]
  /\ cash'[a] + cash'[b] = cash[a] + cash[b]
  /\ \A c \in Account \ {a, b} : cash'[c] = cash[c]
  /\ UNCHANGED <<pot, phase>>

Close(m) ==
  /\ phase[m] = "open"
  /\ phase' = [phase EXCEPT ![m] = "closed"]
  /\ UNCHANGED <<cash, pot>>

\* The whole pot goes to the accounts, and none of them pays.
Settle(m) ==
  /\ phase[m] \in {"open", "closed"}
  /\ phase' = [phase EXCEPT ![m] = "settled"]
  /\ pot' = [pot EXCEPT ![m] = 0]
  /\ cash' \in [Account -> Nat]
  /\ \A a \in Account : cash'[a] >= cash[a]
  /\ CashSum(cash') = CashSum(cash) + pot[m]

Next ==
  \/ \E a \in Account : External(a)
  \/ \E m \in Market : Open(m) \/ Close(m) \/ Settle(m)
  \/ \E a \in Account, m \in Market : Stake(a, m)
  \/ \E a, b \in Account : a # b /\ Trade(a, b)

Spec == Init /\ [][Next]_vars
=============================================================================
