----------------------------- MODULE MCDeposits -----------------------------
(* What the outside may send, for model checking Deposits. *)
EXTENDS Deposits

Brings(a, usdcAmount, solAmount) ==
  [b \in Account |-> IF b = a THEN [usdc |-> usdcAmount, sol |-> solAmount]
                     ELSE Nothing]

\* To one account at a time: some dust, an amount that rounds up, or lamports.
UsdcOnly == {Brings(a, x, 0) : a \in Account, x \in {1, 5}}
UsdcOrSol == UsdcOnly \cup {Brings(a, 0, 7) : a \in Account}

\* Also both assets, or several accounts, in one transaction.
Anything ==
  UsdcOrSol \cup {Brings(1, 5, 7)}
  \cup {[b \in Account |-> [usdc |-> 5, sol |-> 0]]}

ToEveryone == {[b \in Account |-> [usdc |-> 5, sol |-> 0]]}
=============================================================================
