------------------------- MODULE ProvisioningProofs -------------------------
(***************************************************************************)
(* What holds of provisioning and of the faucet for any number of calls and *)
(* accounts, whichever faults occur.                                        *)
(***************************************************************************)
EXTENDS Provisioning, FiniteSetTheorems, TLAPS

-----------------------------------------------------------------------------
(* The inductive invariant *)

\* A drawn index is the call's own, and only its account can have it.
KeysFit ==
  /\ \A c \in Call : index[c] # NoIndex => 0 < index[c] /\ index[c] < sequence
  /\ \A c, d \in Call : index[c] # NoIndex /\ index[c] = index[d] => c = d
  /\ \A a \in Account : address[a] # NoIndex =>
       \E c \in Call : account[c] = a /\ index[c] = address[a]

\* What a call knows at each step.
CallFits(c) ==
  /\ pc[c] \in {"new", "read", "draw"} => index[c] = NoIndex
  /\ pc[c] \in {"claim", "send", "await", "release"} => c \in faucet
  /\ pc[c] \in Step \ {"await", "release", "end"} => grant[c] = "none"
  /\ pc[c] = "await" => c \notin unheard
  /\ c \in unheard => pc[c] \in {"release", "end"}
  /\ pc[c] = "release" =>
       c \in cancelled \cup unheard \/ grant[c] \in {"none", "rejected"}

Holds(c) == pc[c] \in {"send", "await", "release"}
Live(c) == c \notin unheard /\ grant[c] \in {"pending", "landed"}

\* The claim is with one call: the one that may still send or release, or that
\* has sent.
ClaimsFit ==
  /\ \A c \in Call : Holds(c) \/ Live(c) => account[c] \in claims
  /\ \A c, d \in Call :
       /\ Holds(c) \/ Live(c)
       /\ Holds(d) \/ Live(d)
       /\ account[c] = account[d]
       => c = d

\* Why a call may have left a claim.
Keeps(c) ==
  /\ c \in faucet /\ given[c] # NoIndex
  /\ \/ Holds(c)
     \/ grant[c] = "landed"
     \/ c \in cancelled \cup cutShort

ClaimsKept == \A a \in claims : \E c \in Call : account[c] = a /\ Keeps(c)

IInv ==
  /\ TypeOK
  /\ KeysFit
  /\ GivenAddressIsWatched
  /\ \A c \in Call : CallFits(c)
  /\ ClaimsFit
  /\ ClaimsKept

-----------------------------------------------------------------------------
(* Every step keeps it *)

\* The steps that draw and record a derivation index: no claim is touched, and no
\* call leaves a claim.
LEMMA AddressStep ==
  ASSUME IInv, NEW c \in Call,
         Begin(c) \/ Read(c) \/ Draw(c) \/ EnsureATA(c) \/ Insert(c) \/ Reread(c)
  PROVE  IInv'
<1> USE DEF Begin, Read, Draw, EnsureATA, Insert, Reread, GoOnWith, GoTo, Move,
            Replies, tables, chainVars
<1> USE IndexAssumption
<1>1. TypeOK'
  BY DEF IInv, TypeOK, Step
<1>2. KeysFit'
  BY DEF IInv, TypeOK, KeysFit, CallFits
<1>3. GivenAddressIsWatched'
  BY DEF IInv, TypeOK, GivenAddressIsWatched
<1>4. \A d \in Call : CallFits(d)'
  BY DEF IInv, TypeOK, CallFits, Step
<1>5. ClaimsFit'
  BY DEF IInv, TypeOK, CallFits, ClaimsFit, Holds, Live
<1>6. ClaimsKept'
  BY DEF IInv, TypeOK, ClaimsKept, Keeps, Holds
<1> QED BY <1>1, <1>2, <1>3, <1>4, <1>5, <1>6 DEF IInv

\* The steps that claim, grant and release: no address is touched.
LEMMA GrantStep ==
  ASSUME IInv, NEW c \in Call,
         Claim(c) \/ Send(c) \/ Await(c) \/ Release(c) \/ ChainDecides(c) \/ Cancel(c)
  PROVE  IInv'
<1> USE DEF Claim, Send, Await, Release, ChainDecides, Cancel, GoTo, Move,
            Replies, tables, callVars, chainVars, Running
<1>1. TypeOK'
  BY DEF IInv, TypeOK, Step, GrantState
<1>2. KeysFit'
  BY DEF IInv, TypeOK, KeysFit
<1>3. GivenAddressIsWatched'
  BY DEF IInv, TypeOK, GivenAddressIsWatched
<1>4. \A d \in Call : CallFits(d)'
  BY DEF IInv, TypeOK, CallFits, Step
<1>5. ClaimsFit'
  BY DEF IInv, TypeOK, CallFits, ClaimsFit, Holds, Live
<1>6. ClaimsKept'
  BY DEF IInv, TypeOK, CallFits, ClaimsFit, Live, ClaimsKept, Keeps, Holds
<1> QED BY <1>1, <1>2, <1>3, <1>4, <1>5, <1>6 DEF IInv

\* The tables outlive the process; a call that had a claim is cut short.
LEMMA CrashStep ==
  ASSUME IInv, Crash
  PROVE  IInv'
<1> USE DEF Crash, tables, chainVars, Running
<1>1. TypeOK'
  BY DEF IInv, TypeOK, Step
<1>2. KeysFit'
  BY DEF IInv, TypeOK, KeysFit
<1>3. GivenAddressIsWatched'
  BY DEF IInv, TypeOK, GivenAddressIsWatched
<1>4. \A d \in Call : CallFits(d)'
  BY DEF IInv, TypeOK, CallFits, Step
<1>5. ClaimsFit'
  BY DEF IInv, TypeOK, ClaimsFit, Holds, Live
<1>6. ClaimsKept'
  BY DEF IInv, TypeOK, ClaimsKept, Keeps, Holds
<1> QED BY <1>1, <1>2, <1>3, <1>4, <1>5, <1>6 DEF IInv

LEMMA IInvInit == Init => IInv
BY IndexAssumption
   DEF Init, IInv, TypeOK, Step, GrantState, KeysFit, GivenAddressIsWatched,
       CallFits, ClaimsFit, Holds, Live, ClaimsKept

LEMMA IInvStep == IInv /\ [Next]_vars => IInv'
<1> SUFFICES ASSUME IInv, [Next]_vars PROVE IInv'
  OBVIOUS
<1>1. CASE UNCHANGED vars
  BY <1>1 DEF vars, IInv, TypeOK, KeysFit, GivenAddressIsWatched, CallFits,
              ClaimsFit, Holds, Live, ClaimsKept, Keeps
<1>2. CASE Next
  BY <1>2, AddressStep, GrantStep, CrashStep DEF Next, Proceed
<1> QED BY <1>1, <1>2

\* The inductive invariant holds of every behaviour.
LEMMA IInvHolds == Spec => []IInv
BY IInvInit, IInvStep, PTL DEF Spec

-----------------------------------------------------------------------------
(* The theorems *)

\* ProvisionAccount and FaucetTestUSDC keep the types of their tables, and a call
\* has an address before it claims or pays.
THEOREM TypeCorrect == Spec => []TypeOK
BY IInvHolds, PTL DEF IInv

\* Whoever wins the race to InsertAddress, every caller goes on with the row that
\* is in wallet_addresses, so no deposit goes to an address nobody polls.
THEOREM AddressesAreWatched == Spec => []GivenAddressIsWatched
BY IInvHolds, PTL DEF IInv

\* Two addresses with the same index were drawn by the same call, which has one
\* account.
LEMMA DistinctInState == IInv => KeysAreDistinct
BY IndexAssumption DEF IInv, TypeOK, KeysFit, KeysAreDistinct, treasuryIndex

\* NextDerivationIndex never gives one key to two accounts, nor the treasury's,
\* whatever is lost between the sequence and the insert.
THEOREM KeysAlwaysDistinct == Spec => []KeysAreDistinct
BY IInvHolds, DistinctInState, PTL

\* The grants of an account that were heard of are all of one call.
LEMMA OneGrantInState == IInv => OneGrantHeardOf
<1> SUFFICES ASSUME IInv, NEW a \in Account
             PROVE  /\ Cardinality(Granted(a) \ unheard) <= 1
                    /\ Granted(a) \ unheard # {} => a \in claims
  BY DEF OneGrantHeardOf
<1> DEFINE heard == Granted(a) \ unheard
<1>1. \A c \in heard : c \in Call /\ account[c] = a /\ Live(c)
  BY DEF Granted, Live
<1>2. heard # {} => a \in claims
  BY <1>1 DEF IInv, ClaimsFit
<1>3. CASE heard = {}
  BY <1>3, <1>2, FS_EmptySet
<1>4. CASE heard # {}
  <2>1. PICK c \in heard : TRUE
    BY <1>4
  <2>2. heard = {c}
    BY <1>1, <2>1 DEF IInv, ClaimsFit
  <2>3. Cardinality({c}) = 1
    BY FS_Singleton
  <2> QED BY <1>2, <2>2, <2>3
<1> QED BY <1>3, <1>4

\* FaucetTestUSDC grants an account once, under any interleaving of its calls and
\* any fault but a broadcast it was not told of.
THEOREM OneGrantEver == Spec => []OneGrantHeardOf
BY IInvHolds, OneGrantInState, PTL

\* A call that keeps its claim holds it still, has paid, or could not release it.
LEMMA ClaimsGrantedInState == IInv => ClaimsAreGranted
<1> SUFFICES ASSUME IInv, NEW a \in claims
             PROVE  \/ Holding(a) # {}
                    \/ Granted(a) # {}
                    \/ \E c \in (cancelled \cup cutShort) \cap faucet :
                         account[c] = a /\ given[c] # NoIndex
  BY DEF ClaimsAreGranted
<1>1. PICK c \in Call : account[c] = a /\ Keeps(c)
  BY DEF IInv, ClaimsKept
<1>2. Holds(c) => c \in Holding(a)
  BY <1>1 DEF Holds, Holding
<1>3. grant[c] = "landed" => c \in Granted(a)
  BY <1>1 DEF Granted
<1> QED BY <1>1, <1>2, <1>3 DEF Keeps

\* ReleaseFaucet is reached on every path on which the client stays and the
\* database answers: no account loses its one draw to a grant that failed.
THEOREM ClaimsAlwaysGranted == Spec => []ClaimsAreGranted
BY IInvHolds, ClaimsGrantedInState, PTL
=============================================================================
