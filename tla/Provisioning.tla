---------------------------- MODULE Provisioning ----------------------------
(***************************************************************************)
(* ProvisionAccount and FaucetTestUSDC of wallet-backend, called at the     *)
(* same time for the same and for different accounts.  A step is one call   *)
(* to the database or to the Solana RPC node.  The faults a run admits are  *)
(* those of module Withdrawals: "store", "rpc", "broadcast", "reject",      *)
(* "drop", "cancel" and "crash".                                            *)
(***************************************************************************)
EXTENDS Integers, FiniteSets

CONSTANTS
  Account,    \* accounts of the platform
  Call,       \* the calls made, each at most once
  Faults,     \* the faults admitted
  NoIndex     \* "no such row" in wallet_addresses, or no address returned

ASSUME IndexAssumption == NoIndex \notin Nat

ASSUME FaultAssumption ==
  Faults \subseteq {"store", "rpc", "broadcast", "reject", "drop", "cancel",
                    "crash"}

VARIABLES
  account,    \* the account of each call
  faucet,     \* the calls that are for the faucet
  pc,         \* the next thing each call does
  cancelled,  \* the calls whose request context is cancelled
  sequence,   \* wallet_derivation_index_seq, the next value
  index,      \* the derivation index each call has drawn
  address,    \* wallet_addresses: the derivation index of each account
  given,      \* the address each call has gone on with, by its index
  claims,     \* faucet_claims
  grant,      \* what has become of each call's grant
  unheard,    \* calls whose grant was broadcast without their knowing, and
  cutShort    \* calls that the process stopped in, or that the database failed
              \* at the claim: history variables, which only properties read

chainVars == <<grant, unheard>>
callVars == <<account, faucet, pc, cancelled, cutShort>>
tables == <<sequence, address, claims>>
vars == <<account, faucet, pc, cancelled, sequence, index, address, given,
          claims, grant, unheard, cutShort>>

treasuryIndex == 0
Step == {"new", "read", "draw", "ensureATA", "insert", "reread", "claim", "send",
         "await", "release", "end"}
GrantState == {"none", "pending", "landed", "rejected", "dropped"}
Running == {c \in Call : pc[c] \notin {"new", "end"}}

Replies(c, fault) ==
  IF c \in cancelled THEN {"failed"}
  ELSE {"ok"} \cup (IF fault \in Faults THEN {"failed", "lost"} ELSE {})

Move(c, step) ==
  /\ pc' = [pc EXCEPT ![c] = step]
  /\ UNCHANGED <<account, faucet, cancelled>>

GoTo(c, step) == Move(c, step) /\ UNCHANGED cutShort

-----------------------------------------------------------------------------
Init ==
  /\ account \in [Call -> Account]
  /\ faucet \in SUBSET Call
  /\ pc = [c \in Call |-> "new"]
  /\ cancelled = {}
  /\ sequence = 1
  /\ index = [c \in Call |-> NoIndex]
  /\ address = [a \in Account |-> NoIndex]
  /\ given = [c \in Call |-> NoIndex]
  /\ claims = {}
  /\ grant = [c \in Call |-> "none"]
  /\ unheard = {} /\ cutShort = {}

-----------------------------------------------------------------------------
(* ProvisionAccount *)

Begin(c) ==
  /\ pc[c] = "new"
  /\ GoTo(c, "read")
  /\ UNCHANGED <<tables, index, given, chainVars>>

\* The address is there: it is returned, or the faucet goes on with it.
GoOnWith(c, i) ==
  /\ given' = [given EXCEPT ![c] = i]
  /\ GoTo(c, IF c \in faucet THEN "claim" ELSE "end")

\* GetAddressByAccount.
Read(c) ==
  /\ pc[c] = "read"
  /\ \E reply \in Replies(c, "store") :
       IF reply = "ok" /\ address[account[c]] # NoIndex
       THEN GoOnWith(c, address[account[c]])
       ELSE /\ GoTo(c, IF reply = "ok" THEN "draw" ELSE "end")
            /\ UNCHANGED given
  /\ UNCHANGED <<tables, index, chainVars>>

\* Mutant: one more than the rows there are, instead of the sequence.
DrawFromCount(c) ==
  /\ pc[c] = "draw"
  /\ index' = [index EXCEPT ![c] =
                 Cardinality({a \in Account : address[a] # NoIndex}) + 1]
  /\ GoTo(c, "ensureATA")
  /\ UNCHANGED <<tables, given, chainVars>>

\* NextDerivationIndex: nextval never hands out a value twice.
Draw(c) ==
  /\ pc[c] = "draw"
  /\ \E reply \in Replies(c, "store") :
       /\ sequence' = IF reply = "failed" THEN sequence ELSE sequence + 1
       /\ index' = IF reply = "ok" THEN [index EXCEPT ![c] = sequence] ELSE index
       /\ GoTo(c, IF reply = "ok" THEN "ensureATA" ELSE "end")
  /\ UNCHANGED <<address, claims, given, chainVars>>

\* EnsureUSDCATA, paid by the treasury.
EnsureATA(c) ==
  /\ pc[c] = "ensureATA"
  /\ \E reply \in Replies(c, "rpc") :
       GoTo(c, IF reply = "ok" THEN "insert" ELSE "end")
  /\ UNCHANGED <<tables, index, given, chainVars>>

\* Mutant: on a conflict the caller gets the address it has derived itself.
InsertReturnsOwn(c) ==
  LET a == account[c] IN
  /\ pc[c] = "insert"
  /\ address' = IF address[a] = NoIndex THEN [address EXCEPT ![a] = index[c]]
                ELSE address
  /\ GoOnWith(c, index[c])
  /\ UNCHANGED <<sequence, claims, index, chainVars>>

\* InsertAddress: the primary key is the account, so one of two callers fails.
Insert(c) ==
  LET a == account[c] IN
  /\ pc[c] = "insert"
  /\ \E reply \in IF address[a] = NoIndex THEN Replies(c, "store") ELSE {"failed"} :
       /\ address' = IF reply = "failed" THEN address
                     ELSE [address EXCEPT ![a] = index[c]]
       /\ IF reply = "ok" THEN GoOnWith(c, index[c])
          ELSE GoTo(c, "reread") /\ UNCHANGED given
  /\ UNCHANGED <<sequence, claims, index, chainVars>>

\* After a failed insert, the row that somebody else inserted.
Reread(c) ==
  /\ pc[c] = "reread"
  /\ \E reply \in Replies(c, "store") :
       IF reply = "ok" /\ address[account[c]] # NoIndex
       THEN GoOnWith(c, address[account[c]])
       ELSE GoTo(c, "end") /\ UNCHANGED given
  /\ UNCHANGED <<tables, index, chainVars>>

-----------------------------------------------------------------------------
(* FaucetTestUSDC *)

\* Mutant: the claim is checked when it is too late.
ClaimUnconditionally(c) ==
  /\ pc[c] = "claim"
  /\ claims' = claims \cup {account[c]}
  /\ GoTo(c, "send")
  /\ UNCHANGED <<sequence, address, index, given, chainVars>>

\* ClaimFaucet: the primary key lets one call through.
Claim(c) ==
  LET a == account[c] IN
  /\ pc[c] = "claim"
  /\ \E reply \in Replies(c, "store") :
       /\ claims' = IF reply = "failed" THEN claims ELSE claims \cup {a}
       /\ Move(c, IF reply = "ok" /\ a \notin claims THEN "send" ELSE "end")
       /\ cutShort' = IF reply = "lost" THEN cutShort \cup {c} ELSE cutShort
  /\ UNCHANGED <<sequence, address, index, given, chainVars>>

\* TransferUSDC from the treasury, up to the broadcast.
Send(c) ==
  /\ pc[c] = "send"
  /\ \/ /\ "ok" \in Replies(c, "rpc")
        /\ grant' = [grant EXCEPT ![c] = "pending"]
        /\ GoTo(c, "await")
        /\ UNCHANGED unheard
     \/ /\ "lost" \in Replies(c, "broadcast")
        /\ grant' = [grant EXCEPT ![c] = "pending"]
        /\ unheard' = unheard \cup {c}
        /\ GoTo(c, "release")
     \/ /\ "failed" \in Replies(c, "rpc")
        /\ GoTo(c, "release")
        /\ UNCHANGED chainVars
  /\ UNCHANGED <<tables, index, given>>

\* Mutant: a grant that fails on the chain is an error like those before the claim.
AwaitWithoutRelease(c) ==
  /\ pc[c] = "await"
  /\ c \in cancelled \/ grant[c] \in {"landed", "rejected"}
  /\ GoTo(c, "end")
  /\ UNCHANGED <<tables, index, given, chainVars>>

\* confirmSignature, until the transaction is confirmed or has failed, or the
\* client has gone.
Await(c) ==
  /\ pc[c] = "await"
  /\ \/ c \notin cancelled /\ grant[c] = "landed" /\ GoTo(c, "end")
     \/ (c \in cancelled \/ grant[c] = "rejected") /\ GoTo(c, "release")
  /\ UNCHANGED <<tables, index, given, chainVars>>

\* ReleaseFaucet, whose error is ignored.
Release(c) ==
  /\ pc[c] = "release"
  /\ \E reply \in Replies(c, "store") :
       /\ claims' = IF reply = "failed" THEN claims ELSE claims \ {account[c]}
       /\ cutShort' = IF reply = "failed" THEN cutShort \cup {c} ELSE cutShort
  /\ Move(c, "end")
  /\ UNCHANGED <<sequence, address, index, given, chainVars>>

-----------------------------------------------------------------------------
(* The world around the calls *)

\* What the chain makes of a grant that was broadcast.
ChainDecides(c) ==
  /\ grant[c] = "pending"
  /\ \E s \in {"landed"} \cup (IF "reject" \in Faults THEN {"rejected"} ELSE {})
              \cup (IF "drop" \in Faults THEN {"dropped"} ELSE {}) :
       grant' = [grant EXCEPT ![c] = s]
  /\ UNCHANGED <<callVars, tables, index, given, unheard>>

Cancel(c) ==
  /\ "cancel" \in Faults
  /\ c \in Running \ cancelled
  /\ cancelled' = cancelled \cup {c}
  /\ UNCHANGED <<account, faucet, pc, cutShort, tables, index, given, chainVars>>

\* The process stops; the sequence and the tables stay.
Crash ==
  /\ "crash" \in Faults
  /\ Running # {}
  /\ pc' = [c \in Call |-> IF c \in Running THEN "end" ELSE pc[c]]
  /\ cutShort' = cutShort \cup Running
  /\ UNCHANGED <<account, faucet, cancelled, tables, index, given, chainVars>>

Proceed(c) ==
  \/ Read(c) \/ Draw(c) \/ EnsureATA(c) \/ Insert(c) \/ Reread(c)
  \/ Claim(c) \/ Send(c) \/ Await(c) \/ Release(c)

Next ==
  \/ \E c \in Call : Begin(c) \/ Proceed(c) \/ ChainDecides(c) \/ Cancel(c)
  \/ Crash

Spec == Init /\ [][Next]_vars

-----------------------------------------------------------------------------
(* Properties *)

\* The types of the tables and of what the calls hold: an index once it is drawn,
\* and an address before the faucet claims and pays.
TypeOK ==
  /\ account \in [Call -> Account] /\ faucet \subseteq Call
  /\ pc \in [Call -> Step] /\ cancelled \subseteq Call
  /\ sequence \in Nat \ {0}
  /\ index \in [Call -> Nat \cup {NoIndex}]
  /\ address \in [Account -> Nat \cup {NoIndex}]
  /\ given \in [Call -> Nat \cup {NoIndex}]
  /\ claims \subseteq Account
  /\ grant \in [Call -> GrantState]
  /\ unheard \subseteq Call /\ cutShort \subseteq Call
  /\ \A c \in Call :
       /\ pc[c] \in {"ensureATA", "insert", "reread"} => index[c] # NoIndex
       /\ pc[c] \in {"claim", "send", "await", "release"} => given[c] # NoIndex

\* The address that a user is shown, or that the faucet pays, is the one that the
\* poller watches for that user, whoever won the race to insert it.
GivenAddressIsWatched ==
  \A c \in Call : given[c] # NoIndex => address[account[c]] = given[c]

\* No two accounts share a key, and none has the treasury's: a deposit credits
\* exactly one account (derivation.go, comment on DeriveAccount).
KeysAreDistinct ==
  \A a \in Account : address[a] # NoIndex =>
    /\ address[a] # treasuryIndex
    /\ \A b \in Account : address[b] = address[a] => b = a

Granted(a) == {c \in Call : account[c] = a /\ grant[c] \in {"pending", "landed"}}

\* An account is granted the demo amount at most once, whatever fails, but for the
\* grants that FaucetTestUSDC does not know it has sent: those release the claim.
OneGrantHeardOf ==
  \A a \in Account :
    /\ Cardinality(Granted(a) \ unheard) <= 1
    /\ Granted(a) \ unheard # {} => a \in claims

\* Calls that have claimed and may still release.
Holding(a) == {c \in Call : account[c] = a /\ pc[c] \in {"send", "await", "release"}}

\* A claim outlives its call only with a grant: an account that got nothing may
\* draw again (service.go, comment on FaucetTestUSDC), unless the client went away
\* during a call, which then cannot release, or the call was cut short.
ClaimsAreGranted ==
  \A a \in claims :
    \/ Holding(a) # {}
    \/ Granted(a) # {}
    \/ \E c \in (cancelled \cup cutShort) \cap faucet :
         account[c] = a /\ given[c] # NoIndex
=============================================================================
