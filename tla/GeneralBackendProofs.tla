------------------------ MODULE GeneralBackendProofs ------------------------
(***************************************************************************)
(* What holds of general-backend for any number of accounts, browsers and   *)
(* late requests, whatever the spellings and amounts are.                   *)
(***************************************************************************)
EXTENDS GeneralBackend, TLAPS

-----------------------------------------------------------------------------
(* The inductive invariant *)

Underway(b) == step[b] # "idle"

\* A request is for an account that exists, and moves money to users only.
Backed(r) ==
  /\ r \in Request
  /\ r.id \in Registered
  /\ r.op # "promote" => r.to \in Id
  /\ r.op = "buy" => balance[r.to] # NoRow

\* Where a post is tells what it is about.
PostsFit ==
  \A b \in Browser :
    Underway(b) => /\ Backed(request[b])
                   /\ step[b] = "promote" <=> request[b].op = "promote"

LateFit == \A r \in late : Backed(r) /\ r.op # "promote"

\* The addresses in the table are normalised.
AddressesNormal == \A i \in Registered : norm[accounts[i].email] = accounts[i].email

\* Who has passed RequireAdmin is an admin until the update is made.
PromotersAreAdmins ==
  \A b \in Browser : step[b] = "promote" => accounts[request[b].id].admin

\* A registration is answered once bet-backend has its user.
AnsweredAreProvisioned ==
  \A b \in Browser :
    step[b] = "answered" /\ request[b].op = "register" => balance[request[b].id] # NoRow

IInv ==
  /\ TypeOK
  /\ PostsFit
  /\ LateFit
  /\ AddressesNormal
  /\ AddressesAreDistinct
  /\ PromotersAreAdmins
  /\ AnsweredAreProvisioned
  /\ AdminsTraceToBootstrap
  /\ UsersHaveAccounts

-----------------------------------------------------------------------------
(* Types *)

\* Starting a post gives it a step and a request.
LEMMA StartType ==
  ASSUME TypeOK, NEW b \in Browser, NEW r \in Request,
         NEW w \in {"read", "sent", "promote"}, Start(b, w, r)
  PROVE  /\ step' \in [Browser -> {"idle", "read", "sent", "answered", "promote"}]
         /\ request' \in [Browser -> Request \cup {NoRequest}]
         /\ late' \subseteq Request
BY DEF Start, TypeOK

\* Ending a post leaves the others as they are.
LEMMA EndType ==
  ASSUME TypeOK, NEW b \in Browser, End(b)
  PROVE  /\ step' \in [Browser -> {"idle", "read", "sent", "answered", "promote"}]
         /\ request' \in [Browser -> Request \cup {NoRequest}]
BY DEF End, TypeOK

\* The requests the forms make.
LEMMA RequestType ==
  ASSUME NEW i \in Id, NEW j \in Id \cup Spelling, NEW x \in Amount \cup {0},
         NEW o \in Op
  PROVE  [op |-> o, id |-> i, to |-> j, amount |-> x, seen |-> 0] \in Request
BY DEF Request

\* An accepted request leaves balances that are natural numbers, deletes no user
\* and makes one of its own account at most.
LEMMA AfterType ==
  ASSUME TypeOK, NEW r \in Request, Backed(r), r.op # "promote", Accepted(r)
  PROVE  /\ After(r) \in [Id -> Nat \cup {NoRow}]
         /\ \A i \in Id :
              /\ balance[i] # NoRow => After(r)[i] # NoRow
              /\ After(r)[i] # NoRow => balance[i] # NoRow \/ i = r.id
<1>1. /\ r.op \in Op /\ r.id \in Id /\ r.to \in Id /\ r.seen \in Nat /\ r.amount \in Nat
  <2>1. Amount \cup {0} \subseteq Nat
    BY AmountAssumption
  <2>2. /\ r.op \in Op /\ r.id \in Id /\ r.seen \in Nat /\ r.amount \in Amount \cup {0}
    BY DEF Request
  <2>3. r.to \in Id
    BY DEF Backed
  <2> QED BY <2>1, <2>2, <2>3
<1>2. /\ balance \in [Id -> Nat \cup {NoRow}]
      /\ \A n \in Nat : n # NoRow
  BY NoRowAssumption DEF TypeOK
<1>3. CASE r.op = "register"
  BY <1>1, <1>2, <1>3 DEF After
<1>4. CASE r.op = "deposit"
  BY <1>1, <1>2, <1>4 DEF After
<1>5. CASE r.op = "bet"
  <2>1. /\ balance[r.id] \in Nat /\ balance[r.id] >= r.amount
    BY <1>1, <1>2, <1>5 DEF Accepted, Debits
  <2>2. balance[r.id] - r.amount \in Nat
    BY <1>1, <2>1
  <2>3. After(r) = [balance EXCEPT ![r.id] = @ - r.amount]
    BY <1>5 DEF After
  <2> QED BY <1>1, <1>2, <2>1, <2>2, <2>3
<1>6. CASE r.op = "buy"
  <2>1. /\ balance[r.id] \in Nat /\ balance[r.id] >= r.amount
        /\ balance[r.to] \in Nat
    BY <1>1, <1>2, <1>6 DEF Accepted, Debits, Backed
  <2>2. After(r) = [balance EXCEPT ![r.id] = @ - r.amount, ![r.to] = @ + r.amount]
    BY <1>6 DEF After
  <2>3. /\ balance[r.id] - r.amount \in Nat
        /\ balance[r.to] + r.amount \in Nat
        /\ balance[r.id] - r.amount + r.amount \in Nat
    BY <1>1, <2>1
  <2> QED BY <1>1, <1>2, <2>1, <2>2, <2>3
<1> QED BY <1>1, <1>3, <1>4, <1>5, <1>6 DEF Op

\* What is booked for an account stays an integer.
LEMMA BookingType ==
  ASSUME TypeOK, NEW r \in Request, Backed(r), r.op # "promote"
  PROVE  Booking(r) \in [Id -> Int]
<1>1. /\ r.op \in Op /\ r.id \in Id /\ r.to \in Id /\ r.amount \in Int
  <2>1. Amount \cup {0} \subseteq Int
    BY AmountAssumption
  <2>2. /\ r.op \in Op /\ r.id \in Id /\ r.amount \in Amount \cup {0}
    BY DEF Request
  <2>3. r.to \in Id
    BY DEF Backed
  <2> QED BY <2>1, <2>2, <2>3
<1>2. booked \in [Id -> Int]
  BY DEF TypeOK
<1>3. CASE r.op = "register"
  BY <1>2, <1>3 DEF Booking
<1>4. CASE r.op = "deposit"
  <2>1. Booking(r) = [booked EXCEPT ![r.id] = @ + r.amount]
    BY <1>4 DEF Booking
  <2> QED BY <1>1, <1>2, <2>1
<1>5. CASE r.op = "bet"
  <2>1. Booking(r) = [booked EXCEPT ![r.id] = @ - r.amount]
    BY <1>5 DEF Booking
  <2> QED BY <1>1, <1>2, <2>1
<1>6. CASE r.op = "buy"
  <2>1. Booking(r) = [booked EXCEPT ![r.id] = @ - r.amount, ![r.to] = @ + r.amount]
    BY <1>6 DEF Booking
  <2> QED BY <1>1, <1>2, <2>1
<1> QED BY <1>1, <1>3, <1>4, <1>5, <1>6 DEF Op

\* Performing an accepted request keeps the types of the tables it changes.
LEMMA PerformType ==
  ASSUME TypeOK, NEW r \in Request, Backed(r), r.op # "promote", Accepted(r),
         NEW ids, Perform(r, ids)
  PROVE  /\ balance' \in [Id -> Nat \cup {NoRow}]
         /\ booked' \in [Id -> Int]
         /\ overlapped' \subseteq Id
<1>1. balance' = After(r) /\ Follow(Booking(r), {r.id, r.to} \cap ids)
  BY DEF Perform
<1>2. {r.id, r.to} \subseteq Id
  BY DEF Backed, Request
<1> QED BY <1>1, <1>2, AfterType, BookingType DEF Follow, TypeOK

\* Types are kept by every step: balances because a request is performed only if
\* it is covered, the tables because a request is for an account.
LEMMA TypeStep == TypeOK /\ PostsFit /\ LateFit /\ [Next]_vars => TypeOK'
<1> SUFFICES ASSUME TypeOK, PostsFit, LateFit, [Next]_vars
             PROVE  TypeOK'
  OBVIOUS
<1>1. ASSUME NEW b \in Browser, NEW s \in Spelling, NEW i \in Id, Register(b, s, i)
      PROVE  TypeOK'
  <2>1. Provision(i) \in Request
    BY DEF Provision, Request, Op
  <2>2. [email |-> Stored(s), admin |-> IsInitialAdmin(s)] \in Account
    BY NormAssumption DEF Stored, IsInitialAdmin, Account
  <2>3. accounts' \in [Id -> Account \cup {NoRow}]
    BY <1>1, <2>2 DEF Register, InsertAccount, TypeOK
  <2> QED BY <1>1, <2>1, <2>3, StartType DEF Register, TypeOK, history
<1>2. ASSUME NEW b \in Browser, NEW s \in Spelling, Login(b, s)
      PROVE  TypeOK'
  BY <1>2 DEF Login, FindAccountByEmail, Registered, TypeOK, calls, history
<1>3. ASSUME NEW b \in Browser, NEW s \in Spelling, AdminPromoteUser(b, s)
      PROVE  TypeOK'
  <2>1. [op |-> "promote", id |-> session[b], to |-> s, amount |-> 0, seen |-> 0]
          \in Request
    BY <1>3 DEF AdminPromoteUser, RequireAdmin, RequireUser, Registered, Request, Op
  <2> QED BY <1>3, <2>1, StartType DEF AdminPromoteUser, TypeOK, tables, history
<1>4. ASSUME NEW b \in Browser, NEW x \in Amount, Deposit(b, x)
      PROVE  TypeOK'
  <2>1. [op |-> "deposit", id |-> session[b], to |-> session[b], amount |-> x,
         seen |-> 0] \in Request
    BY <1>4 DEF Deposit, RequireUser, Registered, Request, Op
  <2> QED BY <1>4, <2>1, StartType DEF Deposit, TypeOK, tables, history
<1>5. ASSUME NEW b \in Browser, NEW x \in Amount, PlaceBetPage(b, x)
      PROVE  TypeOK'
  <2>1. [op |-> "bet", id |-> session[b], to |-> session[b], amount |-> x,
         seen |-> 0] \in Request
    BY <1>5 DEF PlaceBetPage, RequireUser, Registered, Request, Op
  <2> QED BY <1>5, <2>1, StartType DEF PlaceBetPage, TypeOK, tables, history
<1>6. ASSUME NEW b \in Browser, NEW x \in Amount, NEW j \in Id,
             BuyListingPage(b, j, x)
      PROVE  TypeOK'
  <2>1. [op |-> "buy", id |-> session[b], to |-> j, amount |-> x, seen |-> 0]
          \in Request
    BY <1>6 DEF BuyListingPage, RequireUser, Registered, Request, Op
  <2> QED BY <1>6, <2>1, StartType DEF BuyListingPage, TypeOK, tables, history
<1>7. ASSUME NEW b \in Browser, Logout(b)
      PROVE  TypeOK'
  BY <1>7 DEF Logout, TypeOK, calls, history
<1>8. ASSUME NEW b \in Browser, PromoteToAdmin(b)
      PROVE  TypeOK'
  <2>1. \A i \in FindAccountByEmail(request[b].to) :
          [accounts[i] EXCEPT !.admin = TRUE] \in Account
    BY DEF FindAccountByEmail, Registered, TypeOK, Account
  <2>2. accounts' \in [Id -> Account \cup {NoRow}]
    BY <1>8, <2>1 DEF PromoteToAdmin, TypeOK
  <2> QED BY <1>8, <2>2, EndType DEF PromoteToAdmin, TypeOK, history
<1>9. ASSUME NEW b \in Browser, GetUser(b)
      PROVE  TypeOK'
  <2>1. CASE End(b)
    BY <1>9, <2>1, EndType DEF GetUser, TypeOK, tables, history
  <2>2. CASE ~End(b)
    <3>1. request[b] \in Request
      BY <1>9 DEF GetUser, PostsFit, Underway, Backed
    <3>2. request[b].id \in Id /\ balance[request[b].id] \in Nat
      BY <1>9, <2>2, <3>1 DEF GetUser, Request, TypeOK
    <3>3. [request[b] EXCEPT !.seen = balance[request[b].id]] \in Request
      BY <3>1, <3>2 DEF Request
    <3>4. /\ step' = [step EXCEPT ![b] = "sent"]
          /\ request' = [request EXCEPT ![b].seen = balance[request[b].id]]
      BY <1>9, <2>2 DEF GetUser
    <3>5. request' \in [Browser -> Request \cup {NoRequest}]
      BY <3>3, <3>4 DEF TypeOK
    <3> QED BY <1>9, <3>4, <3>5 DEF GetUser, TypeOK, tables, history
  <2> QED BY <2>1, <2>2
<1>10. ASSUME NEW b \in Browser, Serve(b)
       PROVE  TypeOK'
  <2>1. Backed(request[b]) /\ request[b] \in Request /\ request[b].op # "promote"
    BY <1>10 DEF Serve, PostsFit, Underway, Backed
  <2>2. /\ balance' \in [Id -> Nat \cup {NoRow}]
        /\ booked' \in [Id -> Int]
        /\ overlapped' \subseteq Id
    BY <1>10, <2>1, PerformType DEF Serve
  <2> QED BY <1>10, <2>2 DEF Serve, TypeOK
<1>11. ASSUME NEW b \in Browser, Refuse(b)
       PROVE  TypeOK'
  BY <1>11, EndType DEF Refuse, TypeOK, tables, history
<1>12. ASSUME NEW b \in Browser, Answer(b)
       PROVE  TypeOK'
  <2>1. request[b].id \in Id
    BY <1>12 DEF Answer, PostsFit, Underway, Backed, Registered
  <2> QED BY <1>12, <2>1, EndType DEF Answer, TypeOK, history
<1>13. ASSUME NEW b \in Browser, GiveUp(b)
       PROVE  TypeOK'
  <2>1. step[b] # "idle" => request[b] \in Request
    BY DEF PostsFit, Underway, Backed
  <2>2. late' \subseteq Request
    BY <1>13, <2>1 DEF GiveUp, Abandon, Idle, TypeOK
  <2> QED BY <1>13, <2>2, EndType DEF GiveUp, TypeOK, tables, history
<1>14. ASSUME NEW r \in late, ServeLate(r)
       PROVE  TypeOK'
  <2>1. Backed(r) /\ r \in Request /\ r.op # "promote"
    BY DEF LateFit, Backed
  <2>2. /\ balance' \in [Id -> Nat \cup {NoRow}]
        /\ booked' \in [Id -> Int]
        /\ overlapped' \subseteq Id
    <3>1. CASE Accepted(r)
      BY <1>14, <2>1, <3>1, PerformType DEF ServeLate
    <3>2. CASE ~Accepted(r)
      BY <1>14, <3>2 DEF ServeLate, TypeOK, history
    <3> QED BY <3>1, <3>2
  <2> QED BY <1>14, <2>2 DEF ServeLate, TypeOK
<1>15. ASSUME NEW i \in Id, NEW x \in Amount, Payout(i, x)
       PROVE  TypeOK'
  <2>1. x \in Nat /\ balance[i] \in Nat
    BY <1>15, AmountAssumption DEF Payout, TypeOK
  <2>2. balance' \in [Id -> Nat \cup {NoRow}]
    BY <1>15, <2>1 DEF Payout, TypeOK
  <2>3. booked' \in [Id -> Int] /\ overlapped' \subseteq Id
    BY <1>15, <2>1 DEF Payout, Follow, TypeOK
  <2> QED BY <1>15, <2>2, <2>3 DEF Payout, TypeOK, calls
<1>16. CASE UNCHANGED vars
  BY <1>16 DEF TypeOK, vars
<1> QED BY <1>1, <1>2, <1>3, <1>4, <1>5, <1>6, <1>7, <1>8, <1>9, <1>10, <1>11,
           <1>12, <1>13, <1>14, <1>15, <1>16 DEF Next

-----------------------------------------------------------------------------
(* How the two tables change *)

\* Only a registration and a promotion write the accounts table.
LEMMA AccountsStep ==
  ASSUME [Next]_vars
  PROVE  \/ accounts' = accounts
         \/ \E b \in Browser, s \in Spelling, i \in Id : Register(b, s, i)
         \/ \E b \in Browser : PromoteToAdmin(b)
BY DEF Next, Login, AdminPromoteUser, Deposit, PlaceBetPage, BuyListingPage, Logout,
       GetUser, Serve, Refuse, Answer, GiveUp, ServeLate, Payout, tables, vars

\* A row of the accounts table is written again only to make it an admin's.
LEMMA RowsStep ==
  ASSUME TypeOK, [Next]_vars, NEW i \in Registered
  PROVE  /\ accounts[i] \in Account
         /\ \/ accounts'[i] = accounts[i]
            \/ accounts'[i] = [accounts[i] EXCEPT !.admin = TRUE]
<1>1. i \in Id /\ accounts[i] \in Account /\ accounts[i] # NoRow
  BY DEF Registered, TypeOK
<1>2. ASSUME NEW b \in Browser, NEW s \in Spelling, NEW j \in Id, Register(b, s, j)
      PROVE  accounts'[i] = accounts[i]
  BY <1>1, <1>2 DEF Register, Unused, InsertAccount, TypeOK
<1>3. ASSUME NEW b \in Browser, PromoteToAdmin(b)
      PROVE  \/ accounts'[i] = accounts[i]
             \/ accounts'[i] = [accounts[i] EXCEPT !.admin = TRUE]
  BY <1>1, <1>3 DEF PromoteToAdmin
<1> QED BY <1>1, <1>2, <1>3, AccountsStep

\* No account goes away, and an address, once stored, stays.
LEMMA AccountsGrow ==
  ASSUME TypeOK, [Next]_vars
  PROVE  \A i \in Registered : i \in Registered' /\ accounts'[i].email = accounts[i].email
<1> SUFFICES ASSUME NEW i \in Registered
             PROVE  i \in Registered' /\ accounts'[i].email = accounts[i].email
  OBVIOUS
<1>1. accounts'[i] # NoRow /\ accounts'[i].email = accounts[i].email
  <2>1. /\ accounts[i] \in Account
        /\ \/ accounts'[i] = accounts[i]
           \/ accounts'[i] = [accounts[i] EXCEPT !.admin = TRUE]
    BY RowsStep
  <2>2. accounts'[i] \in Account /\ accounts'[i].email = accounts[i].email
    BY <2>1 DEF Account
  <2>3. NoRow \notin Account
    BY NoRowAssumption DEF Account
  <2> QED BY <2>2, <2>3
<1>2. i \in Registered'
  BY <1>1 DEF Registered
<1> QED BY <1>1, <1>2

\* No admin is demoted.
LEMMA AdminsStay ==
  ASSUME TypeOK, [Next]_vars, NEW i \in Registered, accounts[i].admin
  PROVE  accounts'[i].admin
BY RowsStep DEF Account

\* No user goes away, and a new one is the user of an account.
LEMMA UsersStep ==
  ASSUME TypeOK, PostsFit, LateFit, [Next]_vars
  PROVE  \A i \in Id :
           /\ balance[i] # NoRow => balance'[i] # NoRow
           /\ balance'[i] # NoRow => balance[i] # NoRow \/ i \in Registered
<1> DEFINE Goal == \A i \in Id :
                     /\ balance[i] # NoRow => balance'[i] # NoRow
                     /\ balance'[i] # NoRow => balance[i] # NoRow \/ i \in Registered
<1>1. ASSUME NEW r \in Request, Backed(r), r.op # "promote", Accepted(r),
             balance' = After(r)
      PROVE  Goal
  <2>1. r.id \in Registered
    BY <1>1 DEF Backed
  <2> QED BY <1>1, <2>1, AfterType
<1>2. ASSUME NEW b \in Browser, Serve(b)
      PROVE  Goal
  <2>1. Backed(request[b]) /\ request[b] \in Request /\ request[b].op # "promote"
    BY <1>2 DEF Serve, PostsFit, Underway, Backed
  <2> QED BY <1>1, <1>2, <2>1 DEF Serve, Perform
<1>3. ASSUME NEW r \in late, ServeLate(r)
      PROVE  Goal
  <2>1. Backed(r) /\ r \in Request /\ r.op # "promote"
    BY DEF LateFit, Backed
  <2>2. CASE Accepted(r)
    BY <1>1, <1>3, <2>1, <2>2 DEF ServeLate, Perform
  <2>3. CASE ~Accepted(r)
    BY <1>3, <2>3 DEF ServeLate
  <2> QED BY <2>2, <2>3
<1>4. ASSUME NEW i \in Id, NEW x \in Amount, Payout(i, x)
      PROVE  Goal
  <2>1. /\ balance[i] \in Nat /\ x \in Nat /\ balance[i] + x # NoRow
    BY <1>4, AmountAssumption, NoRowAssumption DEF Payout, TypeOK
  <2>2. balance' = [balance EXCEPT ![i] = @ + x]
    BY <1>4 DEF Payout
  <2> QED BY <1>4, <2>1, <2>2 DEF Payout, TypeOK
<1>5. ASSUME ~ \E b \in Browser : Serve(b),
             ~ \E r \in late : ServeLate(r),
             ~ \E i \in Id, x \in Amount : Payout(i, x)
      PROVE  balance' = balance
  BY <1>5 DEF Next, Register, Login, AdminPromoteUser, PromoteToAdmin, Deposit,
              PlaceBetPage, BuyListingPage, Logout, GetUser, Refuse, Answer, GiveUp,
              tables, vars
<1> QED BY <1>2, <1>3, <1>4, <1>5

\* A request once well made stays so.
LEMMA BackedKept ==
  ASSUME TypeOK, PostsFit, LateFit, [Next]_vars
  PROVE  \A r \in Request : Backed(r) => Backed(r)'
<1> SUFFICES ASSUME NEW r \in Request, Backed(r)
             PROVE  /\ r.id \in Registered'
                    /\ r.op # "promote" => r.to \in Id
                    /\ r.op = "buy" => balance'[r.to] # NoRow
  BY DEF Backed
<1>1. r.id \in Registered'
  <2>1. r.id \in Registered
    BY DEF Backed
  <2> QED BY <2>1, AccountsGrow
<1>2. r.op = "buy" => r.to \in Id /\ balance[r.to] # NoRow
  BY DEF Backed, Request
<1>3. \A j \in Id : balance[j] # NoRow => balance'[j] # NoRow
  BY UsersStep
<1> QED BY <1>1, <1>2, <1>3 DEF Backed

-----------------------------------------------------------------------------
(* The invariants *)

\* Nobody shares an address: a registration is refused when the normalised
\* address is in the table, and it is stored normalised.
LEMMA AddressesStep ==
  ASSUME TypeOK, AddressesNormal, AddressesAreDistinct, [Next]_vars
  PROVE  AddressesNormal' /\ AddressesAreDistinct'
<1>1. ASSUME NEW b \in Browser, NEW s \in Spelling, NEW i \in Id, Register(b, s, i)
      PROVE  AddressesNormal' /\ AddressesAreDistinct'
  <2>1. /\ accounts' = [accounts EXCEPT ![i] = [email |-> norm[s],
                                               admin |-> IsInitialAdmin(s)]]
        /\ \A j \in Registered : accounts[j].email # norm[s]
    BY <1>1 DEF Register, InsertAccount, Stored, Taken
  <2>2. /\ Registered' \subseteq Registered \cup {i}
        /\ i \in Id
        /\ accounts'[i].email = norm[s]
        /\ \A j \in Registered \ {i} : accounts'[j] = accounts[j]
    BY <2>1 DEF Registered, TypeOK
  <2>3. i \notin Registered
    BY <1>1 DEF Register, Unused, Registered
  <2>4. norm[norm[s]] = norm[s]
    BY NormAssumption
  <2>5. \A j \in Registered' :
          norm[accounts'[j].email] = accounts'[j].email
    BY <2>2, <2>3, <2>4 DEF AddressesNormal
  <2>6. \A j, k \in Registered' : accounts'[j].email = accounts'[k].email => j = k
    BY <2>1, <2>2, <2>3 DEF AddressesNormal, AddressesAreDistinct
  <2> QED BY <2>5, <2>6 DEF AddressesNormal, AddressesAreDistinct
<1>2. ASSUME \/ accounts' = accounts
             \/ \E b \in Browser : PromoteToAdmin(b)
      PROVE  AddressesNormal' /\ AddressesAreDistinct'
  <2>1. Registered' \subseteq Registered
    BY <1>2 DEF Registered, PromoteToAdmin, FindAccountByEmail
  <2>2. \A j \in Registered' : accounts'[j].email = accounts[j].email
    BY <2>1, AccountsGrow
  <2> QED BY <2>1, <2>2 DEF AddressesNormal, AddressesAreDistinct
<1> QED BY <1>1, <1>2, AccountsStep

\* INITIAL_ADMIN_EMAIL is read, never written.
LEMMA BootstrapFixed == [Next]_vars => initialAdminEmail' = initialAdminEmail
BY DEF Next, Register, Login, AdminPromoteUser, PromoteToAdmin, Deposit, PlaceBetPage,
       BuyListingPage, Logout, GetUser, Serve, Refuse, Answer, GiveUp, ServeLate,
       Payout, tables, vars

\* The first admin is the one of the bootstrap, since a promotion needs another.
LEMMA TraceStep ==
  ASSUME TypeOK, PostsFit, PromotersAreAdmins, AdminsTraceToBootstrap, [Next]_vars
  PROVE  AdminsTraceToBootstrap'
<1>1. CASE \E i \in Registered : accounts[i].admin
  <2>1. PICK k \in Registered : accounts[k].email = initialAdminEmail /\ accounts[k].admin
    BY <1>1 DEF AdminsTraceToBootstrap
  <2>2. k \in Registered' /\ accounts'[k].email = initialAdminEmail
    BY <2>1, AccountsGrow
  <2>3. accounts'[k].admin
    BY <2>1, AdminsStay
  <2> QED BY <2>2, <2>3, BootstrapFixed DEF AdminsTraceToBootstrap
<1>2. CASE ~ \E i \in Registered : accounts[i].admin
  <2>1. ASSUME NEW b \in Browser, PromoteToAdmin(b)
        PROVE  FALSE
    <3>1. request[b].id \in Registered
      BY <2>1 DEF PromoteToAdmin, PostsFit, Underway, Backed
    <3>2. accounts[request[b].id].admin
      BY <2>1 DEF PromoteToAdmin, PromotersAreAdmins
    <3> QED BY <1>2, <3>1, <3>2
  <2>2. ASSUME NEW b \in Browser, NEW s \in Spelling, NEW i \in Id, Register(b, s, i),
               NEW k \in Registered', accounts'[k].admin
        PROVE  accounts'[i].email = initialAdminEmail /\ accounts'[i].admin /\ k = i
    <3>1. accounts' = [accounts EXCEPT ![i] = [email |-> norm[s],
                                              admin |-> IsInitialAdmin(s)]]
      BY <2>2 DEF Register, InsertAccount, Stored
    <3>2. k = i
      <4>1. CASE k # i
        <5>1. accounts'[k] = accounts[k] /\ k \in Registered
          BY <3>1, <4>1 DEF Registered, TypeOK
        <5> QED BY <1>2, <2>2, <5>1
      <4> QED BY <4>1
    <3>3. accounts'[i] = [email |-> norm[s], admin |-> IsInitialAdmin(s)]
      BY <3>1 DEF TypeOK
    <3>4. accounts'[i].email = norm[s] /\ accounts'[i].admin = IsInitialAdmin(s)
      BY <3>3
    <3>5. IsInitialAdmin(s)
      BY <2>2, <3>2, <3>4 DEF IsInitialAdmin
    <3> QED BY <2>2, <3>2, <3>4, <3>5 DEF IsInitialAdmin
  <2>3. CASE accounts' = accounts
    BY <1>2, <2>3 DEF AdminsTraceToBootstrap, Registered
  <2>4. CASE \E b \in Browser, s \in Spelling, i \in Id : Register(b, s, i)
    <3>1. PICK b \in Browser, s \in Spelling, i \in Id : Register(b, s, i)
      BY <2>4
    <3> QED BY <2>2, <3>1, BootstrapFixed DEF AdminsTraceToBootstrap
  <2> QED BY <2>1, <2>3, <2>4, AccountsStep
<1> QED BY <1>1, <1>2

\* What a step does to the post of a browser: it goes on, or it is a new one.
LEMMA PostStep ==
  ASSUME TypeOK, PostsFit, [Next]_vars, NEW c \in Browser, step'[c] # "idle"
  PROVE  \/ /\ Underway(c)
            /\ request'[c] = request[c]
            /\ step'[c] = "promote" <=> step[c] = "promote"
         \/ /\ step[c] = "read" /\ step'[c] = "sent"
            /\ balance[request[c].id] \in Nat
            /\ request'[c] = [request[c] EXCEPT !.seen = balance[request[c].id]]
         \/ \E s \in Spelling, i \in Id : Register(c, s, i)
         \/ \E s \in Spelling : AdminPromoteUser(c, s)
         \/ \E x \in Amount : Deposit(c, x) \/ PlaceBetPage(c, x)
         \/ \E x \in Amount, i \in Id : BuyListingPage(c, i, x)
<1> DEFINE Same == /\ Underway(c)
                   /\ request'[c] = request[c]
                   /\ step'[c] = "promote" <=> step[c] = "promote"
<1>1. ASSUME NEW b \in Browser,
             NEW w \in {"read", "sent", "promote"}, NEW r, Start(b, w, r), b # c
      PROVE  Same
  BY <1>1 DEF Start, TypeOK, Underway
<1>2. ASSUME NEW b \in Browser, End(b)
      PROVE  Same
  BY <1>2 DEF End, TypeOK, Underway
<1>3. ASSUME NEW b \in Browser, Serve(b)
      PROVE  Same
  BY <1>3 DEF Serve, TypeOK, Underway
<1>4. ASSUME step' = step, request' = request
      PROVE  Same
  BY <1>4 DEF Underway
<1>5. ASSUME NEW b \in Browser, GetUser(b)
      PROVE  \/ Same
             \/ /\ step[c] = "read" /\ step'[c] = "sent"
                /\ balance[request[c].id] \in Nat
                /\ request'[c] = [request[c] EXCEPT !.seen = balance[request[c].id]]
  <2>1. CASE End(b)
    BY <1>2, <2>1
  <2>2. CASE ~End(b) /\ b # c
    BY <1>5, <2>2 DEF GetUser, TypeOK, Underway
  <2>3. CASE ~End(b) /\ b = c
    <3>1. request[c] \in Request
      BY <1>5, <2>3 DEF GetUser, PostsFit, Underway, Backed
    <3>2. balance[request[c].id] \in Nat
      BY <1>5, <2>3, <3>1 DEF GetUser, TypeOK, Request
    <3> QED BY <1>5, <2>3, <3>2 DEF GetUser, TypeOK
  <2> QED BY <2>1, <2>2, <2>3
<1> HIDE DEF Same
<1>6. ASSUME NEW b \in Browser, b # c,
             \/ \E s \in Spelling, i \in Id : Register(b, s, i)
             \/ \E s \in Spelling : AdminPromoteUser(b, s)
             \/ \E x \in Amount : Deposit(b, x) \/ PlaceBetPage(b, x)
             \/ \E x \in Amount, i \in Id : BuyListingPage(b, i, x)
      PROVE  Same
  BY <1>1, <1>6 DEF Register, AdminPromoteUser, Deposit, PlaceBetPage, BuyListingPage
<1>7. ASSUME NEW b \in Browser,
             \/ PromoteToAdmin(b) \/ Refuse(b) \/ Answer(b) \/ GiveUp(b)
      PROVE  Same
  BY <1>2, <1>7 DEF PromoteToAdmin, Refuse, Answer, GiveUp
<1>8. ASSUME \/ \E b \in Browser, s \in Spelling : Login(b, s)
             \/ \E b \in Browser : Logout(b)
             \/ \E r \in late : ServeLate(r)
             \/ \E i \in Id, x \in Amount : Payout(i, x)
             \/ UNCHANGED vars
      PROVE  Same
  BY <1>4, <1>8 DEF Login, Logout, ServeLate, Payout, calls, vars
<1> QED BY <1>3, <1>5, <1>6, <1>7, <1>8 DEF Next, Same

\* A new post is for the account of a session, or for the account it registers.
LEMMA NewPostFits ==
  ASSUME TypeOK, PostsFit, LateFit, [Next]_vars, NEW c \in Browser,
         \/ \E s \in Spelling, i \in Id : Register(c, s, i)
         \/ \E s \in Spelling : AdminPromoteUser(c, s)
         \/ \E x \in Amount : Deposit(c, x) \/ PlaceBetPage(c, x)
         \/ \E x \in Amount, i \in Id : BuyListingPage(c, i, x)
  PROVE  /\ request'[c] \in Request
         /\ request'[c].id \in Registered'
         /\ request'[c].op # "promote" => request'[c].to \in Id
         /\ request'[c].op = "buy" => balance'[request'[c].to] # NoRow
         /\ step'[c] = "promote" <=> request'[c].op = "promote"
<1> DEFINE Goal == /\ request'[c] \in Request
                   /\ request'[c].id \in Registered'
                   /\ request'[c].op # "promote" => request'[c].to \in Id
                   /\ request'[c].op = "buy" => balance'[request'[c].to] # NoRow
                   /\ step'[c] = "promote" <=> request'[c].op = "promote"
<1>1. ASSUME NEW s \in Spelling, NEW i \in Id, Register(c, s, i)
      PROVE  Goal
  <2>1. request'[c] = Provision(i) /\ step'[c] = "sent"
    BY <1>1 DEF Register, Start, TypeOK
  <2>2. [email |-> Stored(s), admin |-> IsInitialAdmin(s)] # NoRow
    <3>1. [email |-> Stored(s), admin |-> IsInitialAdmin(s)] \in Account
      BY NormAssumption DEF Stored, IsInitialAdmin, Account
    <3>2. NoRow \notin Account
      BY NoRowAssumption DEF Account
    <3> QED BY <3>1, <3>2
  <2>3. i \in Registered'
    BY <1>1, <2>2 DEF Register, InsertAccount, Registered, TypeOK
  <2> QED BY <2>1, <2>3 DEF Provision, Request, Op
<1>2. ASSUME NEW s \in Spelling, AdminPromoteUser(c, s)
      PROVE  Goal
  <2>1. session[c] \in Registered' /\ session[c] \in Id
    <3>1. session[c] \in Registered
      BY <1>2 DEF AdminPromoteUser, RequireAdmin, RequireUser
    <3> QED BY <3>1, AccountsGrow DEF Registered
  <2>2. /\ step'[c] = "promote"
        /\ request'[c] = [op |-> "promote", id |-> session[c], to |-> s,
                          amount |-> 0, seen |-> 0]
    BY <1>2 DEF AdminPromoteUser, Start, TypeOK
  <2> QED BY <2>1, <2>2 DEF Request, Op
<1>3. ASSUME NEW x \in Amount, Deposit(c, x)
      PROVE  Goal
  <2>1. session[c] \in Registered' /\ session[c] \in Id
    <3>1. session[c] \in Registered
      BY <1>3 DEF Deposit, RequireUser
    <3> QED BY <3>1, AccountsGrow DEF Registered
  <2>2. /\ step'[c] = "read"
        /\ request'[c] = [op |-> "deposit", id |-> session[c], to |-> session[c],
                          amount |-> x, seen |-> 0]
    BY <1>3 DEF Deposit, Start, TypeOK
  <2> QED BY <2>1, <2>2 DEF Request, Op
<1>4. ASSUME NEW x \in Amount, PlaceBetPage(c, x)
      PROVE  Goal
  <2>1. session[c] \in Registered' /\ session[c] \in Id
    <3>1. session[c] \in Registered
      BY <1>4 DEF PlaceBetPage, RequireUser
    <3> QED BY <3>1, AccountsGrow DEF Registered
  <2>2. /\ step'[c] = "sent"
        /\ request'[c] = [op |-> "bet", id |-> session[c], to |-> session[c],
                          amount |-> x, seen |-> 0]
    BY <1>4 DEF PlaceBetPage, Start, TypeOK
  <2> QED BY <2>1, <2>2 DEF Request, Op
<1>5. ASSUME NEW x \in Amount, NEW i \in Id, BuyListingPage(c, i, x)
      PROVE  Goal
  <2>1. session[c] \in Registered' /\ session[c] \in Id
    <3>1. session[c] \in Registered
      BY <1>5 DEF BuyListingPage, RequireUser
    <3> QED BY <3>1, AccountsGrow DEF Registered
  <2>2. /\ step'[c] = "sent"
        /\ request'[c] = [op |-> "buy", id |-> session[c], to |-> i,
                          amount |-> x, seen |-> 0]
    BY <1>5 DEF BuyListingPage, Start, TypeOK
  <2>3. balance'[i] # NoRow
    BY <1>5, UsersStep DEF BuyListingPage
  <2> QED BY <2>1, <2>2, <2>3 DEF Request, Op
<1> QED BY <1>1, <1>2, <1>3, <1>4, <1>5

\* Requests stay well made while they are under way.
LEMMA PostsFitStep ==
  ASSUME TypeOK, PostsFit, LateFit, [Next]_vars
  PROVE  PostsFit'
<1> SUFFICES ASSUME NEW c \in Browser, step'[c] # "idle"
             PROVE  /\ Backed(request[c])'
                    /\ step'[c] = "promote" <=> request'[c].op = "promote"
  BY DEF PostsFit, Underway
<1>1. ASSUME Underway(c)
      PROVE  /\ request[c] \in Request
             /\ request[c].id \in Registered'
             /\ request[c].op # "promote" => request[c].to \in Id
             /\ request[c].op = "buy" => balance'[request[c].to] # NoRow
             /\ step[c] = "promote" <=> request[c].op = "promote"
  <2>1. PICK q \in Request : q = request[c]
    BY <1>1 DEF PostsFit, Backed
  <2>2. Backed(q) /\ (step[c] = "promote" <=> q.op = "promote")
    BY <1>1, <2>1 DEF PostsFit
  <2>3. Backed(q)'
    BY <2>2, BackedKept
  <2> QED BY <2>1, <2>2, <2>3 DEF Backed
<1>2. CASE /\ Underway(c)
           /\ request'[c] = request[c]
           /\ step'[c] = "promote" <=> step[c] = "promote"
  BY <1>1, <1>2 DEF Backed
<1>3. CASE /\ step[c] = "read" /\ step'[c] = "sent"
           /\ balance[request[c].id] \in Nat
           /\ request'[c] = [request[c] EXCEPT !.seen = balance[request[c].id]]
  <2>1. /\ request[c] \in Request
        /\ request[c].id \in Registered'
        /\ request[c].op # "promote" /\ request[c].to \in Id
        /\ request[c].op = "buy" => balance'[request[c].to] # NoRow
    BY <1>1, <1>3 DEF Underway
  <2>2. /\ request'[c] \in Request
        /\ request'[c].id = request[c].id
        /\ request'[c].op = request[c].op
        /\ request'[c].to = request[c].to
    BY <1>3, <2>1 DEF Request
  <2> QED BY <1>3, <2>1, <2>2 DEF Backed
<1>4. CASE \/ \E s \in Spelling, i \in Id : Register(c, s, i)
           \/ \E s \in Spelling : AdminPromoteUser(c, s)
           \/ \E x \in Amount : Deposit(c, x) \/ PlaceBetPage(c, x)
           \/ \E x \in Amount, i \in Id : BuyListingPage(c, i, x)
  BY <1>4, NewPostFits DEF Backed
<1> QED BY <1>2, <1>3, <1>4, PostStep

\* So do those whose handler has given up.
LEMMA LateFitStep ==
  ASSUME TypeOK, PostsFit, LateFit, [Next]_vars
  PROVE  LateFit'
<1> SUFFICES ASSUME NEW r \in late'
             PROVE  Backed(r)' /\ r.op # "promote"
  BY DEF LateFit
<1>1. CASE r \in late
  <2>1. r \in Request /\ Backed(r) /\ r.op # "promote"
    BY <1>1 DEF LateFit, Backed
  <2> QED BY <2>1, BackedKept
<1>2. ASSUME NEW b \in Browser, GiveUp(b), r \notin late
      PROVE  Backed(r)' /\ r.op # "promote"
  <2>1. r = request[b] /\ step[b] = "sent"
    BY <1>2 DEF GiveUp, Abandon
  <2>2. r \in Request /\ Backed(r) /\ r.op # "promote"
    BY <2>1 DEF PostsFit, Underway, Backed
  <2> QED BY <2>2, BackedKept
<1>3. ASSUME ~ \E b \in Browser : GiveUp(b)
      PROVE  r \in late
  BY <1>3 DEF Next, Register, Login, AdminPromoteUser, PromoteToAdmin, Deposit,
              PlaceBetPage, BuyListingPage, Logout, GetUser, Serve, Refuse, Answer,
              ServeLate, Payout, Start, calls, vars
<1> QED BY <1>1, <1>2, <1>3

\* Nobody is demoted between RequireAdmin and the update.
LEMMA PromotersStep ==
  ASSUME TypeOK, PostsFit, PromotersAreAdmins, [Next]_vars
  PROVE  PromotersAreAdmins'
<1> SUFFICES ASSUME NEW c \in Browser, step'[c] = "promote"
             PROVE  accounts'[request'[c].id].admin
  BY DEF PromotersAreAdmins
<1>1. CASE Underway(c) /\ request'[c] = request[c] /\ step[c] = "promote"
  <2>1. request[c].id \in Registered /\ accounts[request[c].id].admin
    BY <1>1 DEF PostsFit, PromotersAreAdmins, Backed
  <2> QED BY <1>1, <2>1, AdminsStay
<1>2. ASSUME NEW s \in Spelling, AdminPromoteUser(c, s)
      PROVE  accounts'[request'[c].id].admin
  <2>1. accounts[session[c]].admin /\ accounts' = accounts
    BY <1>2 DEF AdminPromoteUser, RequireAdmin, tables
  <2>2. request'[c].id = session[c]
    BY <1>2 DEF AdminPromoteUser, Start, TypeOK
  <2> QED BY <2>1, <2>2
<1>3. \/ Underway(c) /\ request'[c] = request[c] /\ step[c] = "promote"
      \/ \E s \in Spelling : AdminPromoteUser(c, s)
  BY PostStep DEF Register, Deposit, PlaceBetPage, BuyListingPage, Start, TypeOK
<1> QED BY <1>1, <1>2, <1>3

\* A user is made for an account only.
LEMMA UsersHaveAccountsStep ==
  ASSUME TypeOK, PostsFit, LateFit, UsersHaveAccounts, [Next]_vars
  PROVE  UsersHaveAccounts'
BY UsersStep, AccountsGrow DEF UsersHaveAccounts

\* SyncUser makes the user, and no user goes away.
LEMMA AnsweredStep ==
  ASSUME TypeOK, PostsFit, LateFit, AnsweredAreProvisioned, [Next]_vars
  PROVE  AnsweredAreProvisioned'
<1> SUFFICES ASSUME NEW c \in Browser, step'[c] = "answered",
                    request'[c].op = "register"
             PROVE  balance'[request'[c].id] # NoRow
  BY DEF AnsweredAreProvisioned
<1>1. CASE step[c] = "answered" /\ request'[c] = request[c]
  <2>1. request[c].id \in Id /\ balance[request[c].id] # NoRow
    BY <1>1 DEF PostsFit, Underway, Backed, Registered, AnsweredAreProvisioned
  <2> QED BY <1>1, <2>1, UsersStep
<1>2. ASSUME Serve(c)
      PROVE  balance'[request'[c].id] # NoRow
  <2>1. request[c].id \in Id /\ request'[c] = request[c]
    BY <1>2 DEF Serve, PostsFit, Underway, Backed, Registered
  <2>2. balance' = [balance EXCEPT ![request[c].id] = 0]
    BY <1>2, <2>1 DEF Serve, Perform, After
  <2>3. balance'[request[c].id] = 0
    BY <2>1, <2>2 DEF TypeOK
  <2> QED BY <2>1, <2>3, NoRowAssumption
<1>3. ASSUME step[c] # "answered"
      PROVE  Serve(c)
  <2>1. ASSUME NEW b \in Browser, End(b)
        PROVE  FALSE
    BY <1>3, <2>1 DEF End, TypeOK
  <2>2. ASSUME NEW b \in Browser, NEW w \in {"read", "sent", "promote"}, NEW r,
               Start(b, w, r)
        PROVE  FALSE
    BY <1>3, <2>2 DEF Start, TypeOK
  <2>3. ASSUME NEW b \in Browser, GetUser(b)
        PROVE  FALSE
    BY <1>3, <2>1, <2>3 DEF GetUser, TypeOK
  <2>4. ASSUME NEW b \in Browser,
               \/ \E s \in Spelling, i \in Id : Register(b, s, i)
               \/ \E s \in Spelling : AdminPromoteUser(b, s)
               \/ \E x \in Amount : Deposit(b, x) \/ PlaceBetPage(b, x)
               \/ \E x \in Amount, i \in Id : BuyListingPage(b, i, x)
        PROVE  FALSE
    BY <2>2, <2>4 DEF Register, AdminPromoteUser, Deposit, PlaceBetPage, BuyListingPage
  <2>5. ASSUME NEW b \in Browser,
               PromoteToAdmin(b) \/ Refuse(b) \/ Answer(b) \/ GiveUp(b)
        PROVE  FALSE
    BY <2>1, <2>5 DEF PromoteToAdmin, Refuse, Answer, GiveUp
  <2>6. ASSUME \/ \E b \in Browser, s \in Spelling : Login(b, s)
               \/ \E b \in Browser : Logout(b)
               \/ \E r \in late : ServeLate(r)
               \/ \E i \in Id, x \in Amount : Payout(i, x)
               \/ UNCHANGED vars
        PROVE  FALSE
    BY <1>3, <2>6 DEF Login, Logout, ServeLate, Payout, calls, vars
  <2>7. PICK b \in Browser : Serve(b)
    BY <2>3, <2>4, <2>5, <2>6 DEF Next
  <2>8. b = c
    BY <1>3, <2>7 DEF Serve, TypeOK
  <2> QED BY <2>7, <2>8
<1>4. ASSUME step[c] = "answered"
      PROVE  request'[c] = request[c]
  BY <1>4, PostStep
     DEF Register, AdminPromoteUser, Deposit, PlaceBetPage, BuyListingPage, Idle,
         RequireUser, RequireAdmin
<1> QED BY <1>1, <1>2, <1>3, <1>4

-----------------------------------------------------------------------------
(* Theorems *)

\* The parts of the invariant hold together in every reachable state.
LEMMA IInvInvariant == Spec => []IInv
<1>1. Init => IInv
  BY DEF Init, IInv, TypeOK, PostsFit, LateFit, AddressesNormal, AddressesAreDistinct,
         PromotersAreAdmins, AnsweredAreProvisioned, AdminsTraceToBootstrap, UsersHaveAccounts, Registered,
         Underway
<1>2. IInv /\ [Next]_vars => IInv'
  BY TypeStep, PostsFitStep, LateFitStep, AddressesStep, PromotersStep, AnsweredStep,
     TraceStep, UsersHaveAccountsStep DEF IInv
<1> QED BY <1>1, <1>2, PTL DEF Spec

\* Every variable has its type in every reachable state: no stake or price, however
\* late its request arrives, leaves a negative balance.
THEOREM TypeCorrect == Spec => []TypeOK
<1>1. IInv => TypeOK
  BY DEF IInv
<1> QED BY <1>1, IInvInvariant, PTL

\* Whenever there is an admin, the account of INITIAL_ADMIN_EMAIL is one; without
\* that address there is never any.
THEOREM AdminsAlwaysTraceToBootstrap == Spec => []AdminsTraceToBootstrap
<1>1. IInv => AdminsTraceToBootstrap
  BY DEF IInv
<1> QED BY <1>1, IInvInvariant, PTL

\* No two accounts share an address, whatever its spellings.
THEOREM AddressesAlwaysDistinct == Spec => []AddressesAreDistinct
<1>1. IInv => AddressesAreDistinct
  BY DEF IInv
<1> QED BY <1>1, IInvInvariant, PTL

\* bet-backend never holds a user without an account.
THEOREM UsersAlwaysHaveAccounts == Spec => []UsersHaveAccounts
<1>1. IInv => UsersHaveAccounts
  BY DEF IInv
<1> QED BY <1>1, IInvInvariant, PTL

\* What changes a cookie, other than a login and a logout.
LEMMA CookieStep ==
  ASSUME IInv, [Next]_vars, NEW c \in Browser, session'[c] # session[c], ~Idle(c)
  PROVE  balance[session'[c]] # NoRow
<1>1. ASSUME NEW b \in Browser, Answer(b)
      PROVE  balance[session'[c]] # NoRow
  <2>1. b = c /\ request[b].op = "register"
    BY <1>1 DEF Answer, IInv, TypeOK
  <2>2. session'[c] = request[c].id
    BY <1>1, <2>1 DEF Answer, IInv, TypeOK
  <2> QED BY <1>1, <2>1, <2>2 DEF Answer, IInv, AnsweredAreProvisioned
<1>2. ASSUME NEW b \in Browser, \/ \E s \in Spelling : Login(b, s)
                               \/ Logout(b)
      PROVE  FALSE
  BY <1>2 DEF Login, Logout, IInv, TypeOK
<1>3. ASSUME ~ \E b \in Browser : Answer(b)
      PROVE  \E b \in Browser : (\E s \in Spelling : Login(b, s)) \/ Logout(b)
  BY <1>3 DEF Next, Register, AdminPromoteUser, PromoteToAdmin, Deposit, PlaceBetPage,
              BuyListingPage, GetUser, Serve, Refuse, GiveUp, ServeLate, Payout,
              tables, vars
<1> QED BY <1>1, <1>2, <1>3

\* A registration that signs somebody in has made the user that can bet.
THEOREM RegistrationsProvision == Spec => RegistrationProvisions
<1> DEFINE Provisioned ==
      \A b \in Browser :
        session'[b] # session[b] /\ ~Idle(b) => balance[session'[b]] # NoRow
<1>1. IInv /\ [Next]_vars => [Provisioned]_vars
  BY CookieStep
<1> QED BY <1>1, IInvInvariant, PTL DEF Spec, RegistrationProvisions

-----------------------------------------------------------------------------
(* A balance is what its movements add up to, unless a simulated deposit was
   overlapped: the invariant that carries it through requests that land late *)

\* Only a simulated deposit reads before it writes.
ReadersDeposit == \A b \in Browser : step[b] = "read" => request[b].op = "deposit"

\* Performing r now does what it was sent for: a registration overwrites nothing,
\* and what a deposit has read is still there or the account is given up.
Timely(r) ==
  /\ r.op = "register" => balance[r.id] = NoRow
  /\ r.op = "deposit" => /\ balance[r.id] # NoRow
                         /\ r.id \notin overlapped => r.seen = balance[r.id]

SentAreTimely == \A b \in Browser : step[b] = "sent" => Timely(request[b])
LateAreTimely == \A r \in late : Timely(r)

SameProvision(r, q) == r.op = "register" /\ q.op = "register" /\ r.id = q.id

\* An account is provisioned by one request.
OneProvision ==
  /\ \A b, c \in Browser :
       step[b] = "sent" /\ step[c] = "sent" /\ SameProvision(request[b], request[c]) => b = c
  /\ \A b \in Browser, r \in late : step[b] = "sent" => ~SameProvision(request[b], r)
  /\ \A r, q \in late : SameProvision(r, q) => r = q

NothingBookedYet == \A i \in Id : balance[i] = NoRow => booked[i] = 0

LedgerInv ==
  /\ ReadersDeposit
  /\ SentAreTimely
  /\ LateAreTimely
  /\ OneProvision
  /\ NothingBookedYet
  /\ BalancesExplained

-----------------------------------------------------------------------------
(* Performing a request *)

\* A request that is performed in time moves the balance and the books alike.
LEMMA BooksFollow ==
  ASSUME TypeOK, NothingBookedYet, BalancesExplained,
         NEW r \in Request, Backed(r), r.op # "promote", Accepted(r), Timely(r),
         NEW i \in Id
  PROVE  /\ After(r)[i] = NoRow => Booking(r)[i] = 0
         /\ After(r)[i] # NoRow /\ i \notin overlapped => After(r)[i] = Booking(r)[i]
<1>1. /\ r.op \in Op /\ r.id \in Id /\ r.to \in Id /\ r.seen \in Nat /\ r.amount \in Nat
  <2>1. Amount \cup {0} \subseteq Nat
    BY AmountAssumption
  <2>2. /\ r.op \in Op /\ r.id \in Id /\ r.seen \in Nat /\ r.amount \in Amount \cup {0}
    BY DEF Request
  <2>3. r.to \in Id
    BY DEF Backed
  <2> QED BY <2>1, <2>2, <2>3
<1>2. /\ balance \in [Id -> Nat \cup {NoRow}]
      /\ booked \in [Id -> Int]
      /\ \A n \in Int : n # NoRow
  BY NoRowAssumption DEF TypeOK
<1>3. /\ balance[i] = NoRow => booked[i] = 0
      /\ balance[i] # NoRow /\ i \notin overlapped => balance[i] = booked[i]
  BY DEF NothingBookedYet, BalancesExplained
<1>4. CASE r.op = "register"
  <2>1. /\ After(r) = [balance EXCEPT ![r.id] = 0]
        /\ Booking(r) = booked
        /\ balance[r.id] = NoRow
    BY <1>4 DEF After, Booking, Timely
  <2> QED BY <1>1, <1>2, <1>3, <2>1
<1>5. CASE r.op = "deposit"
  <2>1. /\ After(r) = [balance EXCEPT ![r.id] = r.seen + r.amount]
        /\ Booking(r) = [booked EXCEPT ![r.id] = @ + r.amount]
        /\ balance[r.id] # NoRow
        /\ r.id \notin overlapped => r.seen = balance[r.id]
    BY <1>5 DEF After, Booking, Timely
  <2> QED BY <1>1, <1>2, <1>3, <2>1
<1>6. CASE r.op = "bet"
  <2>1. /\ After(r) = [balance EXCEPT ![r.id] = @ - r.amount]
        /\ Booking(r) = [booked EXCEPT ![r.id] = @ - r.amount]
        /\ balance[r.id] # NoRow
    BY <1>6 DEF After, Booking, Accepted, Debits
  <2> QED BY <1>1, <1>2, <1>3, <2>1
<1>7. CASE r.op = "buy"
  <2>1. /\ After(r) = [balance EXCEPT ![r.id] = @ - r.amount, ![r.to] = @ + r.amount]
        /\ Booking(r) = [booked EXCEPT ![r.id] = @ - r.amount, ![r.to] = @ + r.amount]
        /\ balance[r.id] \in Int /\ balance[r.to] \in Int
    BY <1>1, <1>2, <1>7 DEF After, Booking, Accepted, Debits, Backed
  <2> QED BY <1>1, <1>2, <1>3, <2>1
<1> QED BY <1>1, <1>4, <1>5, <1>6, <1>7 DEF Op

\* A request leaves the users alone that it does not name.
LEMMA AfterElsewhere ==
  ASSUME TypeOK, NEW r \in Request, r.op # "promote",
         NEW i \in Id, i # r.id, i # r.to
  PROVE  After(r)[i] = balance[i]
<1>1. r.op \in Op \ {"promote"}
  BY DEF Request
<1> QED BY <1>1 DEF After, Op, TypeOK

\* What is booked stays explained when a request is performed.
LEMMA PerformExplained ==
  ASSUME TypeOK, NothingBookedYet, BalancesExplained,
         NEW r \in Request, Backed(r), r.op # "promote", Accepted(r), Timely(r),
         NEW ids, Perform(r, ids)
  PROVE  NothingBookedYet' /\ BalancesExplained'
<1>1. /\ balance' = After(r)
      /\ overlapped' = overlapped \cup ({r.id, r.to} \cap ids)
      /\ booked' = [i \in Id |-> IF i \in overlapped' THEN 0 ELSE Booking(r)[i]]
  BY DEF Perform, Follow
<1>2. \A i \in Id : booked'[i] = IF i \in overlapped' THEN 0 ELSE Booking(r)[i]
  BY <1>1
<1>3. NothingBookedYet'
  BY <1>1, <1>2, BooksFollow DEF NothingBookedYet
<1>4. BalancesExplained'
  BY <1>1, <1>2, BooksFollow DEF BalancesExplained
<1> QED BY <1>3, <1>4

\* Another request that was in time is so after r is performed: r is not the
\* provisioning it may be, and a deposit that r overtakes is in ids.
LEMMA PerformTimely ==
  ASSUME TypeOK, NEW r \in Request, Backed(r), r.op # "promote", Accepted(r), Timely(r),
         NEW ids, Perform(r, ids),
         NEW q \in Request, Timely(q), ~SameProvision(r, q),
         q.op = "deposit" => q.id \in ids
  PROVE  Timely(q)'
<1>1. /\ q.id \in Id /\ r.id \in Id
      /\ balance' = After(r)
      /\ overlapped' = overlapped \cup ({r.id, r.to} \cap ids)
  BY DEF Request, Perform, Follow
<1>2. ASSUME q.op = "register"
      PROVE  balance'[q.id] = NoRow
  <2>1. balance[q.id] = NoRow
    BY <1>2 DEF Timely
  <2>2. q.id = r.id => r.op # "register" /\ balance[r.id] # NoRow
    <3>1. r.op \in {"register", "deposit", "bet", "buy"}
      BY DEF Request, Op
    <3> QED BY <1>2, <3>1 DEF SameProvision, Timely, Accepted, Debits
  <2> QED BY <1>1, <2>1, <2>2, AfterType
<1>3. ASSUME q.op = "deposit"
      PROVE  /\ balance'[q.id] # NoRow
             /\ q.id \notin overlapped' => q.seen = balance'[q.id]
  <2>1. /\ balance[q.id] # NoRow
        /\ q.id \notin overlapped => q.seen = balance[q.id]
        /\ q.id \in ids
    BY <1>3 DEF Timely
  <2>2. balance'[q.id] # NoRow
    BY <1>1, <2>1, AfterType
  <2>3. ASSUME q.id \notin overlapped'
        PROVE  q.id # r.id /\ q.id # r.to /\ q.id \notin overlapped
    BY <1>1, <2>1, <2>3
  <2>4. ASSUME q.id \notin overlapped'
        PROVE  q.seen = balance'[q.id]
    BY <1>1, <2>1, <2>3, <2>4, AfterElsewhere
  <2> QED BY <2>2, <2>4
<1> QED BY <1>2, <1>3 DEF Timely

-----------------------------------------------------------------------------
(* The steps *)

\* Steps that move no money and send neither registrations nor deposits.
LEMMA QuietStep ==
  ASSUME LedgerInv, UNCHANGED <<balance, booked, overlapped, late>>,
         \A c \in Browser :
           /\ step'[c] = "sent" => \/ step[c] = "sent" /\ request'[c] = request[c]
                                   \/ request'[c].op \in {"bet", "buy"}
           /\ step'[c] = "read" => request'[c].op = "deposit"
  PROVE  LedgerInv'
<1>1. ReadersDeposit'
  BY DEF ReadersDeposit
<1>2. SentAreTimely'
  BY DEF LedgerInv, SentAreTimely, Timely
<1>3. LateAreTimely'
  BY DEF LedgerInv, LateAreTimely, Timely
<1>4. OneProvision'
  BY DEF LedgerInv, OneProvision, SameProvision
<1>5. NothingBookedYet' /\ BalancesExplained'
  BY DEF LedgerInv, NothingBookedYet, BalancesExplained
<1> QED BY <1>1, <1>2, <1>3, <1>4, <1>5 DEF LedgerInv

\* The id of a registration is fresh: nothing is under way for it.
LEMMA RegisterLedger ==
  ASSUME IInv, LedgerInv, NEW b \in Browser, NEW s \in Spelling, NEW i \in Id,
         Register(b, s, i)
  PROVE  LedgerInv'
<1>1. /\ UNCHANGED <<balance, booked, overlapped, late>>
      /\ step' = [step EXCEPT ![b] = "sent"]
      /\ request' = [request EXCEPT ![b] = Provision(i)]
      /\ balance[i] = NoRow /\ i \notin Registered
  BY DEF Register, Start, Unused, Registered, history
<1>2. \A c \in Browser :
        IF c = b THEN step'[c] = "sent" /\ request'[c] = Provision(i)
                 ELSE step'[c] = step[c] /\ request'[c] = request[c]
  BY <1>1 DEF IInv, TypeOK
<1>3. /\ \A c \in Browser : step[c] = "sent" => request[c].id # i
      /\ \A r \in late : r.id # i
  BY <1>1 DEF IInv, PostsFit, LateFit, Underway, Backed
<1>4. Provision(i).op = "register" /\ Provision(i).id = i
  BY DEF Provision
<1>5. ReadersDeposit'
  BY <1>2 DEF LedgerInv, ReadersDeposit
<1>6. SentAreTimely'
  BY <1>1, <1>2, <1>4 DEF LedgerInv, SentAreTimely, Timely
<1>7. LateAreTimely'
  BY <1>1 DEF LedgerInv, LateAreTimely, Timely
<1>8. OneProvision'
  BY <1>1, <1>2, <1>3, <1>4 DEF LedgerInv, OneProvision, SameProvision
<1>9. NothingBookedYet' /\ BalancesExplained'
  BY <1>1 DEF LedgerInv, NothingBookedYet, BalancesExplained
<1> QED BY <1>5, <1>6, <1>7, <1>8, <1>9 DEF LedgerInv

\* A deposit is sent with the balance it has just read.
LEMMA GetUserLedger ==
  ASSUME IInv, LedgerInv, NEW b \in Browser, GetUser(b)
  PROVE  LedgerInv'
<1>1. CASE balance[request[b].id] = NoRow
  <2>1. /\ UNCHANGED <<balance, booked, overlapped, late>>
        /\ \A c \in Browser : step'[c] # "idle" => step'[c] = step[c] /\ request'[c] = request[c]
    BY <1>1 DEF GetUser, End, tables, history, IInv, TypeOK
  <2> QED BY <2>1, QuietStep DEF LedgerInv, ReadersDeposit
<1>2. CASE balance[request[b].id] # NoRow
  <2>1. /\ UNCHANGED <<balance, booked, overlapped, late>>
        /\ step[b] = "read"
        /\ step' = [step EXCEPT ![b] = "sent"]
        /\ request' = [request EXCEPT ![b].seen = balance[request[b].id]]
    BY <1>2 DEF GetUser, tables, history
  <2>2. request[b] \in Request /\ request[b].op = "deposit"
    BY <2>1 DEF IInv, PostsFit, Underway, Backed, LedgerInv, ReadersDeposit
  <2>3. /\ request'[b].op = "deposit"
        /\ request'[b].id = request[b].id
        /\ request'[b].seen = balance[request[b].id]
    BY <2>1, <2>2 DEF IInv, TypeOK, Request
  <2>4. \A c \in Browser \ {b} : step'[c] = step[c] /\ request'[c] = request[c]
    BY <2>1 DEF IInv, TypeOK
  <2>5. step'[b] = "sent"
    BY <2>1 DEF IInv, TypeOK
  <2>6. ReadersDeposit'
    BY <2>4, <2>5 DEF LedgerInv, ReadersDeposit
  <2>7. SentAreTimely'
    <3>1. Timely(request[b])'
      BY <1>2, <2>1, <2>3 DEF Timely
    <3>2. ASSUME NEW c \in Browser \ {b}, step'[c] = "sent"
          PROVE  Timely(request[c])'
      BY <2>1, <2>4, <3>2 DEF LedgerInv, SentAreTimely, Timely
    <3> QED BY <3>1, <3>2 DEF SentAreTimely
  <2>8. LateAreTimely'
    BY <2>1 DEF LedgerInv, LateAreTimely, Timely
  <2>9. OneProvision'
    BY <2>1, <2>3, <2>4 DEF LedgerInv, OneProvision, SameProvision
  <2>10. NothingBookedYet' /\ BalancesExplained'
    BY <2>1 DEF LedgerInv, NothingBookedYet, BalancesExplained
  <2> QED BY <2>6, <2>7, <2>8, <2>9, <2>10 DEF LedgerInv
<1> QED BY <1>1, <1>2

\* A request on its way counts as it did when its handler was waiting.
LEMMA GiveUpLedger ==
  ASSUME IInv, LedgerInv, NEW b \in Browser, GiveUp(b)
  PROVE  LedgerInv'
<1>1. /\ UNCHANGED <<balance, booked, overlapped>>
      /\ step'[b] = "idle"
      /\ \A c \in Browser \ {b} : step'[c] = step[c] /\ request'[c] = request[c]
  BY DEF GiveUp, End, tables, history, IInv, TypeOK
<1>2. \/ late' = late
      \/ late' = late \cup {request[b]} /\ step[b] = "sent"
  BY DEF GiveUp, Abandon
<1>3. ReadersDeposit'
  BY <1>1 DEF LedgerInv, ReadersDeposit
<1>4. SentAreTimely'
  BY <1>1 DEF LedgerInv, SentAreTimely, Timely
<1>5. LateAreTimely'
  BY <1>1, <1>2 DEF LedgerInv, LateAreTimely, SentAreTimely, Timely
<1>6. OneProvision'
  <2>1. \A c \in Browser : step'[c] = "sent" =>
          c # b /\ step[c] = "sent" /\ request'[c] = request[c]
    BY <1>1
  <2>2. CASE late' = late
    BY <2>1, <2>2 DEF LedgerInv, OneProvision, SameProvision
  <2>3. CASE late' = late \cup {request[b]} /\ step[b] = "sent"
    BY <2>1, <2>3 DEF LedgerInv, OneProvision, SameProvision
  <2> QED BY <1>2, <2>2, <2>3
<1>7. NothingBookedYet' /\ BalancesExplained'
  BY <1>1 DEF LedgerInv, NothingBookedYet, BalancesExplained
<1> QED BY <1>3, <1>4, <1>5, <1>6, <1>7 DEF LedgerInv

\* A post is performed; those that go on were counted in Depositing.
LEMMA ServeLedger ==
  ASSUME IInv, LedgerInv, NEW b \in Browser, Serve(b)
  PROVE  LedgerInv'
<1> DEFINE r == request[b]
           ids == Depositing(Browser \ {b}, late)
<1>1. /\ Accepted(r) /\ Perform(r, ids) /\ step[b] = "sent"
      /\ step'[b] = "answered" /\ late' = late /\ request' = request
      /\ \A c \in Browser \ {b} : step'[c] = step[c]
  BY DEF Serve, IInv, TypeOK
<1>2. r \in Request /\ Backed(r) /\ r.op # "promote" /\ Timely(r)
  BY <1>1 DEF IInv, PostsFit, Underway, Backed, LedgerInv, SentAreTimely
<1>3. ReadersDeposit'
  BY <1>1 DEF LedgerInv, ReadersDeposit
<1>4. ASSUME NEW c \in Browser, step'[c] = "sent"
      PROVE  Timely(request[c])'
  <2>1. c # b /\ step[c] = "sent"
    BY <1>1, <1>4
  <2>2. PICK q \in Request : q = request[c]
    BY <2>1 DEF IInv, PostsFit, Underway, Backed
  <2>3. Timely(q) /\ ~SameProvision(r, q)
    BY <1>1, <2>1, <2>2 DEF LedgerInv, SentAreTimely, OneProvision
  <2>4. q.op = "deposit" => q.id \in ids
    BY <2>1, <2>2 DEF Depositing
  <2>5. Timely(q)'
    BY <1>1, <1>2, <2>3, <2>4, PerformTimely DEF IInv
  <2> QED BY <1>1, <2>2, <2>5
<1>5. ASSUME NEW q \in late
      PROVE  Timely(q)'
  <2>1. q \in Request /\ Timely(q) /\ ~SameProvision(r, q)
    BY <1>1 DEF IInv, LateFit, Backed, LedgerInv, LateAreTimely, OneProvision
  <2>2. q.op = "deposit" => q.id \in ids
    BY DEF Depositing
  <2> QED BY <1>1, <1>2, <2>1, <2>2, PerformTimely DEF IInv
<1>6. OneProvision'
  BY <1>1 DEF LedgerInv, OneProvision, SameProvision
<1>7. NothingBookedYet' /\ BalancesExplained'
  BY <1>1, <1>2, PerformExplained DEF IInv, LedgerInv
<1> QED BY <1>1, <1>3, <1>4, <1>5, <1>6, <1>7 DEF LedgerInv, SentAreTimely, LateAreTimely

\* So is a request whose handler has given up.
LEMMA ServeLateLedger ==
  ASSUME IInv, LedgerInv, NEW r \in late, ServeLate(r)
  PROVE  LedgerInv'
<1> DEFINE ids == Depositing(Browser, late \ {r})
<1>1. late' = late \ {r} /\ step' = step /\ request' = request
  BY DEF ServeLate
<1>2. r \in Request /\ Backed(r) /\ r.op # "promote" /\ Timely(r)
  BY DEF IInv, LateFit, Backed, LedgerInv, LateAreTimely
<1>3. ReadersDeposit' /\ OneProvision'
  BY <1>1 DEF LedgerInv, ReadersDeposit, OneProvision, SameProvision
<1>4. CASE ~Accepted(r)
  <2>1. UNCHANGED <<balance, booked, overlapped>>
    BY <1>4 DEF ServeLate, history
  <2>2. SentAreTimely' /\ LateAreTimely'
    BY <1>1, <2>1 DEF LedgerInv, SentAreTimely, LateAreTimely, Timely
  <2>3. NothingBookedYet' /\ BalancesExplained'
    BY <2>1 DEF LedgerInv, NothingBookedYet, BalancesExplained
  <2> QED BY <1>3, <2>2, <2>3 DEF LedgerInv
<1>5. CASE Accepted(r)
  <2>1. Perform(r, ids)
    BY <1>5 DEF ServeLate
  <2>2. ASSUME NEW c \in Browser, step[c] = "sent"
        PROVE  Timely(request[c])'
    <3>1. PICK q \in Request : q = request[c]
      BY <2>2 DEF IInv, PostsFit, Underway, Backed
    <3>2. Timely(q) /\ ~SameProvision(r, q)
      BY <2>2, <3>1 DEF LedgerInv, SentAreTimely, OneProvision, SameProvision
    <3>3. q.op = "deposit" => q.id \in ids
      BY <2>2, <3>1 DEF Depositing
    <3>4. Timely(q)'
      BY <1>2, <1>5, <2>1, <3>2, <3>3, PerformTimely DEF IInv
    <3> QED BY <1>1, <3>1, <3>4
  <2>3. ASSUME NEW q \in late \ {r}
        PROVE  Timely(q)'
    <3>1. q \in Request /\ Timely(q) /\ ~SameProvision(r, q)
      BY DEF IInv, LateFit, Backed, LedgerInv, LateAreTimely, OneProvision
    <3>2. q.op = "deposit" => q.id \in ids
      BY DEF Depositing
    <3> QED BY <1>2, <1>5, <2>1, <3>1, <3>2, PerformTimely DEF IInv
  <2>4. NothingBookedYet' /\ BalancesExplained'
    BY <1>2, <1>5, <2>1, PerformExplained DEF IInv, LedgerInv
  <2> QED BY <1>1, <1>3, <2>2, <2>3, <2>4 DEF LedgerInv, SentAreTimely, LateAreTimely
<1> QED BY <1>4, <1>5

\* A credit of the engine comes upon any deposit under way.
LEMMA PayoutLedger ==
  ASSUME IInv, LedgerInv, NEW i \in Id, NEW x \in Amount, Payout(i, x)
  PROVE  LedgerInv'
<1> DEFINE ids == Depositing(Browser, late)
<1>1. /\ balance' = [balance EXCEPT ![i] = @ + x]
      /\ overlapped' = overlapped \cup ({i} \cap ids)
      /\ booked' = [j \in Id |-> IF j \in overlapped' THEN 0
                                 ELSE [booked EXCEPT ![i] = @ + x][j]]
      /\ UNCHANGED <<step, request, late>>
      /\ balance[i] # NoRow
  BY DEF Payout, Follow, calls
<1>2. /\ balance \in [Id -> Nat \cup {NoRow}] /\ booked \in [Id -> Int]
      /\ x \in Nat /\ \A n \in Int : n # NoRow
  BY AmountAssumption, NoRowAssumption DEF IInv, TypeOK
<1>3. /\ \A j \in Id : balance'[j] = NoRow <=> balance[j] = NoRow
      /\ \A j \in Id \ {i} : balance'[j] = balance[j]
  BY <1>1, <1>2
<1>4. ASSUME NEW q \in Request, Timely(q), q.op = "deposit" => q.id \in ids
      PROVE  Timely(q)'
  <2>1. q.id \in Id
    BY DEF Request
  <2> QED BY <1>1, <1>3, <1>4, <2>1 DEF Timely
<1>5. ReadersDeposit' /\ OneProvision'
  BY <1>1 DEF LedgerInv, ReadersDeposit, OneProvision, SameProvision
<1>6. ASSUME NEW c \in Browser, step[c] = "sent"
      PROVE  Timely(request[c])'
  <2>1. PICK q \in Request : q = request[c]
    BY <1>6 DEF IInv, PostsFit, Underway, Backed
  <2>2. Timely(q) /\ (q.op = "deposit" => q.id \in ids)
    BY <1>6, <2>1 DEF LedgerInv, SentAreTimely, Depositing
  <2>3. Timely(q)'
    BY <1>4, <2>2
  <2> QED BY <1>1, <2>1, <2>3
<1>7. ASSUME NEW q \in late
      PROVE  Timely(q)'
  <2>1. q \in Request /\ Timely(q) /\ (q.op = "deposit" => q.id \in ids)
    BY DEF IInv, LateFit, Backed, LedgerInv, LateAreTimely, Depositing
  <2> QED BY <1>4, <2>1
<1>8. NothingBookedYet'
  BY <1>1, <1>2, <1>3 DEF LedgerInv, NothingBookedYet
<1>9. BalancesExplained'
  BY <1>1, <1>2, <1>3 DEF LedgerInv, BalancesExplained
<1> QED BY <1>1, <1>5, <1>6, <1>7, <1>8, <1>9 DEF LedgerInv, SentAreTimely, LateAreTimely

\* The other steps move no money.
LEMMA OtherLedger ==
  ASSUME IInv, LedgerInv, NEW b \in Browser,
         \/ \E s \in Spelling : Login(b, s) \/ AdminPromoteUser(b, s)
         \/ \E x \in Amount : Deposit(b, x) \/ PlaceBetPage(b, x)
         \/ \E x \in Amount, i \in Id : BuyListingPage(b, i, x)
         \/ Logout(b) \/ PromoteToAdmin(b) \/ Refuse(b) \/ Answer(b)
  PROVE  LedgerInv'
<1>1. UNCHANGED <<balance, booked, overlapped, late>>
  BY DEF Login, AdminPromoteUser, Deposit, PlaceBetPage, BuyListingPage, Logout,
         PromoteToAdmin, Refuse, Answer, Start, tables, calls, history
<1> DEFINE Went(c) ==
      /\ step'[c] = "sent" => \/ step[c] = "sent" /\ request'[c] = request[c]
                              \/ request'[c].op \in {"bet", "buy"}
      /\ step'[c] = "read" => request'[c].op = "deposit"
<1>2. ASSUME NEW c \in Browser, step'[c] = step[c], request'[c] = request[c]
      PROVE  Went(c)
  BY <1>2 DEF LedgerInv, ReadersDeposit
<1>3. ASSUME Logout(b) \/ \E s \in Spelling : Login(b, s)
      PROVE  \A c \in Browser : Went(c)
  BY <1>2, <1>3 DEF Login, Logout, calls
<1>4. ASSUME PromoteToAdmin(b) \/ Refuse(b) \/ Answer(b)
      PROVE  \A c \in Browser : Went(c)
  <2>1. \A c \in Browser :
          step'[c] # "idle" => step'[c] = step[c] /\ request'[c] = request[c]
    BY <1>4 DEF PromoteToAdmin, Refuse, Answer, End, IInv, TypeOK
  <2> QED BY <1>2, <2>1
<1>5. ASSUME NEW w \in {"read", "sent", "promote"}, NEW r, Start(b, w, r),
             w = "read" => r.op = "deposit",
             w = "sent" => r.op \in {"bet", "buy"}
      PROVE  \A c \in Browser : Went(c)
  <2>1. \A c \in Browser : IF c = b THEN step'[c] = w /\ request'[c] = r
                                    ELSE step'[c] = step[c] /\ request'[c] = request[c]
    BY <1>5 DEF Start, IInv, TypeOK
  <2> QED BY <1>2, <1>5, <2>1
<1>6. ASSUME NEW s \in Spelling, AdminPromoteUser(b, s)
      PROVE  \A c \in Browser : Went(c)
  BY <1>5, <1>6 DEF AdminPromoteUser
<1>7. ASSUME NEW x \in Amount, Deposit(b, x)
      PROVE  \A c \in Browser : Went(c)
  BY <1>5, <1>7 DEF Deposit
<1>8. ASSUME NEW x \in Amount, PlaceBetPage(b, x)
      PROVE  \A c \in Browser : Went(c)
  BY <1>5, <1>8 DEF PlaceBetPage
<1>9. ASSUME NEW x \in Amount, NEW i \in Id, BuyListingPage(b, i, x)
      PROVE  \A c \in Browser : Went(c)
  BY <1>5, <1>9 DEF BuyListingPage
<1>10. \A c \in Browser : Went(c)
  BY <1>3, <1>4, <1>6, <1>7, <1>8, <1>9
<1> QED BY <1>1, <1>10, QuietStep

\* In every reachable state, a balance is what its movements add up to, unless a
\* deposit was overlapped: whatever gives up, is repeated or lands late.
THEOREM BalancesStayExplained == Spec => []BalancesExplained
<1>1. Init => LedgerInv
  BY DEF Init, LedgerInv, ReadersDeposit, SentAreTimely, LateAreTimely, OneProvision,
         NothingBookedYet, BalancesExplained
<1>2. IInv /\ LedgerInv /\ [Next]_vars => LedgerInv'
  <2> SUFFICES ASSUME IInv, LedgerInv, [Next]_vars
               PROVE  LedgerInv'
    OBVIOUS
  <2>1. CASE UNCHANGED vars
    BY <2>1, QuietStep DEF vars, LedgerInv, ReadersDeposit
  <2> QED BY <2>1, RegisterLedger, GetUserLedger, GiveUpLedger, ServeLedger,
             ServeLateLedger, PayoutLedger, OtherLedger DEF Next
<1>3. LedgerInv => BalancesExplained
  BY DEF LedgerInv
<1> QED BY <1>1, <1>2, <1>3, IInvInvariant, PTL DEF Spec
=============================================================================
