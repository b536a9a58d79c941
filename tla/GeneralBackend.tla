--------------------------- MODULE GeneralBackend ---------------------------
(***************************************************************************)
(* general-backend between its browsers, its accounts table and the users   *)
(* table of bet-backend: registration over the two services, sessions,      *)
(* the appointment of admins, and the forms that move money, of which the   *)
(* simulated deposit reads a balance and writes it back.                    *)
(*                                                                          *)
(* A form post is a call: it is sent to bet-backend, performed there, and   *)
(* answered, and at any moment its handler may give up (betclient waits     *)
(* 5 s) while the request is lost or still on its way.  A stop of           *)
(* general-backend is such an end of every call: it keeps nothing in        *)
(* memory, and the cookies are with the browsers.                           *)
(*                                                                          *)
(* The JSON routes of main.go:79-82 relay bet-backend's own routes and are  *)
(* outside: their POST /users/sync writes the balance it is told to.  The   *)
(* form of the simulated deposit exists only where no wallet is configured  *)
(* (main.go:98-107), so that nothing but the engine credits besides.        *)
(***************************************************************************)
EXTENDS Integers, FiniteSets

CONSTANTS
  Id,            \* account ids, fresh UUIDs
  Browser,       \* each has one cookie and one post under way
  Spelling,      \* what may be typed as an email address
  norm,          \* lower case and trimmed: the address a spelling stands for
  Amount,        \* amounts of the forms and of payouts
  MaxBalance,    \* bounds what deposits, sales and payouts bring in
  MaxLate,       \* bounds the requests on their way after their handler gave up
  Faults,        \* "timeout": handlers give up; "late": their requests may land
  NoRow          \* no account, no user, no session, no address configured

Address == {norm[s] : s \in Spelling}

ASSUME AmountAssumption == Amount \subseteq Nat \ {0} /\ MaxBalance \in Nat
ASSUME NormAssumption ==
  /\ norm \in [Spelling -> Spelling]
  /\ \A s \in Spelling : norm[norm[s]] = norm[s]
ASSUME NoRowAssumption ==
  NoRow \notin Id \cup Spelling \cup Int \cup [email : Spelling, admin : BOOLEAN]
ASSUME FaultAssumption == Faults \subseteq {"timeout", "late"}

VARIABLES
  initialAdminEmail,  \* INITIAL_ADMIN_EMAIL, normalised
  accounts,           \* general-backend: table accounts
  balance,            \* bet-backend: table users
  session,            \* the account id in each browser's cookie
  step,               \* how far each browser's post has got
  request,            \* what it asks for
  late,               \* requests on their way whose handler has given up
  booked,             \* history: what the deposits, stakes and payouts that
                      \* took effect add up to
  overlapped          \* history: ids moved while a deposit was between its
                      \* read and its write

tables == <<initialAdminEmail, accounts, balance, session>>
calls == <<step, request, late>>
history == <<booked, overlapped>>
vars == <<initialAdminEmail, accounts, balance, session, step, request, late,
          booked, overlapped>>

Account == [email : Spelling, admin : BOOLEAN]
Op == {"register", "deposit", "bet", "buy", "promote"}
Request == [op : Op, id : Id, to : Id \cup Spelling, amount : Amount \cup {0},
            seen : Nat]
NoRequest == NoRow

-----------------------------------------------------------------------------
Init ==
  /\ initialAdminEmail \in Address \cup {NoRow}
  /\ accounts = [i \in Id |-> NoRow]
  /\ balance = [i \in Id |-> NoRow]
  /\ session = [b \in Browser |-> NoRow]
  /\ step = [b \in Browser |-> "idle"]
  /\ request = [b \in Browser |-> NoRequest]
  /\ late = {}
  /\ booked = [i \in Id |-> 0]
  /\ overlapped = {}

Idle(b) == step[b] = "idle"

Start(b, where, r) ==
  /\ step' = [step EXCEPT ![b] = where]
  /\ request' = [request EXCEPT ![b] = r]
  /\ UNCHANGED late

End(b) ==
  /\ step' = [step EXCEPT ![b] = "idle"]
  /\ request' = [request EXCEPT ![b] = NoRequest]

(***************************************************************************)
(* Accounts and sessions                                                    *)
(***************************************************************************)
Registered == {i \in Id : accounts[i] # NoRow}
Unused(i) == accounts[i] = NoRow /\ balance[i] = NoRow

\* Mutant: the address is stored as it was typed.
StoredAsTyped(s) == s

\* The email column holds the normalised address and is UNIQUE.
Stored(s) == norm[s]

FindAccountByEmail(s) == {i \in Registered : accounts[i].email = norm[s]}
Taken(s) == \E i \in Registered : accounts[i].email = Stored(s)

\* Mutant: the shortcut of the prototype, "first account ever created".
FirstAccount(s) == Registered = {}
IsInitialAdmin(s) == norm[s] = initialAdminEmail

Provision(i) == [op |-> "register", id |-> i, to |-> i, amount |-> 0, seen |-> 0]

InsertAccount(s, i) ==
  accounts' = [accounts EXCEPT ![i] = [email |-> Stored(s),
                                       admin |-> IsInitialAdmin(s)]]

\* Mutant: a taken address does not end the call.
RegisterRegardless(b, s, i) ==
  /\ Idle(b) /\ Unused(i)
  /\ IF Taken(s) THEN UNCHANGED accounts ELSE InsertAccount(s, i)
  /\ Start(b, "sent", Provision(i))
  /\ UNCHANGED <<initialAdminEmail, balance, session, history>>

\* Mutant: registering again provisions the account that has the address, as
\* the advice to try again suggests.
RegisterAgain(b, s, i) ==
  /\ Idle(b) /\ Unused(i)
  /\ IF Taken(s)
     THEN /\ \E j \in FindAccountByEmail(s) : Start(b, "sent", Provision(j))
          /\ UNCHANGED accounts
     ELSE Start(b, "sent", Provision(i)) /\ InsertAccount(s, i)
  /\ UNCHANGED <<initialAdminEmail, balance, session, history>>

\* CreateAccount, then SyncUser(id, 0) is sent.
Register(b, s, i) ==
  /\ Idle(b) /\ Unused(i)
  /\ ~Taken(s)
  /\ InsertAccount(s, i)
  /\ Start(b, "sent", Provision(i))
  /\ UNCHANGED <<initialAdminEmail, balance, session, history>>

Login(b, s) ==
  /\ Idle(b)
  /\ \E i \in FindAccountByEmail(s) : session' = [session EXCEPT ![b] = i]
  /\ UNCHANGED <<initialAdminEmail, accounts, balance, calls, history>>

\* Also what RequireUser does when it cannot load the account.
Logout(b) ==
  /\ Idle(b) /\ session[b] # NoRow
  /\ session' = [session EXCEPT ![b] = NoRow]
  /\ UNCHANGED <<initialAdminEmail, accounts, balance, calls, history>>

RequireUser(b) == Idle(b) /\ session[b] \in Registered
RequireAdmin(b) == RequireUser(b) /\ accounts[session[b]].admin

AdminPromoteUser(b, s) ==
  /\ RequireAdmin(b)
  /\ Start(b, "promote", [op |-> "promote", id |-> session[b], to |-> s,
                          amount |-> 0, seen |-> 0])
  /\ UNCHANGED <<tables, history>>

\* UPDATE ... WHERE email = $1; no row, no effect.
PromoteToAdmin(b) ==
  /\ step[b] = "promote"
  /\ LET named == FindAccountByEmail(request[b].to)
     IN accounts' = [i \in Id |-> IF i \in named
                                  THEN [accounts[i] EXCEPT !.admin = TRUE]
                                  ELSE accounts[i]]
  /\ End(b)
  /\ UNCHANGED <<initialAdminEmail, balance, session, late, history>>

(***************************************************************************)
(* The forms that move money                                                *)
(***************************************************************************)
Deposit(b, x) ==
  /\ RequireUser(b)
  /\ Start(b, "read", [op |-> "deposit", id |-> session[b], to |-> session[b],
                       amount |-> x, seen |-> 0])
  /\ UNCHANGED <<tables, history>>

\* GetUser, of which Deposit keeps the balance until SyncUserTyped.
GetUser(b) ==
  /\ step[b] = "read"
  /\ LET i == request[b].id
     IN IF balance[i] = NoRow THEN End(b)
        ELSE /\ balance[i] + request[b].amount <= MaxBalance
             /\ step' = [step EXCEPT ![b] = "sent"]
             /\ request' = [request EXCEPT ![b].seen = balance[i]]
  /\ UNCHANGED <<tables, late, history>>

PlaceBetPage(b, x) ==
  /\ RequireUser(b)
  /\ Start(b, "sent", [op |-> "bet", id |-> session[b], to |-> session[b],
                       amount |-> x, seen |-> 0])
  /\ UNCHANGED <<tables, history>>

\* The price of a listing goes to its seller.
BuyListingPage(b, seller, x) ==
  /\ RequireUser(b)
  /\ seller # session[b] /\ balance[seller] # NoRow
  /\ Start(b, "sent", [op |-> "buy", id |-> session[b], to |-> seller,
                       amount |-> x, seen |-> 0])
  /\ UNCHANGED <<tables, history>>

(***************************************************************************)
(* bet-backend, and the replies of betclient                                *)
(***************************************************************************)
Debits(r) == r.op \in {"bet", "buy"}

Accepted(r) ==
  Debits(r) => /\ balance[r.id] # NoRow
               /\ balance[r.id] >= r.amount

\* What bet-backend does with its table: SyncUser sets, a stake is debited, a
\* price is moved.
After(r) ==
  CASE r.op = "register" -> [balance EXCEPT ![r.id] = 0]
    [] r.op = "deposit"  -> [balance EXCEPT ![r.id] = r.seen + r.amount]
    [] r.op = "bet"      -> [balance EXCEPT ![r.id] = @ - r.amount]
    [] r.op = "buy"      -> [balance EXCEPT ![r.id] = @ - r.amount,
                                            ![r.to] = @ + r.amount]

Booking(r) ==
  CASE r.op = "register" -> booked
    [] r.op = "deposit"  -> [booked EXCEPT ![r.id] = @ + r.amount]
    [] r.op = "bet"      -> [booked EXCEPT ![r.id] = @ - r.amount]
    [] r.op = "buy"      -> [booked EXCEPT ![r.id] = @ - r.amount,
                                           ![r.to] = @ + r.amount]

\* Accounts with a deposit that has read a balance and not yet written it,
\* among the posts of some browsers and some late requests.
Depositing(browsers, requests) ==
  {r.id : r \in {q \in {request[b] : b \in {c \in browsers : step[c] = "sent"}}
                      \cup requests : q.op = "deposit"}}

\* The history, which gives up on an account once a deposit was overlapped.
Follow(books, ids) ==
  /\ overlapped' = overlapped \cup ids
  /\ booked' = [i \in Id |-> IF i \in overlapped' THEN 0 ELSE books[i]]

Perform(r, depositing) ==
  /\ r.op = "buy" => balance[r.to] + r.amount <= MaxBalance
  /\ balance' = After(r)
  /\ Follow(Booking(r), {r.id, r.to} \cap depositing)

Serve(b) ==
  /\ step[b] = "sent" /\ Accepted(request[b])
  /\ Perform(request[b], Depositing(Browser \ {b}, late))
  /\ step' = [step EXCEPT ![b] = "answered"]
  /\ UNCHANGED <<initialAdminEmail, accounts, session, request, late>>

Refuse(b) ==
  /\ step[b] = "sent" /\ ~Accepted(request[b])
  /\ End(b)
  /\ UNCHANGED <<tables, late, history>>

ServeLate(r) ==
  /\ r \in late
  /\ late' = late \ {r}
  /\ IF Accepted(r) THEN Perform(r, Depositing(Browser, late \ {r}))
                    ELSE UNCHANGED <<balance, history>>
  /\ UNCHANGED <<initialAdminEmail, accounts, session, step, request>>

\* A registration ends with auth.Login, the other posts with a page.
Answer(b) ==
  /\ step[b] = "answered"
  /\ session' = IF request[b].op = "register"
                THEN [session EXCEPT ![b] = request[b].id] ELSE session
  /\ End(b)
  /\ UNCHANGED <<initialAdminEmail, accounts, balance, late, history>>

\* What becomes of a request whose handler gives up: it is lost, or it is
\* still on its way.  One that was performed stays performed.
Abandon(b) ==
  \/ UNCHANGED late
  \/ /\ "late" \in Faults /\ step[b] = "sent"
     /\ Cardinality(late) < MaxLate /\ request[b] \notin late
     /\ late' = late \cup {request[b]}

\* Mutant: the error of SyncUserTyped is ignored.
GiveUpButLogIn(b) ==
  /\ "timeout" \in Faults /\ ~Idle(b)
  /\ session' = IF request[b].op = "register"
                THEN [session EXCEPT ![b] = request[b].id] ELSE session
  /\ Abandon(b) /\ End(b)
  /\ UNCHANGED <<initialAdminEmail, accounts, balance, history>>

GiveUp(b) ==
  /\ "timeout" \in Faults /\ ~Idle(b)
  /\ Abandon(b) /\ End(b)
  /\ UNCHANGED <<tables, history>>

\* A payout, a refund: the engine credits a user on its own.
Payout(i, x) ==
  /\ balance[i] # NoRow /\ balance[i] + x <= MaxBalance
  /\ balance' = [balance EXCEPT ![i] = @ + x]
  /\ Follow([booked EXCEPT ![i] = @ + x], {i} \cap Depositing(Browser, late))
  /\ UNCHANGED <<initialAdminEmail, accounts, session, calls>>

Next ==
  \/ \E b \in Browser, s \in Spelling :
       \/ \E i \in Id : Register(b, s, i)
       \/ Login(b, s)
       \/ AdminPromoteUser(b, s)
  \/ \E b \in Browser, x \in Amount :
       \/ Deposit(b, x)
       \/ PlaceBetPage(b, x)
       \/ \E i \in Id : BuyListingPage(b, i, x)
  \/ \E b \in Browser :
       \/ Logout(b)
       \/ PromoteToAdmin(b)
       \/ GetUser(b)
       \/ Serve(b)
       \/ Refuse(b)
       \/ Answer(b)
       \/ GiveUp(b)
  \/ \E r \in late : ServeLate(r)
  \/ \E i \in Id, x \in Amount : Payout(i, x)

Spec == Init /\ [][Next]_vars

-----------------------------------------------------------------------------
(***************************************************************************)
(* Properties                                                               *)
(***************************************************************************)
\* Every variable has its type; no balance is negative.
TypeOK ==
  /\ initialAdminEmail \in Address \cup {NoRow}
  /\ accounts \in [Id -> Account \cup {NoRow}]
  /\ balance \in [Id -> Nat \cup {NoRow}]
  /\ session \in [Browser -> Id \cup {NoRow}]
  /\ step \in [Browser -> {"idle", "read", "sent", "answered", "promote"}]
  /\ request \in [Browser -> Request \cup {NoRequest}]
  /\ late \subseteq Request
  /\ booked \in [Id -> Int]
  /\ overlapped \subseteq Id

\* The bootstrap of admins is fail-closed (store/accounts.go:24-29): whoever is
\* admin, the account of INITIAL_ADMIN_EMAIL is one, so without that address
\* nobody ever is, whatever is registered and promoted in whatever order.
AdminsTraceToBootstrap ==
  (\E i \in Registered : accounts[i].admin) =>
    \E j \in Registered : /\ accounts[j].email = initialAdminEmail
                          /\ accounts[j].admin

\* Two accounts never share an address, however it is spelled and however many
\* registrations run at once (store/accounts.go:31 and :45).
AddressesAreDistinct ==
  \A i, j \in Registered : norm[accounts[i].email] = norm[accounts[j].email] => i = j

\* The forms give bet-backend users for accounts only, also when the request
\* that creates one arrives after its handler gave up (auth_handlers.go:60-75).
UsersHaveAccounts == \A i \in Id : balance[i] # NoRow => i \in Registered

\* A registration signs in only whom bet-backend knows (auth_handlers.go:72-77).
RegistrationProvisions ==
  [][\A b \in Browser :
       session'[b] # session[b] /\ ~Idle(b) => balance[session'[b]] # NoRow]_vars

\* Apart from accounts moved while a deposit was between its read and its write
\* (profile_handlers.go:245-251), a balance is what its deposits, stakes,
\* sales and payouts add up to: a late provisioning or a repeated registration
\* resets nothing, and a request whose handler gave up counts at most once.
BalancesExplained ==
  \A i \in Id \ overlapped : balance[i] # NoRow => balance[i] = booked[i]

\* Registration leaves each account with "the matching bet-backend user"
\* (auth_handlers.go:69), once the calls for it are over.
AccountsHaveUsers ==
  \A i \in Registered :
    balance[i] = NoRow => \/ \E b \in Browser : request[b] = Provision(i)
                          \/ Provision(i) \in late
=============================================================================
