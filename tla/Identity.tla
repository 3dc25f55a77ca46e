------------------------------- MODULE Identity -------------------------------
(***************************************************************************)
(* The Identity service, the Banking customer it provisions and the session *)
(* version it synchronises, for one e-mail address.  Identity and Banking    *)
(* have a database each and share nothing but two private HTTP commands, so  *)
(* every browser request is a series of statements and of one command whose  *)
(* reply may be lost and whose execution may come late.  Banking's row has a *)
(* second writer, which knows nothing of Identity: the API seeds the          *)
(* configured administrator when it starts.                                  *)
(*                                                                          *)
(* User ids are the numbers of the registrations (the code draws a new UUID  *)
(* for each), a password hash is known by the session version it was written *)
(* under, and a reset link by its number.  Token and link expiry only take   *)
(* something away and are left out: an expired one is simply not used.       *)
(***************************************************************************)
EXTENDS Integers, FiniteSets

CONSTANTS
  Calls,        \* browser requests Identity serves at the same time
  MaxUsers,     \* bound: registrations
  MaxVersion,   \* bound: session versions
  MaxLinks,     \* bound: password-reset links
  MaxSeeds,     \* bound: seedings of a row since Identity wrote it last
  MaxFailures   \* bound: lost replies, stopped requests, failed statements

ASSUME BoundsAreNatural ==
  /\ MaxUsers \in Nat
  /\ MaxVersion \in Nat
  /\ MaxLinks \in Nat
  /\ MaxSeeds \in Nat
  /\ MaxFailures \in Nat

VARIABLES
  user,       \* identity.users: the row of the address, id 0 when there is none
  links,      \* identity.password_reset_tokens
  customer,   \* Banking's users row of the address, id 0 when there is none
  sessions,   \* the session tokens handed to browsers
  mailed,     \* the reset links that reached the owner's mailbox
  call,       \* the requests in progress
  late,       \* commands whose caller no longer waits, not executed yet
  registered, \* user ids drawn
  drawn,      \* reset links drawn
  stranded,   \* users whose registration was not compensated
  failures    \* failures so far

vars == <<user, links, customer, sessions, mailed, call, late, registered,
          drawn, stranded, failures>>

Kinds == {"register", "login", "logout", "change", "forgot", "reset"}
Steps == {"idle", "session", "version", "revoke", "replace", "persist", "mail",
          "calling", "answered", "undo"}

NoUser == [id |-> 0, hash |-> 0, version |-> 0]
\* "seeded" is a history field: how often seeding has counted the version up
\* since a command of Identity last wrote the row.
NoCustomer == [id |-> 0, version |-> 0, seeded |-> 0]

\* A request: "hash" is the password hash it read, "version" the session version
\* it synchronises or, for a reset link being made, the number of the link, and
\* "ok" Banking's answer.
Idle ==
  [kind |-> "login", step |-> "idle", id |-> 0, hash |-> 0, version |-> 0,
   ok |-> FALSE]
Call ==
  [kind : Kinds, step : Steps, id : Nat, hash : Nat, version : Nat,
   ok : BOOLEAN]
Command == [provision : BOOLEAN, id : Nat, version : Nat]
Link == [number : Nat, id : Nat, unused : BOOLEAN]

\* What a request waits for Banking to do.
CommandOf(k) ==
  [provision |-> k.kind = "register", id |-> k.id, version |-> k.version]

\* The request moves on to another step, or ends.
At(c, step) == call[c].step = step
Goto(c, step) == call' = [call EXCEPT ![c].step = step]
End(c) == call' = [call EXCEPT ![c] = Idle]

\* The request asks Banking to take over version v of user n.
Synchronise(c, n, v) ==
  call' = [call EXCEPT ![c] =
             [kind |-> call[c].kind, step |-> "calling", id |-> n,
              hash |-> call[c].hash, version |-> v, ok |-> FALSE]]

Begin(c, kind, step, n) ==
  /\ At(c, "idle")
  /\ call' = [call EXCEPT ![c] =
                [kind |-> kind, step |-> step, id |-> n, hash |-> 0,
                 version |-> 0, ok |-> FALSE]]

-----------------------------------------------------------------------------
(* The statements of the Identity store.                                    *)

FindLoginAccount == user # NoUser
FindLoginAccountByID(n) == user.id = n
GetByEmail == user # NoUser

\* INSERT of a new user under an id of its own; the address is UNIQUE.
StoreRegister ==
  /\ user = NoUser
  /\ registered < MaxUsers
  /\ registered' = registered + 1
  /\ user' = [id |-> registered + 1, hash |-> 0, version |-> 0]

\* DELETE of a user, its reset links with it.
StoreDelete(n) ==
  IF user.id = n
  THEN /\ user' = NoUser
       /\ links' = {r \in links : r.id # n}
  ELSE UNCHANGED <<user, links>>

\* Mutant: a new link leaves the older ones as they are.
SpentNothing(S, n) == S

\* The other links of the user stop working.
Spent(S, n) ==
  {IF r.id = n THEN [r EXCEPT !.unused = FALSE] ELSE r : r \in S}

\* One serializable transaction: older links are used up, a new one is added.
StoreCreatePasswordReset(n) ==
  /\ user.id = n
  /\ drawn < MaxLinks
  /\ drawn' = drawn + 1
  /\ links' = Spent(links, n)
                \union {[number |-> drawn + 1, id |-> n, unused |-> TRUE]}

\* One serializable transaction: the link is consumed, the password replaced.
StoreResetPassword(r) ==
  /\ r \in links /\ r.unused
  /\ user.id = r.id
  /\ user.version < MaxVersion
  /\ user' = [id |-> user.id, hash |-> user.version + 1,
              version |-> user.version + 1]
  /\ links' = Spent(links \ {r}, r.id)

StoreRevokeSessions(n) ==
  /\ user.id = n
  /\ user.version < MaxVersion
  /\ user' = [user EXCEPT !.version = @ + 1]

\* Mutant: the row is found by its id alone.
StoreAnyPassword(n, expected) ==
  /\ user.id = n
  /\ user.version < MaxVersion
  /\ user' = [id |-> n, hash |-> user.version + 1, version |-> user.version + 1]

\* The password is replaced only while it is still the one that was verified.
StoreChangePassword(n, expected) ==
  /\ user.id = n
  /\ user.hash = expected
  /\ user.version < MaxVersion
  /\ user' = [id |-> n, hash |-> user.version + 1, version |-> user.version + 1]

-----------------------------------------------------------------------------
(* The two private commands, executed by Banking.                           *)

\* GetUserByID answers a repeated command; the address is UNIQUE here too.
Accepts(m) == customer.id = m.id \/ (m.provision /\ customer.id = 0)

ProvisionCustomerInternal(m) ==
  customer' = IF customer.id = 0 THEN [NoCustomer EXCEPT !.id = m.id]
              ELSE customer

\* Mutant: the version is counted up instead of set.
IncrementSessionVersion(m) ==
  customer' = IF customer.id = m.id
              THEN [customer EXCEPT !.version = @ + 1, !.seeded = 0]
              ELSE customer

\* The last version that arrives is stored, whatever was stored before.
SetUserSessionVersion(m) ==
  customer' = IF customer.id = m.id
              THEN [customer EXCEPT !.version = m.version, !.seeded = 0]
              ELSE customer

Execute(m) ==
  IF m.provision THEN ProvisionCustomerInternal(m) ELSE SetUserSessionVersion(m)

\* Banking executes the command of a request that waits for it.
Answer(c) ==
  /\ At(c, "calling")
  /\ Execute(CommandOf(call[c]))
  /\ call' = [call EXCEPT ![c].step = "answered",
                          ![c].ok = Accepts(CommandOf(call[c]))]
  /\ UNCHANGED <<user, links, sessions, mailed, late, registered, drawn,
                 stranded, failures>>

\* Banking executes a command its caller has given up.
ExecuteLate(m) ==
  /\ m \in late
  /\ late' = late \ {m}
  /\ Execute(m)
  /\ UNCHANGED <<user, links, sessions, mailed, call, registered, drawn,
                 stranded, failures>>

\* The API starts with the address as that of its administrator: Banking's row
\* is inserted, or its password and role replaced and the version counted up.
\* A start that finds the configured password and role there changes nothing.
UpsertAdminUser ==
  /\ customer.seeded < MaxSeeds
  /\ \/ /\ customer.id = 0
        /\ registered < MaxUsers
        /\ registered' = registered + 1
        /\ customer' = [NoCustomer EXCEPT !.id = registered + 1]
     \/ /\ customer.id # 0
        /\ customer' = [customer EXCEPT !.version = @ + 1, !.seeded = @ + 1]
        /\ UNCHANGED registered

SeedConfiguredAdmin ==
  /\ UpsertAdminUser
  /\ UNCHANGED <<user, links, sessions, mailed, call, late, drawn, stranded,
                 failures>>

\* The two session checks: Identity asks its own table, Banking its copy.
RequireActiveSession(t) == user.id = t.id /\ user.version = t.version
BankingAcceptsSession(t) == customer.id = t.id /\ customer.version = t.version

-----------------------------------------------------------------------------
(* The handlers, statement by statement.                                    *)

Register(c) ==
  /\ StoreRegister
  /\ Begin(c, "register", "calling", registered + 1)
  /\ UNCHANGED <<links, customer, sessions, mailed, late, drawn, stranded,
                 failures>>

\* The account is read and the password verified ...
Login(c) ==
  /\ FindLoginAccount
  /\ Begin(c, "login", "version", user.id)
  /\ UNCHANGED <<user, links, customer, sessions, mailed, late, registered,
                 drawn, stranded, failures>>

\* ... and the session version is read by a second statement.
Authenticate(c) ==
  /\ At(c, "version")
  /\ IF FindLoginAccountByID(call[c].id)
     THEN Synchronise(c, call[c].id, user.version)
     ELSE End(c)
  /\ UNCHANGED <<user, links, customer, sessions, mailed, late, registered,
                 drawn, stranded, failures>>

\* A request with a session token that passes the session check.
Protected(c, kind, step, t) ==
  /\ t \in sessions
  /\ RequireActiveSession(t)
  /\ Begin(c, kind, step, t.id)
  /\ UNCHANGED <<user, links, customer, sessions, mailed, late, registered,
                 drawn, stranded, failures>>

Logout(c) == \E t \in sessions : Protected(c, "logout", "revoke", t)
ChangePassword(c) == \E t \in sessions : Protected(c, "change", "session", t)

RevokeSessions(c) ==
  /\ At(c, "revoke")
  /\ \/ /\ StoreRevokeSessions(call[c].id)
        /\ Synchronise(c, call[c].id, user.version + 1)
     \/ /\ user.id # call[c].id
        /\ End(c)
        /\ UNCHANGED user
  /\ UNCHANGED <<links, customer, sessions, mailed, late, registered, drawn,
                 stranded, failures>>

\* The current password is verified against the hash just read.
VerifyCurrentPassword(c) ==
  /\ At(c, "session")
  /\ IF FindLoginAccountByID(call[c].id)
     THEN call' = [call EXCEPT ![c].step = "replace", ![c].hash = user.hash]
     ELSE End(c)
  /\ UNCHANGED <<user, links, customer, sessions, mailed, late, registered,
                 drawn, stranded, failures>>

ReplacePassword(c) ==
  /\ At(c, "replace")
  /\ \/ /\ StoreChangePassword(call[c].id, call[c].hash)
        /\ Synchronise(c, call[c].id, user.version + 1)
     \/ /\ \/ user.id # call[c].id
           \/ user.hash # call[c].hash
        /\ End(c)
        /\ UNCHANGED user
  /\ UNCHANGED <<links, customer, sessions, mailed, late, registered, drawn,
                 stranded, failures>>

\* The background job of a forgotten password: look up, store, mail.
ForgotPassword(c) ==
  /\ GetByEmail
  /\ Begin(c, "forgot", "persist", user.id)
  /\ UNCHANGED <<user, links, customer, sessions, mailed, late, registered,
                 drawn, stranded, failures>>

CreatePasswordReset(c) ==
  /\ At(c, "persist")
  /\ \/ /\ StoreCreatePasswordReset(call[c].id)
        /\ call' = [call EXCEPT ![c].step = "mail", ![c].version = drawn + 1]
     \/ /\ user.id # call[c].id
        /\ End(c)
        /\ UNCHANGED <<links, drawn>>
  /\ UNCHANGED <<user, customer, sessions, mailed, late, registered, stranded,
                 failures>>

SendPasswordReset(c) ==
  /\ At(c, "mail")
  /\ mailed' = mailed \union {call[c].version}
  /\ End(c)
  /\ UNCHANGED <<user, links, customer, sessions, late, registered, drawn,
                 stranded, failures>>

ResetPassword(c) ==
  \E r \in links :
    /\ r.number \in mailed
    /\ StoreResetPassword(r)
    /\ At(c, "idle")
    /\ call' = [call EXCEPT ![c] =
                  [kind |-> "reset", step |-> "calling", id |-> r.id,
                   hash |-> 0, version |-> user.version + 1, ok |-> FALSE]]
    /\ UNCHANGED <<customer, sessions, mailed, late, registered, drawn,
                   stranded, failures>>

\* Mutant: the status of Banking's reply is not looked at.
HandsAnyway(k) == k.kind \in {"register", "login"}

\* Registration and login hand out a session once Banking has agreed.
Hands(k) == k.kind \in {"register", "login"} /\ k.ok

\* The reply is read: a refused registration is undone, the rest is over.
Finish(c) ==
  /\ At(c, "answered")
  /\ sessions' = IF Hands(call[c])
                 THEN sessions \union {[id |-> call[c].id,
                                        version |-> call[c].version]}
                 ELSE sessions
  /\ IF call[c].kind = "register" /\ ~call[c].ok THEN Goto(c, "undo")
     ELSE End(c)
  /\ UNCHANGED <<user, links, customer, mailed, late, registered, drawn,
                 stranded, failures>>

\* The compensation of a registration Banking did not confirm.
Compensate(c) ==
  /\ At(c, "undo")
  /\ StoreDelete(call[c].id)
  /\ End(c)
  /\ UNCHANGED <<customer, sessions, mailed, late, registered, drawn, stranded,
                 failures>>

-----------------------------------------------------------------------------
(* Failures.                                                                *)

Fail ==
  /\ failures < MaxFailures
  /\ failures' = failures + 1

\* A command that was not answered may still be on its way.
LeaveBehind(c) ==
  IF At(c, "calling") THEN late' \in {late, late \union {CommandOf(call[c])}}
  ELSE UNCHANGED late

\* Mutant: a registration whose reply is lost is left as it is.
LoseReplyAndLeave(c) ==
  /\ call[c].step \in {"calling", "answered"}
  /\ Fail
  /\ LeaveBehind(c)
  /\ End(c)
  /\ UNCHANGED <<user, links, customer, sessions, mailed, registered, drawn,
                 stranded>>

\* No reply within five seconds, or the reply is lost: the handler goes on as
\* after a refusal.
LoseReply(c) ==
  /\ call[c].step \in {"calling", "answered"}
  /\ Fail
  /\ LeaveBehind(c)
  /\ IF call[c].kind = "register" THEN Goto(c, "undo") ELSE End(c)
  /\ UNCHANGED <<user, links, customer, sessions, mailed, registered, drawn,
                 stranded>>

\* The request stops where it is: a statement fails (the DELETE of the
\* compensation among them, which is only logged), the job runs out of time or
\* the service goes down.
Stop(c) ==
  /\ ~At(c, "idle")
  /\ Fail
  /\ LeaveBehind(c)
  /\ stranded' = IF call[c].kind = "register" THEN stranded \union {call[c].id}
                 ELSE stranded
  /\ End(c)
  /\ UNCHANGED <<user, links, customer, sessions, mailed, registered, drawn>>

-----------------------------------------------------------------------------
IdentityInit ==
  /\ user = NoUser
  /\ links = {}
  /\ customer = NoCustomer
  /\ sessions = {}
  /\ mailed = {}
  /\ call = [c \in Calls |-> Idle]
  /\ late = {}
  /\ registered = 0
  /\ drawn = 0
  /\ stranded = {}
  /\ failures = 0

Handler(c) ==
  \/ Register(c)
  \/ Login(c)
  \/ Authenticate(c)
  \/ Logout(c)
  \/ RevokeSessions(c)
  \/ ChangePassword(c)
  \/ VerifyCurrentPassword(c)
  \/ ReplacePassword(c)
  \/ ForgotPassword(c)
  \/ CreatePasswordReset(c)
  \/ SendPasswordReset(c)
  \/ ResetPassword(c)
  \/ Finish(c)
  \/ Compensate(c)

IdentityNext ==
  \/ \E c \in Calls : Handler(c) \/ Answer(c) \/ LoseReply(c) \/ Stop(c)
  \/ \E m \in late : ExecuteLate(m)
  \/ SeedConfiguredAdmin

IdentitySpec == IdentityInit /\ [][IdentityNext]_vars

-----------------------------------------------------------------------------
IdentityTypeOK ==
  /\ user \in [id : Nat, hash : Nat, version : Nat]
  /\ links \subseteq Link
  /\ customer \in [id : Nat, version : Nat, seeded : Nat]
  /\ sessions \subseteq [id : Nat, version : Nat]
  /\ mailed \subseteq Nat
  /\ call \in [Calls -> Call]
  /\ late \subseteq Command
  /\ registered \in Nat
  /\ drawn \in Nat
  /\ stranded \subseteq Nat
  /\ failures \in Nat

\* Whoever holds a session token is a customer of Banking: no reply that was
\* lost, refused or overtaken hands out a token for a user Banking does not know.
SessionHasCustomer == \A t \in sessions : customer.id = t.id /\ t.id # 0

\* The sessions and the commands on their way to Banking are never ahead of
\* Identity, the owner of the version; Banking's copy is ahead of it by no more
\* than the seedings since Identity last wrote it.
OwnerIsAhead ==
  LET Behind(x) == x.id = user.id => x.version <= user.version
  IN /\ customer.id = user.id => customer.version <= user.version + customer.seeded
     /\ \A t \in sessions : Behind(t)
     /\ \A m \in late : Behind(m)

\* Of several reset links only the last one drawn still works, and it belongs to
\* the user the address has now.
OnlyLastLinkWorks ==
  \A r \in links : r.id = user.id /\ (r.unused => r.number = drawn)

\* Two password changes that verified the same password are not both carried out:
\* the password a change was verified against is gone once it has been written.
OneChangePerPassword ==
  \A c, d \in Calls :
    /\ c # d
    /\ call[c].kind = "change" /\ call[c].step \in {"calling", "answered"}
    /\ call[d].kind = "change" /\ call[d].step \in {"calling", "answered"}
    /\ call[c].id = call[d].id
    => call[c].hash # call[d].hash

\* A registration leaves a user with a customer, or no user: only a compensation
\* that was not carried out leaves a user Banking does not know.
NoUserWithoutCustomer ==
  \/ user = NoUser
  \/ customer.id = user.id
  \/ user.id \in stranded
  \/ \E c \in Calls : /\ call[c].kind = "register"
                      /\ ~At(c, "idle")
                      /\ call[c].id = user.id

\* Nothing is in progress.
Settled == late = {} /\ \A c \in Calls : At(c, "idle")

\* An ended session ends at Banking: when nothing is in progress and nothing has
\* failed, Banking accepts only sessions of the version Identity is at.
EndedSessionsEndAtBanking ==
  Settled /\ failures = 0 =>
    \A t \in sessions : BankingAcceptsSession(t) => RequireActiveSession(t)
=============================================================================
