---------------------------- MODULE IdentityProofs ----------------------------
(***************************************************************************)
(* What Identity promises, for any number of requests, users, versions,     *)
(* links and failures.  The inductive invariant says of every request,      *)
(* session and late command what may be believed about its user although     *)
(* the rows it read are old: ids are never used twice, a customer keeps its  *)
(* id, and the version and the password hash of a user only grow.            *)
(***************************************************************************)
EXTENDS Identity, TLAPS

Behind(x) == x.id = user.id => x.version <= user.version

\* A request that has decided which version Banking is to hold.
Decided(k) == k.step \in {"calling", "answered", "undo"}

Changed(k) == k.kind = "change" /\ k.step \in {"calling", "answered"}

CallOK(k) ==
  /\ k.id <= registered
  /\ k.step # "idle" => k.id >= 1
  /\ k.kind = "register" => Decided(k)
  /\ k.step = "version" => k.kind = "login"
  /\ k.step = "revoke" => k.kind = "logout"
  /\ k.step \in {"session", "replace"} => k.kind = "change"
  /\ Decided(k) => Behind(k)
  /\ k.step = "answered" /\ k.ok => customer.id = k.id
  /\ Changed(k) /\ k.id = user.id => k.hash < user.hash

TokenOK(t) == t.id >= 1 /\ t.id <= registered /\ customer.id = t.id /\ Behind(t)

LateOK(m) == m.id >= 1 /\ m.id <= registered /\ Behind(m)

RowsOK ==
  /\ user.id <= registered /\ user.hash <= user.version
  /\ user.id = 0 => user = NoUser /\ links = {}
  /\ customer.id <= registered
  /\ customer.id = user.id => customer.version <= user.version + customer.seeded
  /\ customer.id = 0 => customer = NoCustomer

CallsOK == \A c \in Calls : CallOK(call[c])
TokensOK == \A t \in sessions : TokenOK(t)
LatesOK == \A m \in late : LateOK(m)

IInv ==
  /\ IdentityTypeOK
  /\ RowsOK
  /\ CallsOK
  /\ TokensOK
  /\ LatesOK
  /\ OnlyLastLinkWorks
  /\ OneChangePerPassword
  /\ NoUserWithoutCustomer

\* What every step does to the rows: a user that stays only grows, a new one has
\* an id of its own, a customer keeps its id.
Evolves ==
  /\ registered' \in Nat /\ registered' >= registered
  /\ user' \in [id : Nat, hash : Nat, version : Nat]
  /\ customer' \in [id : Nat, version : Nat, seeded : Nat]
  /\ customer.id # 0 => customer'.id = customer.id
  /\ user'.id = user.id => user'.version >= user.version /\ user'.hash >= user.hash
  /\ user'.id # user.id => user'.id = 0 \/ user'.id > registered

-----------------------------------------------------------------------------
(* Tokens, commands and requests are not harmed by what others do.          *)

LEMMA BehindKept ==
  ASSUME IInv, Evolves,
         NEW x, x.id \in Nat, x.version \in Nat, x.id <= registered, x.id >= 1,
         Behind(x)
  PROVE  Behind(x)'
  BY DEF IInv, IdentityTypeOK, Evolves, Behind

LEMMA TokenKept ==
  ASSUME IInv, Evolves, NEW t \in [id : Nat, version : Nat], TokenOK(t)
  PROVE  TokenOK(t)'
<1>1. Behind(t)'
  BY BehindKept DEF TokenOK
<1> QED
  BY <1>1 DEF TokenOK, Evolves, IInv, IdentityTypeOK

LEMMA LateKept ==
  ASSUME IInv, Evolves, NEW m \in Command, LateOK(m)
  PROVE  LateOK(m)'
<1>1. Behind(m)'
  BY BehindKept DEF LateOK, Command
<1> QED
  BY <1>1 DEF LateOK, Evolves, IInv, IdentityTypeOK, Command

LEMMA CallKept ==
  ASSUME IInv, Evolves, NEW k \in Call, CallOK(k)
  PROVE  CallOK(k)'
<1>1. k.id \in Nat /\ k.version \in Nat /\ k.hash \in Nat
  BY DEF Call
<1>2. user \in [id : Nat, hash : Nat, version : Nat]
      /\ customer \in [id : Nat, version : Nat, seeded : Nat] /\ registered \in Nat
  BY DEF IInv, IdentityTypeOK
<1>3. k.id <= registered'
  BY <1>1, <1>2 DEF CallOK, Evolves
<1>4. Decided(k) => Behind(k)'
  BY <1>1, BehindKept DEF CallOK, Decided
<1>5. k.step = "answered" /\ k.ok => customer'.id = k.id
  BY <1>1, <1>2 DEF CallOK, Evolves, Decided
<1>6. Changed(k) /\ k.id = user'.id => k.hash < user'.hash
  BY <1>1, <1>2 DEF CallOK, Evolves, Changed, Decided
<1> QED
  BY <1>3, <1>4, <1>5, <1>6 DEF CallOK, Decided, Changed

\* A step of one request: it is enough to look at its new record, at the sessions
\* and commands that are new, and at the rows.
LEMMA Frame ==
  ASSUME IInv, Evolves, NEW c \in Calls, NEW k \in Call,
         call' = [call EXCEPT ![c] = k], CallOK(k)'
  PROVE  call' \in [Calls -> Call] /\ CallsOK'
<1>1. call \in [Calls -> Call]
  BY DEF IInv, IdentityTypeOK
<1>2. ASSUME NEW d \in Calls PROVE CallOK(call[d])'
  <2>1. CASE d = c
    <3>1. call'[d] = k
      BY <2>1, <1>1
    <3> QED
      BY <3>1 DEF CallOK, Decided, Behind, Changed
  <2>2. CASE d # c
    <3>1. call'[d] = call[d] /\ call[d] \in Call
      BY <2>2, <1>1
    <3>2. CallOK(call[d])
      BY DEF IInv, CallsOK
    <3>3. CallOK(call[d])'
      BY <3>1, <3>2, CallKept
    <3> QED
      BY <3>1, <3>3 DEF CallOK, Decided, Behind, Changed
  <2> QED
    BY <2>1, <2>2
<1>3. call' \in [Calls -> Call]
  BY <1>1
<1>4. CallsOK'
  BY <1>2 DEF CallsOK
<1> QED
  BY <1>3, <1>4

-----------------------------------------------------------------------------
(* One request moves from its record to k.                                  *)

LEMMA RequestStep ==
  ASSUME IInv, Evolves, NEW c \in Calls, NEW k \in Call,
         call' = [call EXCEPT ![c] = k], CallOK(k)',
         RowsOK', OnlyLastLinkWorks', NoUserWithoutCustomer',
         links' \subseteq Link, sessions' \subseteq [id : Nat, version : Nat],
         late' \subseteq Command, mailed' \subseteq Nat, drawn' \in Nat,
         stranded' \subseteq Nat, failures' \in Nat,
         \A t \in sessions' : t \in sessions \/ TokenOK(t)',
         \A m \in late' : m \in late \/ LateOK(m)',
         Changed(k) => \/ Changed(call[c]) /\ k.id = call[c].id
                          /\ k.hash = call[c].hash
                       \/ k.id = user.id /\ k.hash = user.hash
  PROVE  IInv'
<1>1. call' \in [Calls -> Call] /\ CallsOK'
  BY Frame
<1>2. IdentityTypeOK'
  BY <1>1 DEF IdentityTypeOK, Evolves
<1>3. TokensOK'
  <2> SUFFICES ASSUME NEW t \in sessions' PROVE TokenOK(t)'
    BY DEF TokensOK
  <2> QED
    BY TokenKept DEF IInv, TokensOK, IdentityTypeOK
<1>4. LatesOK'
  <2> SUFFICES ASSUME NEW m \in late' PROVE LateOK(m)'
    BY DEF LatesOK
  <2> QED
    BY LateKept DEF IInv, LatesOK, IdentityTypeOK
<1>5. OneChangePerPassword'
  <2>1. call \in [Calls -> Call] /\ user \in [id : Nat, hash : Nat, version : Nat]
    BY DEF IInv, IdentityTypeOK
  <2>2. call'[c] = k /\ \A d \in Calls : d # c => call'[d] = call[d]
    BY <2>1
  <2>3. ASSUME NEW d \in Calls, d # c, Changed(k), Changed(call[d]),
               k.id = call[d].id
        PROVE  k.hash # call[d].hash
    <3>1. CASE Changed(call[c]) /\ k.id = call[c].id /\ k.hash = call[c].hash
      BY <3>1, <2>3 DEF IInv, OneChangePerPassword, Changed
    <3>2. CASE k.id = user.id /\ k.hash = user.hash
      <4>1. CallOK(call[d]) /\ call[d] \in Call
        BY <2>1 DEF IInv, CallsOK
      <4> QED
        BY <4>1, <3>2, <2>3, <2>1 DEF CallOK, Call
    <3> QED
      BY <3>1, <3>2, <2>3
  <2>4. ASSUME NEW d \in Calls, NEW e \in Calls, d # e,
               Changed(call'[d]), Changed(call'[e]), call'[d].id = call'[e].id
        PROVE  call'[d].hash # call'[e].hash
    <3>1. CASE d = c
      BY <3>1, <2>2, <2>3, <2>4
    <3>2. CASE e = c
      BY <3>2, <2>2, <2>3, <2>4
    <3>3. CASE d # c /\ e # c
      BY <3>3, <2>2, <2>4 DEF IInv, OneChangePerPassword, Changed
    <3> QED
      BY <3>1, <3>2, <3>3
  <2> QED
    BY <2>4 DEF OneChangePerPassword, Changed
<1> QED
  BY <1>1, <1>2, <1>3, <1>4, <1>5 DEF IInv

\* The address keeps its user, or stays without one.
LEMMA Witness ==
  ASSUME IInv, Evolves, NEW c \in Calls, NEW k \in Call,
         call' = [call EXCEPT ![c] = k],
         user'.id = user.id, user = NoUser => user' = NoUser,
         stranded \subseteq stranded',
         call[c].kind = "register" /\ call[c].step # "idle" /\ call[c].id = user.id
           => \/ k.kind = "register" /\ k.step # "idle" /\ k.id = user.id
              \/ customer'.id = user.id
              \/ user.id \in stranded'
  PROVE  NoUserWithoutCustomer'
<1>1. call \in [Calls -> Call] /\ user \in [id : Nat, hash : Nat, version : Nat]
      /\ customer \in [id : Nat, version : Nat, seeded : Nat]
  BY DEF IInv, IdentityTypeOK
<1>2. call'[c] = k /\ \A d \in Calls : d # c => call'[d] = call[d]
  BY <1>1
<1>3. CASE user = NoUser
  BY <1>3 DEF NoUserWithoutCustomer
<1>4. CASE user # NoUser /\ customer.id = user.id
  BY <1>4, <1>1 DEF NoUserWithoutCustomer, Evolves, IInv, RowsOK
<1>5. CASE user.id \in stranded
  BY <1>5 DEF NoUserWithoutCustomer
<1>6. ASSUME NEW d \in Calls, call[d].kind = "register", ~At(d, "idle"),
             call[d].id = user.id
      PROVE  NoUserWithoutCustomer'
  <2>1. CASE d # c
    BY <2>1, <1>2, <1>6 DEF NoUserWithoutCustomer, At
  <2>2. CASE d = c
    BY <2>2, <1>2, <1>6 DEF NoUserWithoutCustomer, At
  <2> QED
    BY <2>1, <2>2
<1> QED
  BY <1>3, <1>4, <1>5, <1>6 DEF IInv, NoUserWithoutCustomer

\* A step that leaves the rows and the links as they are.
LEMMA QuietStep ==
  ASSUME IInv, NEW c \in Calls, NEW k \in Call,
         call' = [call EXCEPT ![c] = k], CallOK(k),
         UNCHANGED <<user, links, customer, registered, drawn>>,
         sessions' \subseteq [id : Nat, version : Nat],
         late' \subseteq Command, mailed' \subseteq Nat,
         stranded \subseteq stranded', stranded' \subseteq Nat, failures' \in Nat,
         \A t \in sessions' : t \in sessions \/ TokenOK(t),
         \A m \in late' : m \in late \/ LateOK(m),
         Changed(k) => Changed(call[c]) /\ k.id = call[c].id
                       /\ k.hash = call[c].hash,
         call[c].kind = "register" /\ call[c].step # "idle" /\ call[c].id = user.id
           => \/ k.kind = "register" /\ k.step # "idle" /\ k.id = user.id
              \/ customer.id = user.id
              \/ user.id \in stranded'
  PROVE  IInv'
<1>1. Evolves
  BY DEF Evolves, IInv, IdentityTypeOK
<1>2. CallOK(k)' /\ RowsOK' /\ OnlyLastLinkWorks'
  BY DEF CallOK, Decided, Behind, Changed, RowsOK, OnlyLastLinkWorks, NoUser,
         NoCustomer, IInv
<1>3. NoUserWithoutCustomer'
  BY <1>1, Witness
<1>4. links' \subseteq Link /\ drawn' \in Nat
  BY DEF IInv, IdentityTypeOK
<1>5. \A t \in sessions' : t \in sessions \/ TokenOK(t)'
  BY DEF TokenOK, Behind
<1>6. \A m \in late' : m \in late \/ LateOK(m)'
  BY DEF LateOK, Behind
<1> QED
  BY <1>1, <1>2, <1>3, <1>4, <1>5, <1>6, RequestStep

-----------------------------------------------------------------------------
(* The handlers that only read.                                             *)

LEMMA Types ==
  ASSUME IInv, NEW c \in Calls
  PROVE  /\ call \in [Calls -> Call] /\ call[c] \in Call /\ CallOK(call[c])
         /\ user \in [id : Nat, hash : Nat, version : Nat]
         /\ customer \in [id : Nat, version : Nat, seeded : Nat]
         /\ registered \in Nat /\ drawn \in Nat /\ failures \in Nat
         /\ sessions \subseteq [id : Nat, version : Nat]
         /\ links \subseteq Link /\ late \subseteq Command
         /\ mailed \subseteq Nat /\ stranded \subseteq Nat
  BY DEF IInv, IdentityTypeOK, CallsOK

LEMMA IdleFacts == Idle \in Call /\ (IInv => CallOK(Idle))
  BY DEF Idle, Call, Kinds, Steps, CallOK, Decided, Changed, IInv, IdentityTypeOK

LEMMA BeginStep ==
  ASSUME IInv, NEW c \in Calls, NEW kind \in Kinds, kind # "register",
         NEW step \in {"version", "revoke", "session", "persist"},
         NEW n \in Nat, n >= 1, n <= registered, Begin(c, kind, step, n),
         step = "version" => kind = "login", step = "revoke" => kind = "logout",
         step = "session" => kind = "change",
         UNCHANGED <<user, links, customer, sessions, mailed, late, registered,
                     drawn, stranded, failures>>
  PROVE  IInv'
<1>1. PICK k : k = [kind |-> kind, step |-> step, id |-> n, hash |-> 0,
                    version |-> 0, ok |-> FALSE]
  OBVIOUS
<1>2. k \in Call
  BY <1>1 DEF Call, Steps
<1>3. CallOK(k) /\ ~Changed(k)
  BY <1>1 DEF CallOK, Decided, Changed
<1>4. call' = [call EXCEPT ![c] = k] /\ call[c].step = "idle"
  BY <1>1 DEF Begin, At
<1> QED
  BY <1>2, <1>3, <1>4, Types, QuietStep

LEMMA EndStep ==
  ASSUME IInv, NEW c \in Calls, End(c),
         UNCHANGED <<user, links, customer, registered, drawn>>,
         sessions' \subseteq [id : Nat, version : Nat],
         late' \subseteq Command, mailed' \subseteq Nat,
         stranded \subseteq stranded', stranded' \subseteq Nat, failures' \in Nat,
         \A t \in sessions' : t \in sessions \/ TokenOK(t),
         \A m \in late' : m \in late \/ LateOK(m),
         \/ call[c].kind # "register"
         \/ call[c].id # user.id
         \/ customer.id = call[c].id
         \/ call[c].id \in stranded'
  PROVE  IInv'
<1>1. call' = [call EXCEPT ![c] = Idle]
  BY DEF End
<1>2. Idle \in Call /\ CallOK(Idle) /\ ~Changed(Idle)
  BY IdleFacts DEF Idle, Changed
<1> QED
  BY <1>1, <1>2, QuietStep

\* A version that Identity holds now, or held before, is sent to Banking.
LEMMA SynchroniseStep ==
  ASSUME IInv, NEW c \in Calls, NEW v \in Nat, Synchronise(c, call[c].id, v),
         call[c].kind # "register", call[c].kind # "change", call[c].id >= 1,
         call[c].id = user.id => v <= user.version,
         UNCHANGED <<user, links, customer, sessions, mailed, late, registered,
                     drawn, stranded, failures>>
  PROVE  IInv'
<1>1. PICK k : k = [kind |-> call[c].kind, step |-> "calling", id |-> call[c].id,
                    hash |-> call[c].hash, version |-> v, ok |-> FALSE]
  OBVIOUS
<1>2. k \in Call
  BY <1>1, Types DEF Call, Steps
<1>3. CallOK(k) /\ ~Changed(k)
  BY <1>1, Types DEF CallOK, Decided, Changed, Behind
<1>4. call' = [call EXCEPT ![c] = k]
  BY <1>1 DEF Synchronise
<1> QED
  BY <1>2, <1>3, <1>4, Types, QuietStep

LEMMA LoginKeeps ==
  ASSUME IInv, NEW c \in Calls, Login(c) PROVE IInv'
<1>1. user.id \in Nat /\ user.id >= 1 /\ user.id <= registered
  BY Types DEF IInv, RowsOK, Login, FindLoginAccount
<1> QED
  BY <1>1, BeginStep DEF Login, Kinds

LEMMA ForgotPasswordKeeps ==
  ASSUME IInv, NEW c \in Calls, ForgotPassword(c) PROVE IInv'
<1>1. user.id \in Nat /\ user.id >= 1 /\ user.id <= registered
  BY Types DEF IInv, RowsOK, ForgotPassword, GetByEmail
<1> QED
  BY <1>1, BeginStep DEF ForgotPassword, Kinds

LEMMA ProtectedKeeps ==
  ASSUME IInv, NEW c \in Calls, Logout(c) \/ ChangePassword(c) PROVE IInv'
<1>1. \A t \in sessions : t.id \in Nat /\ t.id >= 1 /\ t.id <= registered
  BY Types DEF IInv, TokensOK, TokenOK
<1>2. CASE Logout(c)
  BY <1>1, <1>2, BeginStep DEF Logout, Protected, Kinds
<1>3. CASE ChangePassword(c)
  BY <1>1, <1>3, BeginStep DEF ChangePassword, Protected, Kinds
<1> QED
  BY <1>2, <1>3

LEMMA AuthenticateKeeps ==
  ASSUME IInv, NEW c \in Calls, Authenticate(c) PROVE IInv'
<1>1. call[c].kind = "login" /\ call[c].id >= 1
  BY Types DEF Authenticate, At, CallOK
<1>2. CASE user.id = call[c].id
  BY <1>1, <1>2, Types, SynchroniseStep DEF Authenticate, FindLoginAccountByID
<1>3. CASE user.id # call[c].id
  BY <1>1, <1>3, Types, EndStep DEF Authenticate, FindLoginAccountByID
<1> QED
  BY <1>2, <1>3

LEMMA VerifyCurrentPasswordKeeps ==
  ASSUME IInv, NEW c \in Calls, VerifyCurrentPassword(c) PROVE IInv'
<1>1. call[c].kind = "change" /\ call[c].id >= 1
  BY Types DEF VerifyCurrentPassword, At, CallOK
<1>2. CASE user.id = call[c].id
  <2>1. PICK k : k = [kind |-> call[c].kind, step |-> "replace", id |-> call[c].id,
                      hash |-> user.hash, version |-> call[c].version,
                      ok |-> call[c].ok]
    OBVIOUS
  <2>2. k \in Call
    BY <2>1, Types DEF Call, Steps
  <2>3. call' = [call EXCEPT ![c] = k]
    BY <2>1, <1>2, Types
       DEF VerifyCurrentPassword, FindLoginAccountByID, Call
  <2>4. CallOK(k) /\ ~Changed(k)
    BY <2>1, <1>1, Types DEF CallOK, Decided, Changed
  <2> QED
    BY <1>1, <2>2, <2>3, <2>4, Types, QuietStep DEF VerifyCurrentPassword
<1>3. CASE user.id # call[c].id
  BY <1>1, <1>3, Types, EndStep DEF VerifyCurrentPassword, FindLoginAccountByID
<1> QED
  BY <1>2, <1>3

LEMMA SendPasswordResetKeeps ==
  ASSUME IInv, NEW c \in Calls, SendPasswordReset(c) PROVE IInv'
<1>1. call[c].kind # "register"
  BY Types DEF SendPasswordReset, At, CallOK, Decided
<1>2. mailed' \subseteq Nat
  BY Types DEF SendPasswordReset, Call
<1> QED
  BY <1>1, <1>2, Types, EndStep DEF SendPasswordReset

-----------------------------------------------------------------------------
(* The statements that raise the session version.                           *)

LEMMA VersionRaised ==
  ASSUME IInv, NEW c \in Calls, NEW k \in Call, call' = [call EXCEPT ![c] = k],
         user.id >= 1, user' \in [id : Nat, hash : Nat, version : Nat],
         user'.id = user.id, user'.version = user.version + 1,
         user'.hash \in {user.hash, user.version + 1},
         call[c].kind # "register", k.kind # "register", k.step = "calling",
         k.id = user.id, k.version = user.version + 1, ~k.ok,
         k.kind = "change"
           => k.hash = user.hash /\ user'.hash = user.version + 1,
         links' \subseteq Link, OnlyLastLinkWorks',
         UNCHANGED <<customer, sessions, mailed, late, registered, drawn, stranded,
                     failures>>
  PROVE  IInv'
<1>1. user.hash <= user.version /\ user.id <= registered
  BY DEF IInv, RowsOK
<1>2. user'.hash >= user.hash /\ user'.hash <= user'.version
  BY <1>1, Types
<1>3. Evolves
  BY <1>2, Types DEF Evolves
<1>4. CallOK(k)'
  BY <1>1, <1>2, Types DEF CallOK, Decided, Changed, Behind
<1>5. RowsOK'
  BY <1>1, <1>2, Types DEF RowsOK, Behind, IInv
<1>6. user # NoUser
  BY DEF NoUser
<1>7. NoUserWithoutCustomer'
  BY <1>3, <1>6, Witness
<1>8. /\ sessions' \subseteq [id : Nat, version : Nat] /\ late' \subseteq Command
      /\ mailed' \subseteq Nat /\ drawn' \in Nat /\ stranded' \subseteq Nat
      /\ failures' \in Nat
  BY Types
<1>9. Changed(k) => k.id = user.id /\ k.hash = user.hash
  BY DEF Changed
<1> QED
  BY <1>3, <1>4, <1>5, <1>7, <1>8, <1>9, RequestStep

LEMMA RevokeSessionsKeeps ==
  ASSUME IInv, NEW c \in Calls, RevokeSessions(c) PROVE IInv'
<1>1. call[c].kind = "logout" /\ call[c].id >= 1
  BY Types DEF RevokeSessions, At, CallOK
<1>2. CASE StoreRevokeSessions(call[c].id) /\ Synchronise(c, call[c].id, user.version + 1)
  <2>1. PICK k : k = [kind |-> call[c].kind, step |-> "calling", id |-> call[c].id,
                      hash |-> call[c].hash, version |-> user.version + 1,
                      ok |-> FALSE]
    OBVIOUS
  <2>2. k \in Call
    BY <2>1, Types DEF Call, Steps
  <2>3. call' = [call EXCEPT ![c] = k]
    BY <2>1, <1>2 DEF Synchronise
  <2>4. /\ user.id = call[c].id /\ user' \in [id : Nat, hash : Nat, version : Nat]
        /\ user'.id = user.id /\ user'.version = user.version + 1
        /\ user'.hash = user.hash
    BY <1>2, Types DEF StoreRevokeSessions
  <2>5. links' \subseteq Link /\ OnlyLastLinkWorks'
    BY <2>4, Types DEF RevokeSessions, OnlyLastLinkWorks, IInv
  <2> QED
    BY <1>1, <2>1, <2>2, <2>3, <2>4, <2>5, VersionRaised DEF RevokeSessions
<1>3. CASE user.id # call[c].id /\ End(c) /\ UNCHANGED user
  BY <1>1, <1>3, Types, EndStep DEF RevokeSessions
<1> QED
  BY <1>2, <1>3 DEF RevokeSessions

LEMMA ReplacePasswordKeeps ==
  ASSUME IInv, NEW c \in Calls, ReplacePassword(c) PROVE IInv'
<1>1. call[c].kind = "change" /\ call[c].id >= 1
  BY Types DEF ReplacePassword, At, CallOK
<1>2. CASE /\ StoreChangePassword(call[c].id, call[c].hash)
           /\ Synchronise(c, call[c].id, user.version + 1)
  <2>1. PICK k : k = [kind |-> call[c].kind, step |-> "calling", id |-> call[c].id,
                      hash |-> call[c].hash, version |-> user.version + 1,
                      ok |-> FALSE]
    OBVIOUS
  <2>2. k \in Call
    BY <2>1, Types DEF Call, Steps
  <2>3. call' = [call EXCEPT ![c] = k]
    BY <2>1, <1>2 DEF Synchronise
  <2>4. /\ user.id = call[c].id /\ user.hash = call[c].hash
        /\ user' \in [id : Nat, hash : Nat, version : Nat]
        /\ user'.id = user.id /\ user'.version = user.version + 1
        /\ user'.hash = user.version + 1
    BY <1>2, Types DEF StoreChangePassword
  <2>5. links' \subseteq Link /\ OnlyLastLinkWorks'
    BY <2>4, Types DEF ReplacePassword, OnlyLastLinkWorks, IInv
  <2> QED
    BY <1>1, <2>1, <2>2, <2>3, <2>4, <2>5, VersionRaised DEF ReplacePassword
<1>3. CASE (user.id # call[c].id \/ user.hash # call[c].hash) /\ End(c)
           /\ UNCHANGED user
  BY <1>1, <1>3, Types, EndStep DEF ReplacePassword
<1> QED
  BY <1>2, <1>3 DEF ReplacePassword

LEMMA SpentFacts ==
  ASSUME NEW S, S \subseteq Link, NEW n \in Nat, \A r \in S : r.id = n
  PROVE  Spent(S, n) \subseteq Link /\ \A r \in Spent(S, n) : r.id = n /\ ~r.unused
<1> SUFFICES ASSUME NEW q \in Spent(S, n)
             PROVE  q \in Link /\ q.id = n /\ ~q.unused
  OBVIOUS
<1>1. PICK r \in S : q = [r EXCEPT !.unused = FALSE]
  BY DEF Spent
<1>2. r \in Link /\ r.id = n
  OBVIOUS
<1> QED
  BY <1>1, <1>2 DEF Link

LEMMA MailRecord ==
  ASSUME NEW k \in Call, NEW n \in Nat, NEW q,
         q = [k EXCEPT !.step = "mail", !.version = n]
  PROVE  q \in Call /\ q.kind = k.kind /\ q.step = "mail" /\ q.id = k.id
  BY DEF Call, Steps

LEMMA CreatePasswordResetKeeps ==
  ASSUME IInv, NEW c \in Calls, CreatePasswordReset(c) PROVE IInv'
<1>1. call[c].kind # "register" /\ call[c].id >= 1 /\ call[c].step = "persist"
  BY Types DEF CreatePasswordReset, At, CallOK, Decided
<1>2. CASE StoreCreatePasswordReset(call[c].id)
           /\ call' = [call EXCEPT ![c].step = "mail", ![c].version = drawn + 1]
  <2>1. PICK k : k = [call[c] EXCEPT !.step = "mail", !.version = drawn + 1]
    OBVIOUS
  <2>2. k \in Call /\ k.kind = call[c].kind /\ k.step = "mail" /\ k.id = call[c].id
    <3>1. call[c] \in Call /\ drawn + 1 \in Nat
      BY Types
    <3> DEFINE old == call[c]
               n == drawn + 1
    <3>2. old \in Call /\ n \in Nat /\ k = [old EXCEPT !.step = "mail", !.version = n]
      BY <2>1, <3>1
    <3> HIDE DEF old, n
    <3>3. k \in Call /\ k.kind = old.kind /\ k.step = "mail" /\ k.id = old.id
      BY ONLY <3>2, MailRecord
    <3> QED
      BY <3>3 DEF old
  <2>3. call' = [call EXCEPT ![c] = k]
    BY <2>1, <1>2, Types
  <2>4. user.id = call[c].id /\ \A r \in links : r.id = user.id
    BY <1>2 DEF StoreCreatePasswordReset, IInv, OnlyLastLinkWorks
  <2>5. Spent(links, user.id) \subseteq Link
        /\ \A r \in Spent(links, user.id) : r.id = user.id /\ ~r.unused
    BY <2>4, Types, SpentFacts
  <2>6. PICK r : r = [number |-> drawn + 1, id |-> user.id, unused |-> TRUE]
    OBVIOUS
  <2>7. links' = Spent(links, user.id) \union {r} /\ drawn' = drawn + 1
        /\ r \in Link /\ r.number = drawn + 1 /\ r.id = user.id
    BY <1>2, <2>4, <2>6, Types DEF StoreCreatePasswordReset, Link
  <2>8. UNCHANGED <<user, customer, sessions, mailed, late, registered, stranded,
                    failures>>
    BY DEF CreatePasswordReset
  <2>9. Evolves
    BY <2>8, Types DEF Evolves
  <2>10. OnlyLastLinkWorks' /\ links' \subseteq Link /\ drawn' \in Nat
    BY <2>5, <2>7, <2>8, Types DEF OnlyLastLinkWorks
  <2>11. CallOK(k)' /\ ~Changed(k)
    BY <2>2, <2>8, <1>1, Types DEF CallOK, Decided, Changed
  <2>12. RowsOK'
    BY <2>4, <2>8, <1>1, Types DEF RowsOK, IInv, Behind, NoCustomer
  <2>13. NoUserWithoutCustomer'
    BY <2>2, <2>3, <2>8, <2>9, <1>1, Witness
  <2> QED
    BY <2>2, <2>3, <2>8, <2>9, <2>10, <2>11, <2>12, <2>13, Types, RequestStep
<1>3. CASE user.id # call[c].id /\ End(c) /\ UNCHANGED <<links, drawn>>
  BY <1>1, <1>3, Types, EndStep DEF CreatePasswordReset
<1> QED
  BY <1>2, <1>3 DEF CreatePasswordReset

LEMMA ResetPasswordKeeps ==
  ASSUME IInv, NEW c \in Calls, ResetPassword(c) PROVE IInv'
<1>1. PICK r \in links :
        /\ StoreResetPassword(r)
        /\ At(c, "idle")
        /\ call' = [call EXCEPT ![c] =
                      [kind |-> "reset", step |-> "calling", id |-> r.id,
                       hash |-> 0, version |-> user.version + 1, ok |-> FALSE]]
        /\ UNCHANGED <<customer, sessions, mailed, late, registered, drawn,
                       stranded, failures>>
  BY DEF ResetPassword
<1>2. PICK k : k = [kind |-> "reset", step |-> "calling", id |-> r.id,
                    hash |-> 0, version |-> user.version + 1, ok |-> FALSE]
  OBVIOUS
<1>3. user.id = r.id /\ user.id >= 1 /\ \A q \in links : q.id = user.id
  BY <1>1, Types DEF StoreResetPassword, IInv, RowsOK, OnlyLastLinkWorks
<1>4. k \in Call
  BY <1>2, <1>3, Types DEF Call, Kinds, Steps
<1>5. call' = [call EXCEPT ![c] = k] /\ call[c].kind # "register"
  BY <1>1, <1>2, Types DEF At, CallOK, Decided
<1>6. /\ user' \in [id : Nat, hash : Nat, version : Nat]
      /\ user'.id = user.id /\ user'.version = user.version + 1
      /\ user'.hash = user.version + 1
  BY <1>1, Types DEF StoreResetPassword
<1>7. links' = Spent(links \ {r}, user.id)
  BY <1>1, <1>3 DEF StoreResetPassword
<1>8. links' \subseteq Link /\ \A q \in links' : q.id = user.id /\ ~q.unused
  BY <1>3, <1>7, Types, SpentFacts
<1>9. OnlyLastLinkWorks'
  BY <1>6, <1>8 DEF OnlyLastLinkWorks
<1> QED
  BY <1>1, <1>2, <1>3, <1>4, <1>5, <1>6, <1>8, <1>9, VersionRaised

-----------------------------------------------------------------------------
(* Banking's side, the replies, and the compensation.                       *)

\* Both writers set the version of Banking's row and leave its id.
LEMMA WrittenRow ==
  ASSUME NEW row \in [id : Nat, version : Nat, seeded : Nat], NEW v \in Nat,
         NEW n \in Nat, NEW q, q = [row EXCEPT !.version = v, !.seeded = n]
  PROVE  /\ q \in [id : Nat, version : Nat, seeded : Nat]
         /\ q.id = row.id /\ q.version = v /\ q.seeded = n
OBVIOUS

\* Executing a command about a user that Identity once knew keeps Banking's row in
\* order, and an accepted command is about that row.
LEMMA ExecuteFacts ==
  ASSUME IInv, NEW m \in Command, m.id >= 1, m.id <= registered, Behind(m),
         Execute(m), UNCHANGED <<user, links, registered>>
  PROVE  /\ customer' \in [id : Nat, version : Nat, seeded : Nat]
         /\ Evolves /\ RowsOK'
         /\ Accepts(m) => customer'.id = m.id
<1>1. /\ user \in [id : Nat, hash : Nat, version : Nat] /\ registered \in Nat
      /\ customer \in [id : Nat, version : Nat, seeded : Nat] /\ RowsOK
  BY DEF IInv, IdentityTypeOK
<1>2. m.id \in Nat /\ m.version \in Nat
  BY DEF Command
<1>3. /\ customer' \in [id : Nat, version : Nat, seeded : Nat]
      /\ customer'.id \in {customer.id, m.id}
      /\ customer.id # 0 => customer'.id = customer.id
      /\ customer'.id # 0 \/ customer' = customer
      /\ \/ customer' = customer
         \/ customer'.version = 0
         \/ customer'.id = m.id /\ customer'.version = m.version
      /\ Accepts(m) => customer'.id = m.id
  <2>1. CASE m.provision
    BY <2>1, <1>1, <1>2 DEF Execute, ProvisionCustomerInternal, Accepts, NoCustomer
  <2>2. CASE ~m.provision
    <3>1. CASE customer.id = m.id
      <4>1. customer' = [customer EXCEPT !.version = m.version, !.seeded = 0]
        BY <2>2, <3>1 DEF Execute, SetUserSessionVersion
      <4>2. /\ customer' \in [id : Nat, version : Nat, seeded : Nat]
            /\ customer'.id = customer.id /\ customer'.version = m.version
        BY <1>1, <1>2, <4>1, WrittenRow
      <4> QED BY <2>2, <3>1, <4>2, <1>1 DEF Accepts, RowsOK, NoCustomer
    <3>2. CASE customer.id # m.id
      BY <2>2, <3>2, <1>1 DEF Execute, SetUserSessionVersion, Accepts
    <3> QED BY <3>1, <3>2
  <2> QED
    BY <2>1, <2>2
<1>4. Evolves
  BY <1>1, <1>3 DEF Evolves
<1>5. RowsOK'
  <2>1. customer'.id = user.id => customer'.version <= user.version + customer'.seeded
    BY <1>1, <1>2, <1>3 DEF RowsOK, Behind
  <2>2. customer'.id <= registered /\ (customer'.id = 0 => customer' = NoCustomer)
    BY <1>1, <1>2, <1>3 DEF RowsOK
  <2> QED BY <1>1, <2>1, <2>2 DEF RowsOK
<1> QED
  BY <1>3, <1>4, <1>5

\* The address keeps its user and nothing happens to the links.
LEMMA SameUser ==
  ASSUME IInv, UNCHANGED <<user, links, drawn>>
  PROVE  OnlyLastLinkWorks' /\ links' \subseteq Link /\ drawn' \in Nat
  BY DEF IInv, IdentityTypeOK, OnlyLastLinkWorks

LEMMA CommandFacts ==
  ASSUME IInv, NEW c \in Calls, At(c, "calling")
  PROVE  LET m == CommandOf(call[c])
         IN m \in Command /\ m.id = call[c].id /\ LateOK(m)
<1>1. call[c] \in Call /\ CallOK(call[c])
  BY Types
<1>2. PICK m : m = CommandOf(call[c])
  OBVIOUS
<1>3. m \in Command /\ m.id = call[c].id /\ m.version = call[c].version
  BY <1>1, <1>2 DEF CommandOf, Command, Call
<1>4. LateOK(m)
  BY <1>1, <1>3 DEF LateOK, CallOK, Decided, Behind, At
<1> QED
  BY <1>2, <1>3, <1>4

LEMMA AnsweredRecord ==
  ASSUME NEW k \in Call, NEW ok \in BOOLEAN, NEW q,
         q = [k EXCEPT !.step = "answered", !.ok = ok]
  PROVE  /\ q \in Call /\ q.kind = k.kind /\ q.step = "answered" /\ q.id = k.id
         /\ q.hash = k.hash /\ q.version = k.version /\ q.ok = ok
  BY DEF Call, Steps

LEMMA UndoRecord ==
  ASSUME NEW k \in Call, NEW q, q = [k EXCEPT !.step = "undo"]
  PROVE  /\ q \in Call /\ q.kind = k.kind /\ q.step = "undo" /\ q.id = k.id
         /\ q.version = k.version
  BY DEF Call, Steps

LEMMA AnswerKeeps ==
  ASSUME IInv, NEW c \in Calls, Answer(c) PROVE IInv'
<1>1. PICK m : m = CommandOf(call[c])
  OBVIOUS
<1>2. m \in Command /\ m.id = call[c].id /\ LateOK(m)
  BY <1>1, CommandFacts DEF Answer
<1>3. call[c] \in Call /\ CallOK(call[c]) /\ call[c].step = "calling"
  BY Types DEF Answer, At
<1>4. PICK ok : ok = Accepts(m)
  OBVIOUS
<1>5. ok \in BOOLEAN
  BY <1>4 DEF Accepts
<1>13. PICK k : k = [call[c] EXCEPT !.step = "answered", !.ok = ok]
  OBVIOUS
<1>6. /\ k \in Call /\ k.kind = call[c].kind /\ k.step = "answered"
      /\ k.id = call[c].id /\ k.hash = call[c].hash
      /\ k.version = call[c].version /\ k.ok = ok
  BY ONLY <1>3, <1>5, <1>13 DEF Call, Steps
<1>7. call' = [call EXCEPT ![c] = k]
  BY <1>1, <1>4, <1>13, Types DEF Answer
<1>8. UNCHANGED <<user, links, sessions, mailed, late, registered, drawn,
                  stranded, failures>>
  BY DEF Answer
<1>9. Evolves /\ RowsOK' /\ (Accepts(m) => customer'.id = m.id)
  BY <1>1, <1>2, <1>8, ExecuteFacts DEF Answer, LateOK
<1>10. CallOK(k)'
  <2>1. PICK q \in Call : q = call[c]
    BY <1>3
  <2>2. CallOK(q)'
    BY <2>1, <1>3, <1>9, CallKept
  <2>3. /\ k.id = q.id /\ k.version = q.version /\ k.kind = q.kind
        /\ k.hash = q.hash /\ q.step = "calling"
    BY <2>1, <1>3, <1>6
  <2> QED
    BY <2>2, <2>3, <1>2, <1>4, <1>6, <1>9 DEF CallOK, Decided, Changed, Behind
<1>11. NoUserWithoutCustomer'
  BY <1>3, <1>6, <1>7, <1>8, <1>9, Witness
<1>12. Changed(k) => /\ Changed(call[c]) /\ k.id = call[c].id
                     /\ k.hash = call[c].hash
  BY <1>3, <1>6 DEF Changed
<1> QED
  BY <1>6, <1>7, <1>8, <1>9, <1>10, <1>11, <1>12, Types, SameUser, RequestStep

LEMMA ExecuteLateKeeps ==
  ASSUME IInv, NEW m \in late, ExecuteLate(m) PROVE IInv'
<1>1. m \in Command /\ LateOK(m)
  BY DEF IInv, IdentityTypeOK, LatesOK
<1>2. UNCHANGED <<user, links, sessions, mailed, call, registered, drawn,
                  stranded, failures>> /\ late' \subseteq late
  BY DEF ExecuteLate
<1>3. Evolves /\ RowsOK'
  BY <1>1, <1>2, ExecuteFacts DEF ExecuteLate, LateOK
<1>4. OnlyLastLinkWorks' /\ OneChangePerPassword'
  BY <1>2 DEF IInv, OnlyLastLinkWorks, OneChangePerPassword
<1>5. IdentityTypeOK'
  BY <1>2, <1>3 DEF IInv, IdentityTypeOK, Evolves
<1>6. CallsOK'
  <2> SUFFICES ASSUME NEW d \in Calls PROVE CallOK(call[d])'
    BY DEF CallsOK
  <2>1. PICK q \in Call : q = call[d]
    BY DEF IInv, IdentityTypeOK
  <2>2. CallOK(q)
    BY <2>1 DEF IInv, CallsOK
  <2>3. CallOK(q)'
    BY <2>2, <1>3, CallKept
  <2>4. call'[d] = q
    BY <2>1, <1>2
  <2> QED
    BY <2>3, <2>4 DEF CallOK, Decided, Changed, Behind
<1>7. TokensOK'
  BY <1>2, <1>3, TokenKept DEF IInv, TokensOK, IdentityTypeOK
<1>8. LatesOK'
  BY <1>2, <1>3, LateKept DEF IInv, LatesOK, IdentityTypeOK
<1>9. NoUserWithoutCustomer'
  BY <1>2, <1>3 DEF IInv, NoUserWithoutCustomer, Evolves, RowsOK, At
<1> QED
  BY <1>3, <1>4, <1>5, <1>6, <1>7, <1>8, <1>9 DEF IInv

\* The seeding of the administrator draws an id of its own, or counts the version
\* of a row up that keeps its id.
LEMMA SeedKeeps ==
  ASSUME IInv, SeedConfiguredAdmin PROVE IInv'
<1>1. /\ UNCHANGED <<user, links, sessions, mailed, call, late, drawn, stranded,
                     failures>>
      /\ late' \subseteq late
  BY DEF SeedConfiguredAdmin
<1>2. /\ user \in [id : Nat, hash : Nat, version : Nat] /\ registered \in Nat
      /\ customer \in [id : Nat, version : Nat, seeded : Nat] /\ RowsOK
  BY DEF IInv, IdentityTypeOK
<1>3. Evolves /\ RowsOK'
  <2>1. CASE /\ customer.id = 0 /\ registered' = registered + 1
             /\ customer' = [NoCustomer EXCEPT !.id = registered + 1]
    <3>1. customer' = [id |-> registered + 1, version |-> 0, seeded |-> 0]
      BY <2>1 DEF NoCustomer
    <3> QED BY <1>1, <1>2, <2>1, <3>1 DEF Evolves, RowsOK, NoUser
  <2>2. CASE /\ customer.id # 0 /\ registered' = registered
             /\ customer' = [customer EXCEPT !.version = @ + 1, !.seeded = @ + 1]
    <3>1. customer.version + 1 \in Nat /\ customer.seeded + 1 \in Nat
      BY <1>2
    <3>2. customer' = [customer EXCEPT !.version = customer.version + 1,
                                       !.seeded = customer.seeded + 1]
      BY <2>2
    <3>3. /\ customer' \in [id : Nat, version : Nat, seeded : Nat]
          /\ customer'.id = customer.id /\ customer'.version = customer.version + 1
          /\ customer'.seeded = customer.seeded + 1
      BY <1>2, <3>1, <3>2, WrittenRow
    <3> QED BY <1>1, <1>2, <2>2, <3>3 DEF Evolves, RowsOK
  <2> QED BY <2>1, <2>2 DEF SeedConfiguredAdmin, UpsertAdminUser
<1>4. OnlyLastLinkWorks' /\ OneChangePerPassword'
  BY <1>1 DEF IInv, OnlyLastLinkWorks, OneChangePerPassword
<1>5. IdentityTypeOK'
  BY <1>1, <1>3 DEF IInv, IdentityTypeOK, Evolves
<1>6. CallsOK'
  <2> SUFFICES ASSUME NEW d \in Calls PROVE CallOK(call[d])'
    BY DEF CallsOK
  <2>1. PICK q \in Call : q = call[d]
    BY DEF IInv, IdentityTypeOK
  <2>2. CallOK(q)
    BY <2>1 DEF IInv, CallsOK
  <2>3. CallOK(q)'
    BY <2>2, <1>3, CallKept
  <2>4. call'[d] = q
    BY <2>1, <1>1
  <2> QED
    BY <2>3, <2>4 DEF CallOK, Decided, Changed, Behind
<1>7. TokensOK'
  BY <1>1, <1>3, TokenKept DEF IInv, TokensOK, IdentityTypeOK
<1>8. LatesOK'
  BY <1>1, <1>3, LateKept DEF IInv, LatesOK, IdentityTypeOK
<1>9. NoUserWithoutCustomer'
  BY <1>1, <1>2, <1>3 DEF IInv, NoUserWithoutCustomer, Evolves, RowsOK, At
<1> QED
  BY <1>3, <1>4, <1>5, <1>6, <1>7, <1>8, <1>9 DEF IInv

LEMMA FinishKeeps ==
  ASSUME IInv, NEW c \in Calls, Finish(c) PROVE IInv'
<1>1. call[c] \in Call /\ CallOK(call[c]) /\ call[c].step = "answered"
  BY Types DEF Finish, At
<1>2. UNCHANGED <<user, links, customer, mailed, late, registered, drawn,
                  stranded, failures>>
  BY DEF Finish
<1>3. PICK t : t = [id |-> call[c].id, version |-> call[c].version]
  OBVIOUS
<1>4. /\ t \in [id : Nat, version : Nat] /\ t.id = call[c].id
      /\ t.version = call[c].version
  BY <1>1, <1>3 DEF Call
<1>5. Hands(call[c]) => TokenOK(t)
  BY <1>1, <1>4 DEF Hands, CallOK, Decided, TokenOK, Behind
<1>6. sessions' \subseteq [id : Nat, version : Nat]
      /\ \A q \in sessions' : q \in sessions \/ TokenOK(q)
  BY <1>3, <1>4, <1>5, Types DEF Finish
<1>7. CASE call[c].kind = "register" /\ ~call[c].ok
  <2>1. PICK k : k = [call[c] EXCEPT !.step = "undo"]
    OBVIOUS
  <2>2. /\ k \in Call /\ k.kind = call[c].kind /\ k.step = "undo"
        /\ k.id = call[c].id /\ k.version = call[c].version
    BY ONLY <1>1, <2>1, UndoRecord
  <2>3. call' = [call EXCEPT ![c] = k]
    BY <1>7, <2>1, Types DEF Finish, Goto
  <2>4. CallOK(k) /\ ~Changed(k)
    BY <1>1, <1>7, <2>2 DEF CallOK, Decided, Changed, Behind
  <2> QED
    BY <1>2, <1>6, <2>2, <2>3, <2>4, Types, QuietStep
<1>8. CASE ~(call[c].kind = "register" /\ ~call[c].ok)
  <2>1. End(c)
    BY <1>8 DEF Finish
  <2>2. call[c].kind # "register" \/ customer.id = call[c].id
    BY <1>1, <1>8 DEF CallOK
  <2> QED
    BY <1>2, <1>6, <2>1, <2>2, Types, EndStep
<1> QED
  BY <1>7, <1>8

\* What a request leaves behind is in order.
LEMMA LeaveBehindFacts ==
  ASSUME IInv, NEW c \in Calls, LeaveBehind(c)
  PROVE  late' \subseteq Command /\ \A m \in late' : m \in late \/ LateOK(m)
<1>1. CASE At(c, "calling")
  <2>1. PICK m : m = CommandOf(call[c])
    OBVIOUS
  <2>2. m \in Command /\ LateOK(m)
    BY <1>1, <2>1, CommandFacts
  <2>3. late' \subseteq late \union {m}
    BY <1>1, <2>1 DEF LeaveBehind
  <2> QED
    BY <2>2, <2>3, Types
<1>2. CASE ~At(c, "calling")
  BY <1>2, Types DEF LeaveBehind
<1> QED
  BY <1>1, <1>2

LEMMA LoseReplyKeeps ==
  ASSUME IInv, NEW c \in Calls, LoseReply(c) PROVE IInv'
<1>1. call[c] \in Call /\ CallOK(call[c])
  BY Types
<1>2. late' \subseteq Command /\ \A m \in late' : m \in late \/ LateOK(m)
  BY LeaveBehindFacts DEF LoseReply
<1>3. UNCHANGED <<user, links, customer, sessions, mailed, registered, drawn,
                  stranded>> /\ failures' \in Nat
  BY Types DEF LoseReply, Fail
<1>4. CASE call[c].kind = "register"
  <2>1. PICK k : k = [call[c] EXCEPT !.step = "undo"]
    OBVIOUS
  <2>2. /\ k \in Call /\ k.kind = call[c].kind /\ k.step = "undo"
        /\ k.id = call[c].id /\ k.version = call[c].version
    BY ONLY <1>1, <2>1, UndoRecord
  <2>3. call' = [call EXCEPT ![c] = k]
    BY <1>4, <2>1, Types DEF LoseReply, Goto
  <2>4. CallOK(k) /\ ~Changed(k)
    BY <1>1, <1>4, <2>2 DEF CallOK, Decided, Changed, Behind
  <2> QED
    BY <1>2, <1>3, <2>2, <2>3, <2>4, Types, QuietStep
<1>5. CASE call[c].kind # "register"
  BY <1>2, <1>3, <1>5, Types, EndStep DEF LoseReply
<1> QED
  BY <1>4, <1>5

LEMMA StopKeeps ==
  ASSUME IInv, NEW c \in Calls, Stop(c) PROVE IInv'
<1>1. call[c] \in Call
  BY Types
<1>2. late' \subseteq Command /\ \A m \in late' : m \in late \/ LateOK(m)
  BY LeaveBehindFacts DEF Stop
<1>3. UNCHANGED <<user, links, customer, sessions, mailed, registered, drawn>>
      /\ failures' \in Nat
  BY Types DEF Stop, Fail
<1>4. /\ stranded \subseteq stranded' /\ stranded' \subseteq Nat
      /\ call[c].kind = "register" => call[c].id \in stranded'
  BY <1>1, Types DEF Stop, Call
<1> QED
  BY <1>2, <1>3, <1>4, Types, EndStep DEF Stop

LEMMA CompensateKeeps ==
  ASSUME IInv, NEW c \in Calls, Compensate(c) PROVE IInv'
<1>1. call[c] \in Call /\ CallOK(call[c]) /\ call[c].id >= 1
  BY Types DEF Compensate, At, CallOK
<1>2. UNCHANGED <<customer, sessions, mailed, late, registered, drawn, stranded,
                  failures>>
  BY DEF Compensate
<1>3. call' = [call EXCEPT ![c] = Idle] /\ Idle \in Call /\ ~Changed(Idle)
  BY IdleFacts DEF Compensate, End, Idle, Changed
<1>4. CASE user.id = call[c].id
  <2>1. user' = NoUser /\ links' = {}
    BY <1>4 DEF Compensate, StoreDelete, IInv, OnlyLastLinkWorks
  <2>2. Evolves
    BY <1>1, <1>2, <1>4, <2>1, Types DEF Evolves, NoUser
  <2>3. CallOK(Idle)' /\ RowsOK' /\ OnlyLastLinkWorks' /\ NoUserWithoutCustomer'
    BY <1>2, <2>1, Types
       DEF CallOK, Idle, Decided, Changed, RowsOK, NoUser, NoCustomer, Behind,
           OnlyLastLinkWorks, NoUserWithoutCustomer, IInv
  <2> QED
    BY <1>2, <1>3, <2>1, <2>2, <2>3, Types, RequestStep
<1>5. CASE user.id # call[c].id
  BY <1>2, <1>5, Types, EndStep DEF Compensate, StoreDelete
<1> QED
  BY <1>4, <1>5

LEMMA RegisterKeeps ==
  ASSUME IInv, NEW c \in Calls, Register(c) PROVE IInv'
<1>1. /\ user = NoUser /\ registered' = registered + 1
      /\ user' = [id |-> registered + 1, hash |-> 0, version |-> 0]
      /\ Begin(c, "register", "calling", registered + 1)
      /\ UNCHANGED <<links, customer, sessions, mailed, late, drawn, stranded,
                     failures>>
  BY DEF Register, StoreRegister
<1>2. user.id = 0 /\ links = {}
  BY <1>1 DEF NoUser, IInv, RowsOK
<1>3. PICK k : k = [kind |-> "register", step |-> "calling",
                    id |-> registered + 1, hash |-> 0, version |-> 0, ok |-> FALSE]
  OBVIOUS
<1>4. k \in Call /\ ~Changed(k)
  BY <1>3, Types DEF Call, Kinds, Steps, Changed
<1>5. call' = [call EXCEPT ![c] = k]
  BY <1>1, <1>3 DEF Begin
<1>6. Evolves
  BY <1>1, <1>2, Types DEF Evolves
<1>7. CallOK(k)' /\ RowsOK' /\ OnlyLastLinkWorks'
  BY <1>1, <1>2, <1>3, Types
     DEF CallOK, Decided, Changed, RowsOK, NoCustomer, Behind, OnlyLastLinkWorks,
         IInv
<1>8. NoUserWithoutCustomer'
  <2>1. call'[c] = k
    BY <1>5, Types
  <2> QED
    BY <1>1, <1>3, <2>1 DEF NoUserWithoutCustomer, At
<1> QED
  BY <1>1, <1>2, <1>4, <1>5, <1>6, <1>7, <1>8, Types, RequestStep

-----------------------------------------------------------------------------
(* The theorems.                                                            *)

LEMMA IdentityInitEstablishes == IdentityInit => IInv
<1> SUFFICES ASSUME IdentityInit PROVE IInv
  OBVIOUS
<1>1. Idle \in Call
  BY IdleFacts
<1>2. IdentityTypeOK
  BY <1>1 DEF IdentityInit, IdentityTypeOK, NoUser, NoCustomer
<1>3. CallsOK
  <2> SUFFICES ASSUME NEW c \in Calls PROVE CallOK(call[c])
    BY DEF CallsOK
  <2>1. call[c] = Idle
    BY DEF IdentityInit
  <2> QED
    BY <2>1 DEF Idle, CallOK, Decided, Changed, IdentityInit
<1>4. RowsOK /\ TokensOK /\ LatesOK /\ OnlyLastLinkWorks /\ NoUserWithoutCustomer
  BY DEF IdentityInit, RowsOK, NoUser, NoCustomer, Behind, TokensOK, LatesOK,
         OnlyLastLinkWorks, NoUserWithoutCustomer
<1>5. OneChangePerPassword
  BY DEF IdentityInit, OneChangePerPassword, Idle
<1> QED
  BY <1>2, <1>3, <1>4, <1>5 DEF IInv

LEMMA IdentityNextPreserves == IInv /\ [IdentityNext]_vars => IInv'
<1> SUFFICES ASSUME IInv, [IdentityNext]_vars PROVE IInv'
  OBVIOUS
<1>1. ASSUME NEW c \in Calls, Handler(c) PROVE IInv'
  BY <1>1, RegisterKeeps, LoginKeeps, AuthenticateKeeps, ProtectedKeeps,
     RevokeSessionsKeeps, VerifyCurrentPasswordKeeps, ReplacePasswordKeeps,
     ForgotPasswordKeeps, CreatePasswordResetKeeps, SendPasswordResetKeeps,
     ResetPasswordKeeps, FinishKeeps, CompensateKeeps DEF Handler
<1>2. ASSUME NEW c \in Calls, Answer(c) \/ LoseReply(c) \/ Stop(c) PROVE IInv'
  BY <1>2, AnswerKeeps, LoseReplyKeeps, StopKeeps
<1>3. ASSUME NEW m \in late, ExecuteLate(m) PROVE IInv'
  BY <1>3, ExecuteLateKeeps
<1>4. CASE SeedConfiguredAdmin
  BY <1>4, SeedKeeps
<1>5. CASE UNCHANGED vars
  BY <1>5 DEF vars, IInv, IdentityTypeOK, RowsOK, CallsOK, CallOK, Decided,
              Changed, Behind, TokensOK, TokenOK, LatesOK, LateOK,
              OnlyLastLinkWorks, OneChangePerPassword, NoUserWithoutCustomer, At
<1> QED
  BY <1>1, <1>2, <1>3, <1>4, <1>5 DEF IdentityNext

\* Every table row, request, session and command has its type, and what IInv says
\* of them holds, in every reachable state.
THEOREM IdentityInvariant == IdentitySpec => []IInv
<1>1. IdentityInit => IInv
  BY IdentityInitEstablishes
<1>2. IInv /\ [IdentityNext]_vars => IInv'
  BY IdentityNextPreserves
<1> QED
  BY <1>1, <1>2, PTL DEF IdentitySpec

\* No lost, refused or late reply hands out a session for a user without a
\* customer.
THEOREM SessionsHaveCustomers == IdentitySpec => []SessionHasCustomer
<1>1. IInv => SessionHasCustomer
  BY DEF IInv, TokensOK, TokenOK, SessionHasCustomer, IdentityTypeOK
<1> QED
  BY <1>1, IdentityInvariant, PTL

\* The commands under way and the sessions never run ahead of the version Identity
\* holds, and Banking's copy only by the seedings since Identity last wrote it
\* (SetUserSessionVersion, UpsertAdminUser).
THEOREM IdentityIsAhead == IdentitySpec => []OwnerIsAhead
<1>1. IInv => OwnerIsAhead
  BY DEF IInv, RowsOK, TokensOK, TokenOK, LatesOK, LateOK, Behind, OwnerIsAhead
<1> QED
  BY <1>1, IdentityInvariant, PTL

\* Only the reset link drawn last works, and for the present user of the address.
THEOREM LastLinkWorks == IdentitySpec => []OnlyLastLinkWorks
<1>1. IInv => OnlyLastLinkWorks
  BY DEF IInv
<1> QED
  BY <1>1, IdentityInvariant, PTL

\* Of the changes that verified one password at most one replaces it.
THEOREM PasswordChangedOnce == IdentitySpec => []OneChangePerPassword
<1>1. IInv => OneChangePerPassword
  BY DEF IInv
<1> QED
  BY <1>1, IdentityInvariant, PTL

\* Registration leaves no user without a customer unless it was stopped before its
\* compensation.
THEOREM RegistrationIsCompensated == IdentitySpec => []NoUserWithoutCustomer
<1>1. IInv => NoUserWithoutCustomer
  BY DEF IInv
<1> QED
  BY <1>1, IdentityInvariant, PTL
=============================================================================
