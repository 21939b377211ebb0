---------------------------- MODULE MCAccountsProofs ----------------------------
(***************************************************************************)
(* Proofs about what writes accounts and their monitors at the same time,  *)
(* for any accounts, registrations, starts of the API and manifests.       *)
(***************************************************************************)
EXTENDS MCAccounts, FiniteSetTheorems, SequenceTheorems, TLAPS

-----------------------------------------------------------------------------
(* The quota on the monitors of an account *)

Allowed == {r \in Requests : request[r] = "allowed"}

\* A request counted when there was room; as many as are allowed may still insert.
QuotaInvariant ==
    /\ TypeOK
    /\ own + Cardinality(Allowed) + 1 <= Max + Cardinality(Requests)
    /\ ~Demo => seeded = {}

LEMMA SizesOK ==
  ASSUME TypeOK
  PROVE  /\ Cardinality(Allowed) \in Nat /\ Cardinality(Requests) \in Nat
         /\ Cardinality(seeded) \in Nat /\ Cardinality(SeedKeys) \in Nat
         /\ Cardinality(Allowed) <= Cardinality(Requests)
         /\ Cardinality(seeded) <= Cardinality(SeedKeys)
         /\ IsFiniteSet(Allowed)
<1>1. Allowed \subseteq Requests /\ seeded \subseteq SeedKeys
  BY DEF Allowed, TypeOK
<1>2. IsFiniteSet(Allowed) /\ IsFiniteSet(seeded)
  BY <1>1, QuotaAssumption, FS_Subset
<1> QED
  BY <1>1, <1>2, QuotaAssumption, FS_Subset, FS_CardinalityType

LEMMA InitQuota == Init => QuotaInvariant
<1> SUFFICES ASSUME Init PROVE QuotaInvariant
  OBVIOUS
<1>1. TypeOK
  BY DEF Init, TypeOK
<1>2. Allowed = {}
  BY DEF Init, Allowed
<1>3. Cardinality(Allowed) = 0
  BY <1>2, FS_EmptySet
<1> QED
  BY <1>1, <1>3, SizesOK, QuotaAssumption DEF Init, QuotaInvariant

LEMMA NextQuota == QuotaInvariant /\ [Next]_vars => QuotaInvariant'
<1> SUFFICES ASSUME QuotaInvariant, [Next]_vars PROVE QuotaInvariant'
  OBVIOUS
<1>0. TypeOK /\ own \in Nat /\ Max \in Nat
  BY QuotaAssumption DEF QuotaInvariant, TypeOK
<1>1. TypeOK'
  BY <1>0 DEF TypeOK, Next, DeleteMonitor, DemoReset, CountMonitors, InsertMonitor,
              SeedMonitor, vars
<1>2. /\ Cardinality(Allowed) \in Nat /\ Cardinality(Requests) \in Nat
      /\ Cardinality(Allowed)' \in Nat /\ Cardinality(Allowed)' <= Cardinality(Requests)
  <2> DEFINE After == {r \in Requests : request'[r] = "allowed"}
  <2>0. After \subseteq Requests /\ IsFiniteSet(Requests)
    BY QuotaAssumption
  <2>1. Cardinality(After) \in Nat /\ Cardinality(After) <= Cardinality(Requests)
    BY <2>0, FS_Subset, FS_CardinalityType
  <2>2. Allowed' = After
    BY DEF Allowed
  <2>3. Cardinality(Allowed)' = Cardinality(After)
    BY <2>2
  <2> HIDE DEF After
  <2> QED
    BY <2>1, <2>3, <1>0, SizesOK
<1>3. ASSUME NEW r \in Requests, CountMonitors(r) PROVE QuotaInvariant'
  <2>1. own + 1 <= Max
    BY <1>0, <1>3, SizesOK DEF CountMonitors, Total
  <2> QED
    BY <1>0, <1>1, <1>2, <1>3, <2>1 DEF CountMonitors, QuotaInvariant
<1>4. ASSUME NEW r \in Requests, InsertMonitor(r) PROVE QuotaInvariant'
  <2>1. r \in Allowed /\ Allowed' = Allowed \ {r}
    BY <1>0, <1>4 DEF InsertMonitor, Allowed, TypeOK
  <2>2. Cardinality(Allowed') = Cardinality(Allowed) - 1
    BY <2>1, <1>0, SizesOK, FS_RemoveElement
  <2>3. own' <= own + 1 /\ own' \in Nat
    BY <1>0, <1>4 DEF InsertMonitor
  <2>4. own' + Cardinality(Allowed') + 1 <= Max + Cardinality(Requests)
    BY <1>0, <1>2, <2>2, <2>3 DEF QuotaInvariant
  <2> QED
    BY <1>1, <1>4, <2>4 DEF InsertMonitor, QuotaInvariant
<1>5. ASSUME UNCHANGED request, own' \in Nat, own' <= own, ~Demo => seeded' = {}
      PROVE  QuotaInvariant'
  <2>1. Allowed' = Allowed
    BY <1>5 DEF Allowed
  <2> QED
    BY <1>0, <1>1, <1>2, <1>5, <2>1 DEF QuotaInvariant
<1>6. CASE DeleteMonitor \/ DemoReset \/ (\E k \in SeedKeys : SeedMonitor(k)) \/ UNCHANGED vars
  BY <1>0, <1>5, <1>6 DEF DeleteMonitor, DemoReset, SeedMonitor, vars, QuotaInvariant
<1> QED
  BY <1>3, <1>4, <1>6 DEF Next

LEMMA QuotaSound == QuotaInvariant => OvershootBounded
<1> SUFFICES ASSUME QuotaInvariant PROVE OvershootBounded
  OBVIOUS
<1>1. TypeOK /\ own \in Nat /\ Max \in Nat
  BY QuotaAssumption DEF QuotaInvariant, TypeOK
<1>2. own + 1 <= Max + Cardinality(Requests)
  BY <1>1, SizesOK DEF QuotaInvariant
<1>3. CASE Demo
  BY <1>1, <1>2, <1>3, SizesOK DEF OvershootBounded, Total
<1>4. CASE ~Demo
  <2>1. Cardinality(seeded) = 0
    BY <1>4, FS_EmptySet DEF QuotaInvariant
  <2> QED
    BY <1>1, <1>2, <1>4, <2>1, SizesOK DEF OvershootBounded, Total
<1> QED
  BY <1>3, <1>4

-----------------------------------------------------------------------------
(* The accounts *)

AccountRows == [email : Emails, username : Emails \cup Names,
                password : Registry!Knowers \cup {Registry!Disabled},
                is_active : BOOLEAN, is_demo : BOOLEAN,
                creator : Actors \cup {"status", "demo"}]

\* A seed's username is its own email; an unusable password and an inactive account
\* are the status seed's; who knows the password created the account, or it is the demo's.
Faithful(u) ==
    /\ u.username \in Emails => u.username = u.email
    /\ u.creator = "status" => u.is_active = FALSE
    /\ u.password = Registry!Disabled => u.creator = "status"
    /\ u.password \in Registry!Knowers => u.creator = u.password \/ u.is_demo = TRUE

TableOK ==
    /\ users \in Seq(AccountRows)
    /\ \A i, j \in DOMAIN users :
          users[i].email = users[j].email \/ users[i].username = users[j].username => i = j
    /\ \A i \in DOMAIN users : Faithful(users[i])

\* The account with the email is one its password's owner created, or the demo's.
Named(e, w) ==
    \E i \in DOMAIN users :
        users[i].email = e /\ (users[i].creator = w \/ users[i].is_demo = TRUE)

RegOK(r) ==
    reg[r] # Registry!Idle =>
        /\ reg[r].pc \in {"email", "username", "insert", "bad_request", "internal_error", "created"}
        /\ reg[r] = [pc |-> reg[r].pc, email |-> reg[r].email, username |-> reg[r].username]
        /\ reg[r].email \in Emails /\ reg[r].username \in Names
        /\ reg[r].pc = "created" =>
              \E i \in DOMAIN users : /\ users[i].creator = r /\ users[i].email = reg[r].email
                                      /\ users[i].username = reg[r].username

\* The rows a login has read may be old; what they tell of who signs in stays true.
LoginOK(w) ==
    login[w] # Registry!Idle =>
        \A x \in login[w].rows :
            x.password \in Registry!Knowers => Named(x.email, x.password)

SeedOK(s) ==
    /\ seed[s] # Registry!Idle /\ seed[s].pc # "ended" =>
          /\ seed[s].pc \in {"lookup", "owner", "demo"} /\ seed[s].env.demo \in Emails
          /\ seed[s].pc # "demo" => seed[s].env.owner \in Emails
    /\ seed[s].pc = "owner" =>
          \A i \in seed[s].existing : i \in DOMAIN users /\ users[i].creator = "status"

RegistryInvariant ==
    /\ TableOK
    /\ env \in [owner : Emails \cup {None}, demo : Emails]
    /\ reg = [r \in Actors |-> reg[r]] /\ \A r \in Actors : RegOK(r)
    /\ login = [w \in Registry!Knowers |-> login[w]] /\ \A w \in Registry!Knowers : LoginOK(w)
    /\ seed = [s \in Starts |-> seed[s]] /\ \A s \in Starts : SeedOK(s)
    /\ \A t \in tokens : Named(t.sub, t.by)
    /\ \A i \in published : i \in DOMAIN users /\ users[i].creator = "status"

\* What no statement on the table undoes.
RowsStay ==
    \A i \in DOMAIN users :
        /\ i \in DOMAIN users' /\ users'[i].email = users[i].email
        /\ users'[i].username = users[i].username /\ users'[i].creator = users[i].creator
        /\ users[i].is_demo = TRUE => users'[i].is_demo = TRUE

LEMMA InitRegistry == SuiteAssumption /\ Registry!Init => RegistryInvariant
<1> SUFFICES ASSUME Registry!Init PROVE RegistryInvariant
  OBVIOUS
<1>1. TableOK
  BY DEF Registry!Init, TableOK
<1>2. \A r \in Actors : RegOK(r)
  BY DEF Registry!Init, RegOK
<1>3. \A w \in Registry!Knowers : LoginOK(w)
  BY DEF Registry!Init, LoginOK
<1>4. \A s \in Starts : SeedOK(s)
  BY DEF Registry!Init, SeedOK, Registry!Idle
<1> QED
  BY <1>1, <1>2, <1>3, <1>4 DEF Registry!Init, RegistryInvariant

\* What is known of the rows outlives every statement on the table.
LEMMA KnownStays ==
  ASSUME RegistryInvariant, RowsStay
  PROVE  /\ \A e, w : Named(e, w) => Named(e, w)'
         /\ \A r \in Actors : reg'[r] = reg[r] => RegOK(r)'
         /\ \A w \in Registry!Knowers : login'[w] = login[w] => LoginOK(w)'
         /\ \A s \in Starts : seed'[s] = seed[s] => SeedOK(s)'
         /\ \A t \in tokens : Named(t.sub, t.by)'
         /\ \A i \in published : i \in DOMAIN users' /\ users'[i].creator = "status"
<1>1. \A e, w : Named(e, w) => Named(e, w)'
  BY DEF RowsStay, Named
<1>2. \A r \in Actors : reg'[r] = reg[r] => RegOK(r)'
  BY DEF RegistryInvariant, RowsStay, RegOK
<1>3. \A w \in Registry!Knowers : login'[w] = login[w] => LoginOK(w)'
  BY <1>1 DEF RegistryInvariant, LoginOK
<1>4. \A s \in Starts : seed'[s] = seed[s] => SeedOK(s)'
  BY DEF RegistryInvariant, RowsStay, SeedOK
<1>5. \A t \in tokens : Named(t.sub, t.by)'
  BY <1>1 DEF RegistryInvariant
<1>6. \A i \in published : i \in DOMAIN users' /\ users'[i].creator = "status"
  BY DEF RegistryInvariant, RowsStay
<1> QED
  BY <1>1, <1>2, <1>3, <1>4, <1>5, <1>6

\* An insert that the unique indexes let pass.
LEMMA RowAppended ==
  ASSUME TableOK, NEW x \in AccountRows, Faithful(x), users' = Append(users, x),
         ~Registry!Conflicts(x.email, x.username)
  PROVE  /\ TableOK' /\ RowsStay
         /\ Len(users) + 1 \in DOMAIN users' /\ users'[Len(users) + 1] = x
<1>1. /\ users' \in Seq(AccountRows) /\ Len(users) \in Nat
      /\ DOMAIN users = 1..Len(users) /\ DOMAIN users' = 1..(Len(users) + 1)
      /\ \A i \in DOMAIN users : users'[i] = users[i]
      /\ users'[Len(users) + 1] = x
  BY DEF TableOK
<1>2. \A i \in DOMAIN users : users[i].email # x.email /\ users[i].username # x.username
  BY DEF Registry!Conflicts, Registry!findByEmail, Registry!findByUsername
<1>3. \A i \in DOMAIN users' : i \in DOMAIN users \/ i = Len(users) + 1
  BY <1>1
<1>4. \A i, j \in DOMAIN users' :
        users'[i].email = users'[j].email \/ users'[i].username = users'[j].username => i = j
  BY <1>1, <1>2, <1>3 DEF TableOK
<1>5. \A i \in DOMAIN users' : Faithful(users'[i])
  BY <1>1, <1>3 DEF TableOK
<1>6. RowsStay
  BY <1>1 DEF RowsStay
<1> QED
  BY <1>1, <1>4, <1>5, <1>6 DEF TableOK

\* The registrations.
LEMMA RegisterStep ==
  ASSUME SuiteAssumption, RegistryInvariant, NEW r \in Actors,
         \/ Registry!Register(r) \/ Registry!FindEmail(r)
         \/ Registry!FindUsername(r) \/ Registry!Insert(r)
  PROVE  RegistryInvariant'
<1>0. Emails \cap Names = {} /\ "status" \notin Actors /\ "demo" \notin Actors
      /\ "disabled" \notin Actors
  BY DEF SuiteAssumption, Registry!AccountsAssumption
<1>1. CASE Registry!Register(r)
  <2>1. PICK e \in Emails, u \in Names :
          reg' = [reg EXCEPT ![r] = [pc |-> "email", email |-> e, username |-> u]]
    BY <1>1 DEF Registry!Register, Registry!ValidUsernames
  <2>2. RowsStay /\ TableOK'
    BY <1>1 DEF Registry!Register, RowsStay, TableOK, RegistryInvariant
  <2>3. RegOK(r)'
    BY <2>1 DEF RegOK, RegistryInvariant
  <2> QED
    BY <1>1, <2>1, <2>2, <2>3, KnownStays DEF Registry!Register, RegistryInvariant
<1>2. ASSUME NEW pc \in {"bad_request", "username", "insert", "internal_error"},
             reg[r].pc \in {"email", "username", "insert"},
             reg' = [reg EXCEPT ![r].pc = pc],
             UNCHANGED <<users, env, seed, login, tokens, published>>
      PROVE  RegistryInvariant'
  <2>1. RowsStay /\ TableOK'
    BY <1>2 DEF RowsStay, TableOK, RegistryInvariant
  <2>2. reg[r] # Registry!Idle
    BY <1>2 DEF Registry!Idle
  <2>3. RegOK(r)'
    BY <1>2, <2>2 DEF RegOK, RegistryInvariant
  <2> QED
    BY <1>2, <2>1, <2>3, KnownStays DEF RegistryInvariant
<1>3. CASE Registry!Insert(r) /\ ~Registry!Conflicts(reg[r].email, reg[r].username)
  <2>1. reg[r] # Registry!Idle /\ reg[r].email \in Emails /\ reg[r].username \in Names
    BY <1>3 DEF Registry!Insert, Registry!Idle, RegistryInvariant, RegOK
  <2>2. PICK x : x = Registry!Row(reg[r].email, reg[r].username, r, TRUE, FALSE, r)
    OBVIOUS
  <2>3. /\ x.email = reg[r].email /\ x.username = reg[r].username /\ x.password = r
        /\ x.is_active = TRUE /\ x.creator = r
        /\ x \in AccountRows
    BY <2>1, <2>2 DEF Registry!Row, AccountRows, Registry!Knowers
  <2>4. Faithful(x)
    BY <1>0, <2>1, <2>3 DEF Faithful, Registry!Disabled
  <2>5. users' = Append(users, x) /\ UNCHANGED <<env, seed, login, tokens, published>>
        /\ reg' = [reg EXCEPT ![r].pc = "created"]
    BY <1>3, <2>2 DEF Registry!Insert
  <2>6. /\ TableOK' /\ RowsStay
        /\ Len(users) + 1 \in DOMAIN users' /\ users'[Len(users) + 1] = x
    BY <1>3, <2>3, <2>4, <2>5, RowAppended DEF RegistryInvariant
  <2>7. RegOK(r)'
    BY <2>1, <2>3, <2>5, <2>6 DEF RegOK, RegistryInvariant
  <2> QED
    BY <2>5, <2>6, <2>7, KnownStays DEF RegistryInvariant
<1> QED
  BY <1>1, <1>2, <1>3 DEF Registry!FindEmail, Registry!FindUsername, Registry!Insert

\* Signing in.
LEMMA LoginStep ==
  ASSUME SuiteAssumption, RegistryInvariant,
         \/ \E w \in Registry!Knowers : Registry!LoginByEmail(w) \/ Registry!LoginSign(w)
         \/ Registry!demoLogin
  PROVE  RegistryInvariant'
<1>0. RowsStay /\ TableOK' /\ UNCHANGED <<users, env, reg, seed, published>>
  BY DEF Registry!LoginByEmail, Registry!LoginSign, Registry!demoLogin, RowsStay, TableOK,
         RegistryInvariant
<1>1. \A i \in DOMAIN users :
        users[i].password \in Registry!Knowers => Named(users[i].email, users[i].password)
  BY DEF RegistryInvariant, TableOK, Faithful, Named
<1>2. ASSUME NEW w \in Registry!Knowers, Registry!LoginByEmail(w) PROVE RegistryInvariant'
  <2>1. PICK ident : login' = [login EXCEPT ![w] =
          [pc |-> "found", ident |-> ident,
           rows |-> {users[i] : i \in Registry!findByEmail(ident)}]]
    BY <1>2 DEF Registry!LoginByEmail
  <2>2. LoginOK(w)'
    BY <1>0, <1>1, <2>1, KnownStays DEF LoginOK, RegistryInvariant, Registry!findByEmail
  <2> QED
    BY <1>0, <1>2, <2>1, <2>2, KnownStays DEF Registry!LoginByEmail, RegistryInvariant
<1>3. ASSUME NEW w \in Registry!Knowers, Registry!LoginSign(w) PROVE RegistryInvariant'
  <2>1. PICK rows : rows = IF login[w].rows # {} THEN login[w].rows
                           ELSE {users[i] : i \in Registry!findByUsername(login[w].ident)}
    OBVIOUS
  <2>2. tokens' = tokens \cup {[sub |-> x.email, by |-> w] : x \in {y \in rows : y.password = w}}
    BY <1>3, <2>1 DEF Registry!LoginSign
  <2>3. \A x \in rows : x.password \in Registry!Knowers => Named(x.email, x.password)
    BY <1>1, <1>3, <2>1 DEF RegistryInvariant, LoginOK, Registry!findByUsername,
                            Registry!LoginSign
  <2>4. \A t \in tokens' : Named(t.sub, t.by)
    BY <1>3, <2>2, <2>3 DEF RegistryInvariant
  <2>5. \A t \in tokens' : Named(t.sub, t.by)'
    BY <2>4, <1>0, KnownStays
  <2>6. LoginOK(w)' /\ login' = [login EXCEPT ![w] = Registry!Idle]
    BY <1>3 DEF Registry!LoginSign, LoginOK, RegistryInvariant
  <2> QED
    BY <1>0, <2>5, <2>6, KnownStays DEF RegistryInvariant
<1>4. CASE Registry!demoLogin
  <2>1. PICK i \in DOMAIN users : /\ users[i].is_demo
                                  /\ tokens' = tokens \cup {[sub |-> users[i].email, by |-> "demo"]}
    BY <1>4 DEF Registry!demoLogin, Registry!findByEmail
  <2>2. users[i].is_demo = TRUE
    BY <2>1 DEF RegistryInvariant, TableOK, AccountRows
  <2>3. \A t \in tokens' : Named(t.sub, t.by)
    BY <2>1, <2>2 DEF RegistryInvariant, Named
  <2> QED
    BY <1>0, <1>4, <2>3, KnownStays DEF Registry!demoLogin, RegistryInvariant
<1> QED
  BY <1>2, <1>3, <1>4

\* A statement of a seed that leaves the table alone.
LEMMA SeedOnlyStep ==
  ASSUME RegistryInvariant, NEW s \in Starts, NEW p, seed' = [seed EXCEPT ![s] = p],
         SeedOK(s)', UNCHANGED <<users, env, reg, login, tokens, published>>
  PROVE  RegistryInvariant'
<1>1. RowsStay /\ TableOK'
  BY DEF RowsStay, TableOK, RegistryInvariant
<1> QED
  BY <1>1, KnownStays DEF RegistryInvariant

\* The status seed's row, or the demo's.
LEMMA SeedRow ==
  ASSUME SuiteAssumption, NEW e \in Emails, NEW x,
         \/ x = Registry!Row(e, e, "disabled", FALSE, FALSE, "status")
         \/ x = Registry!Row(e, e, "demo", TRUE, TRUE, "demo")
  PROVE  x \in AccountRows /\ Faithful(x) /\ x.email = e /\ x.username = e
<1>1. "disabled" \notin Actors /\ "demo" \notin Actors
  BY DEF SuiteAssumption, Registry!AccountsAssumption
<1>2. CASE x = Registry!Row(e, e, "disabled", FALSE, FALSE, "status")
  BY <1>1, <1>2 DEF Registry!Row, AccountRows, Faithful, Registry!Knowers, Registry!Disabled
<1>3. CASE x = Registry!Row(e, e, "demo", TRUE, TRUE, "demo")
  BY <1>1, <1>3 DEF Registry!Row, AccountRows, Faithful, Registry!Knowers, Registry!Disabled
<1> QED
  BY <1>2, <1>3

\* The seeds of the accounts.
LEMMA SeedStep ==
  ASSUME SuiteAssumption, RegistryInvariant, NEW s \in Starts,
         \/ Registry!SeedStart(s) \/ Registry!SeedLookup(s) \/ Registry!SeedOwner(s)
         \/ Registry!SeedDemo(s) \/ Registry!Restart(s)
  PROVE  RegistryInvariant'
<1>0. /\ seed = [q \in Starts |-> seed[q]] /\ SeedOK(s)
      /\ env.demo \in Emails /\ env.owner \in Emails \cup {None}
  BY DEF RegistryInvariant
<1>1. CASE Registry!SeedStart(s)
  <2>1. PICK p : /\ seed' = [seed EXCEPT ![s] = p]
                 /\ \/ p = [pc |-> "ended"]
                    \/ p = [pc |-> "lookup", env |-> env] /\ env.owner # None
                    \/ p = [pc |-> "demo", env |-> env]
    BY <1>1 DEF Registry!SeedStart
  <2>2. SeedOK(s)'
    BY <1>0, <2>1 DEF SeedOK
  <2> QED
    BY <1>1, <2>1, <2>2, SeedOnlyStep DEF Registry!SeedStart
<1>2. CASE Registry!SeedLookup(s)
  <2>1. seed[s].pc = "lookup" /\ seed[s] # Registry!Idle
    BY <1>2 DEF Registry!SeedLookup, Registry!Idle
  <2>2. PICK existing : existing = Registry!findByEmail(seed[s].env.owner)
    OBVIOUS
  <2>3. PICK p : /\ seed' = [seed EXCEPT ![s] = p]
                 /\ \/ p = [pc |-> "ended"]
                    \/ /\ p = [pc |-> "owner", env |-> seed[s].env, existing |-> existing]
                       /\ \A i \in existing : Registry!IsStatusOwner(users[i])
    BY <1>2, <2>2 DEF Registry!SeedLookup
  <2>4. \A i \in existing : i \in DOMAIN users
    BY <2>2 DEF Registry!findByEmail
  <2>5. \A i \in existing : Registry!IsStatusOwner(users[i]) => users[i].creator = "status"
    BY <2>4 DEF Registry!IsStatusOwner, RegistryInvariant, TableOK, Faithful
  <2>6. SeedOK(s)'
    BY <1>0, <1>2, <2>1, <2>3, <2>4, <2>5 DEF SeedOK, Registry!SeedLookup
  <2> QED
    BY <1>2, <2>3, <2>6, SeedOnlyStep DEF Registry!SeedLookup
<1>3. CASE Registry!SeedOwner(s)
  <2>1. seed[s].pc = "owner" /\ seed[s] # Registry!Idle
        /\ UNCHANGED <<env, reg, login, tokens>>
    BY <1>3 DEF Registry!SeedOwner, Registry!Idle
  <2>2. PICK e \in Emails : e = seed[s].env.owner
    BY <1>0, <2>1 DEF SeedOK
  <2>3. PICK p : seed' = [seed EXCEPT ![s] = p]
                 /\ p \in {[pc |-> "ended"], [pc |-> "demo", env |-> seed[s].env]}
    BY <1>3 DEF Registry!SeedOwner
  <2>4. SeedOK(s)'
    BY <1>0, <2>1, <2>3 DEF SeedOK
  <2>5. CASE UNCHANGED <<users, published>>
    BY <2>1, <2>3, <2>4, <2>5, SeedOnlyStep
  <2>6. CASE UNCHANGED users /\ published' = published \cup seed[s].existing
    <3>1. RowsStay /\ TableOK'
      BY <2>6 DEF RowsStay, TableOK, RegistryInvariant
    <3>2. \A i \in published' : i \in DOMAIN users' /\ users'[i].creator = "status"
      BY <1>0, <2>1, <2>6 DEF SeedOK, RegistryInvariant
    <3> QED
      BY <2>1, <2>3, <2>4, <3>1, <3>2, KnownStays DEF RegistryInvariant
  <2>7. CASE /\ ~Registry!Conflicts(e, e)
             /\ users' = Append(users, Registry!Row(e, e, "disabled", FALSE, FALSE, "status"))
             /\ published' = published \cup {Len(users) + 1}
    <3>1. PICK x : x = Registry!Row(e, e, "disabled", FALSE, FALSE, "status")
      OBVIOUS
    <3>2. x \in AccountRows /\ Faithful(x) /\ x.email = e /\ x.username = e
      BY <3>1, SeedRow
    <3>3. x.creator = "status"
      BY <3>1 DEF Registry!Row
    <3>4. /\ TableOK' /\ RowsStay
          /\ Len(users) + 1 \in DOMAIN users' /\ users'[Len(users) + 1] = x
      BY <2>7, <3>1, <3>2, RowAppended DEF RegistryInvariant
    <3>5. \A i \in published' : i \in DOMAIN users' /\ users'[i].creator = "status"
      BY <2>7, <3>3, <3>4, KnownStays
    <3> QED
      BY <2>1, <2>3, <2>4, <3>4, <3>5, KnownStays DEF RegistryInvariant
  <2> QED
    BY <1>3, <2>2, <2>5, <2>6, <2>7 DEF Registry!SeedOwner, Registry!Disabled
<1>4. CASE Registry!SeedDemo(s)
  <2>0. seed[s].pc = "demo" /\ UNCHANGED <<env, reg, login, tokens, published>>
        /\ seed' = [seed EXCEPT ![s] = [pc |-> "ended"]]
    BY <1>4, Zenon DEF Registry!SeedDemo
  <2>1. seed[s].pc = "demo" /\ seed[s] # Registry!Idle
        /\ UNCHANGED <<env, reg, login, tokens, published>>
        /\ seed' = [seed EXCEPT ![s] = [pc |-> "ended"]]
    BY <2>0 DEF Registry!Idle
  <2>2. PICK e \in Emails : e = seed[s].env.demo
    BY <1>0, <2>1 DEF SeedOK
  <2>3. SeedOK(s)'
    BY <1>0, <2>1 DEF SeedOK
  <2>4. CASE UNCHANGED users
    BY <2>1, <2>3, <2>4, SeedOnlyStep
  <2>5. CASE users' = [i \in DOMAIN users |->
                         IF i \in Registry!findByEmail(e)
                         THEN [users[i] EXCEPT !.password = "demo", !.is_demo = TRUE]
                         ELSE users[i]]
    <3>0. users \in Seq(AccountRows)
      BY DEF RegistryInvariant, TableOK
    <3>1. /\ DOMAIN users' = DOMAIN users /\ DOMAIN users = 1..Len(users) /\ Len(users) \in Nat
          /\ \A i \in DOMAIN users : users[i] \in AccountRows
      <4>1. DOMAIN users' = DOMAIN users
        BY <2>5
      <4> QED
        BY <3>0, <4>1
    <3>2. \A i \in DOMAIN users : /\ users'[i] \in AccountRows /\ Faithful(users'[i])
                                  /\ users'[i].email = users[i].email
                                  /\ users'[i].username = users[i].username
                                  /\ users'[i].creator = users[i].creator
                                  /\ users[i].is_demo = TRUE => users'[i].is_demo = TRUE
      <4> TAKE i \in DOMAIN users
      <4>1. CASE users'[i] = users[i]
        BY <3>1, <4>1 DEF RegistryInvariant, TableOK
      <4>2. CASE users'[i] = [users[i] EXCEPT !.password = "demo", !.is_demo = TRUE]
        <5>1. "demo" \in Registry!Knowers /\ "demo" # Registry!Disabled
          BY DEF Registry!Knowers, Registry!Disabled
        <5>2. /\ users'[i] \in AccountRows
              /\ users'[i].email = users[i].email /\ users'[i].username = users[i].username
              /\ users'[i].creator = users[i].creator /\ users'[i].is_demo = TRUE
              /\ users'[i].is_active = users[i].is_active /\ users'[i].password = "demo"
          BY <3>1, <4>2, <5>1 DEF AccountRows
        <5>3. Faithful(users'[i])
          BY <5>1, <5>2 DEF RegistryInvariant, TableOK, Faithful
        <5> QED
          BY <5>2, <5>3
      <4> QED
        BY <2>5, <4>1, <4>2
    <3>3. users' \in Seq(AccountRows)
      <4>1. users' \in [1..Len(users) -> AccountRows]
        BY <2>5, <3>1, <3>2
      <4> QED
        BY <3>1, <4>1
    <3>4. TableOK' /\ RowsStay
      BY <3>1, <3>2, <3>3 DEF RegistryInvariant, TableOK, RowsStay
    <3> QED
      BY <2>1, <2>3, <3>4, KnownStays DEF RegistryInvariant
  <2>6. CASE /\ ~Registry!Conflicts(e, e)
             /\ users' = Append(users, Registry!Row(e, e, "demo", TRUE, TRUE, "demo"))
    <3>1. PICK x : x = Registry!Row(e, e, "demo", TRUE, TRUE, "demo")
      OBVIOUS
    <3>2. x \in AccountRows /\ Faithful(x) /\ x.email = e /\ x.username = e
      BY <3>1, SeedRow
    <3>3. TableOK' /\ RowsStay
      BY <2>6, <3>1, <3>2, RowAppended DEF RegistryInvariant
    <3> QED
      BY <2>1, <2>3, <3>3, KnownStays DEF RegistryInvariant
  <2> QED
    BY <1>4, <2>2, <2>4, <2>5, <2>6 DEF Registry!SeedDemo
<1>5. CASE Registry!Restart(s)
  <2>1. SeedOK(s)'
    BY <1>0, <1>5 DEF Registry!Restart, SeedOK, Registry!Idle
  <2> QED
    BY <1>5, <2>1, SeedOnlyStep DEF Registry!Restart
<1> QED
  BY <1>1, <1>2, <1>3, <1>4, <1>5

LEMMA NextRegistry ==
  SuiteAssumption /\ RegistryInvariant /\ [Registry!Next]_accountVars => RegistryInvariant'
<1> SUFFICES ASSUME SuiteAssumption, RegistryInvariant, [Registry!Next]_accountVars
             PROVE  RegistryInvariant'
  OBVIOUS
<1>1. ASSUME UNCHANGED <<users, reg, seed, login, tokens, published>>,
             env' \in [owner : Emails \cup {None}, demo : Emails]
      PROVE  RegistryInvariant'
  <2>1. RowsStay /\ TableOK'
    BY <1>1 DEF RowsStay, TableOK, RegistryInvariant
  <2> QED
    BY <1>1, <2>1, KnownStays DEF RegistryInvariant
<1>2. CASE UNCHANGED accountVars
  BY <1>1, <1>2 DEF accountVars, RegistryInvariant
<1>3. CASE Registry!Reconfigure
  BY <1>1, <1>3 DEF Registry!Reconfigure
<1> QED
  BY <1>2, <1>3, RegisterStep, LoginStep, SeedStep DEF Registry!Next

LEMMA RegistryAlways == Registry!Spec => []RegistryInvariant
<1>1. [Registry!Next]_(Registry!vars) => [Registry!Next]_accountVars
  BY DEF Registry!vars, accountVars
<1> QED
  BY <1>1, SuiteAssumption, InitRegistry, NextRegistry, PTL DEF Registry!Spec

\* What the invariant says of accounts.
LEMMA RegistrySound ==
  ASSUME SuiteAssumption, RegistryInvariant
  PROVE  /\ Registry!TypeOK /\ Registry!OneWinner
         /\ Registry!NoCrossNaming /\ Registry!ActsAsOneself /\ Registry!NoTakeover
<1>0. Emails \cap Names = {}
  BY DEF SuiteAssumption, Registry!AccountsAssumption
<1> USE DEF RegistryInvariant, TableOK
<1>1. \A i \in DOMAIN users : users[i] \in AccountRows
  OBVIOUS
<1>2. Registry!TypeOK
  BY <1>1 DEF Registry!TypeOK, AccountRows, Named, Registry!findByEmail
<1>3. Registry!OneWinner
  BY DEF Registry!OneWinner, RegOK, Registry!Idle
<1>4. Registry!NoCrossNaming
  BY <1>0, <1>1 DEF Registry!NoCrossNaming, Faithful, AccountRows
<1>5. Registry!ActsAsOneself
  BY <1>1 DEF Registry!ActsAsOneself, Registry!validate, Registry!findByEmail, Named, Faithful,
              AccountRows
<1>6. Registry!NoTakeover
  BY DEF Registry!NoTakeover
<1> QED
  BY <1>2, <1>3, <1>4, <1>5, <1>6

-----------------------------------------------------------------------------
(* The monitors of the status page *)

\* What a transaction has written: public if and only if the manifest has it.
Transacting(s) ==
    LET q == start[s] IN
    /\ DOMAIN q.writes \subseteq Manifest!Rows
    /\ \A x \in DOMAIN q.writes :
          IF x \in Manifest!Wanted(config) THEN q.writes[x] = "public"
          ELSE q.writes[x] = "private" /\ x[1] \in owners

\* A monitor of the manifest was written or is still to be.
Upserting(s) ==
    LET q == start[s] IN
    /\ DOMAIN q = {"pc", "config", "writes", "creates", "todo"} /\ q.config = config
    /\ q.todo \in Seq(Names)
    /\ \A i \in DOMAIN q.todo : q.todo[i] \in Manifest!ToSet(config.manifest)
    /\ \A k \in Manifest!ToSet(config.manifest) :
          <<config.owner, k>> \in DOMAIN q.writes \/ \E i \in DOMAIN q.todo : k = q.todo[i]

\* All of the manifest was written, and what else is public is hidden or still to be.
Hiding(s) ==
    LET q == start[s] IN
    /\ DOMAIN q = {"pc", "config", "creates", "writes", "stale"} /\ q.config = config
    /\ Manifest!Wanted(config) \subseteq DOMAIN q.writes
    /\ q.stale \subseteq Manifest!Rows \ Manifest!Wanted(config)
    /\ \A x \in q.stale : x[1] \in owners
    /\ \A x \in Manifest!Rows \ Manifest!Wanted(config) :
          x \in q.stale \/ Manifest!Seen(s, x) # "public"

\* The demo monitors that were seeded, if only to be deleted.
Seeded == {k \in DemoKeys : demoRow[k] # "absent"}

\* What a container knows.  All that run have the configuration that is set, so that
\* another's commit publishes and hides what this one would.
Place(s) ==
    LET q == start[s] IN
    \/ q \in {Manifest!Off, Manifest!Failed}
    \/ q.pc \in {"lookup", "owner"} /\ q.config = config /\ (q.pc = "owner" => q.writes = << >>)
    \/ q.pc = "upsert" /\ Transacting(s) /\ Upserting(s)
    \/ q.pc = "hide" /\ Transacting(s) /\ Hiding(s)
    \/ q.pc = "demo" /\ q.config = config /\ last = config
    \/ /\ q.pc = "demo_rows" /\ last = config
       /\ DOMAIN q = {"pc", "config", "todo"} /\ q.config = config
       /\ q.todo \subseteq DemoKeys /\ DemoKeys \subseteq Seeded \cup q.todo
    \/ q.pc = "listening" /\ last = config /\ DemoKeys \subseteq Seeded

SeedsInvariant ==
    /\ Manifest!TypeOK /\ Manifest!PublishedIsManifest
    /\ start = [s \in Actors |-> start[s]] /\ \A s \in Actors : Place(s)

LEMMA ConfigFacts ==
  ASSUME NEW c \in Manifest!Configs
  PROVE  /\ c.owner \in Emails \cup {None} /\ c.manifest \in Seq(Names)
         /\ c.owner = None => Manifest!ToSet(c.manifest) = {}
         /\ \A x \in Manifest!Rows :
               x \in Manifest!Wanted(c) <=>
                  x[1] = c.owner /\ x[2] \in Manifest!ToSet(c.manifest)
         /\ SuiteAssumption => Manifest!Wanted(c) \subseteq Manifest!Rows
         /\ \A x \in Manifest!Wanted(c) : x = <<c.owner, x[2]>> /\ x[2] \in Manifest!ToSet(c.manifest)
<1>1. c.owner \in Emails \cup {None} /\ c.manifest \in Manifest!Manifests
      /\ (c.owner = None => c.manifest = << >>)
  BY DEF Manifest!Configs
<1>2. c.manifest \in Seq(Names)
  BY <1>1 DEF Manifest!Manifests, Manifest!BoundedSeq, Manifest!SeqOf
<1>3. c.owner = None => Manifest!ToSet(c.manifest) = {}
  BY <1>1 DEF Manifest!ToSet
<1>4. Manifest!ToSet(c.manifest) \subseteq Names
  BY <1>2 DEF Manifest!ToSet
<1>5. \A x \in Manifest!Wanted(c) : x = <<c.owner, x[2]>> /\ x[2] \in Manifest!ToSet(c.manifest)
  BY DEF Manifest!Wanted
<1>6. SuiteAssumption => Manifest!Wanted(c) \subseteq Manifest!Rows
  BY <1>1, <1>3, <1>4, <1>5 DEF Manifest!Rows
<1>7. \A x \in Manifest!Rows :
        x \in Manifest!Wanted(c) <=> x[1] = c.owner /\ x[2] \in Manifest!ToSet(c.manifest)
  BY DEF Manifest!Rows, Manifest!Wanted
<1> QED
  BY <1>1, <1>2, <1>3, <1>5, <1>6, <1>7

LEMMA InitSeeds == SuiteAssumption /\ Manifest!Init => SeedsInvariant
<1> SUFFICES ASSUME Manifest!Init PROVE SeedsInvariant
  OBVIOUS
<1>1. \A s \in Actors : start[s] = Manifest!Off
  BY DEF Manifest!Init
<1>2. Manifest!TypeOK
  BY <1>1 DEF Manifest!Init, Manifest!TypeOK, Manifest!InTransaction, Manifest!Off
<1>3. Manifest!PublishedIsManifest
  BY DEF Manifest!Init, Manifest!PublishedIsManifest, Manifest!Published
<1> QED
  BY <1>1, <1>2, <1>3 DEF Manifest!Init, SeedsInvariant, Place

\* What a container knows outlives a step of another, which publishes nothing that
\* the manifest does not have.
LEMMA PlaceStays ==
  ASSUME SeedsInvariant, NEW t \in Actors, start'[t] = start[t], config' = config,
         owners \subseteq owners', Seeded \subseteq Seeded', last' \in {last, config},
         \A x \in Manifest!Rows \ Manifest!Wanted(config) : row'[x] = "public" => row[x] = "public"
  PROVE  Place(t)'
<1>1. Place(t)
  BY DEF SeedsInvariant
<1>2. Transacting(t) => Transacting(t)'
  BY DEF Transacting
<1>3. Upserting(t) => Upserting(t)'
  BY DEF Upserting
<1>4. \A x \in Manifest!Rows \ Manifest!Wanted(config) :
        Manifest!Seen(t, x)' = "public" => Manifest!Seen(t, x) = "public"
  BY DEF Manifest!Seen
<1>5. Hiding(t) => Hiding(t)'
  BY <1>4 DEF Hiding
<1> QED
  BY <1>1, <1>2, <1>3, <1>5 DEF Place

\* A step of a container that commits nothing.
LEMMA Moves ==
  ASSUME SeedsInvariant, NEW s \in Actors, NEW p, start' = [start EXCEPT ![s] = p],
         UNCHANGED <<config, owners, row, demoRow, last>>, demoUser' \in {demoUser, TRUE},
         Place(s)',
         p.pc \in {"owner", "upsert", "hide", "commit"} =>
            \A x \in DOMAIN p.writes : x \in Manifest!Rows /\ ~Manifest!Locked(s, x)
  PROVE  SeedsInvariant'
<1>1. start' = [t \in Actors |-> start'[t]] /\ start'[s] = p
      /\ \A t \in Actors \ {s} : start'[t] = start[t]
  BY DEF SeedsInvariant
<1>2. \A t \in Actors : Place(t)'
  BY <1>1, PlaceStays DEF Seeded
<1>3. ASSUME NEW t \in Actors, Manifest!InTransaction(t)', NEW x \in DOMAIN start'[t].writes
      PROVE  x \in Manifest!Rows /\ ~Manifest!Locked(t, x)'
  <2>1. CASE t = s
    BY <1>1, <1>3, <2>1 DEF Manifest!InTransaction, Manifest!Locked
  <2>2. CASE t # s
    BY <1>1, <1>3, <2>2 DEF Manifest!InTransaction, Manifest!Locked, SeedsInvariant,
                            Manifest!TypeOK
  <2> QED
    BY <2>1, <2>2
<1>4. Manifest!TypeOK'
  BY <1>3 DEF SeedsInvariant, Manifest!TypeOK
<1>5. Manifest!PublishedIsManifest'
  BY DEF SeedsInvariant, Manifest!PublishedIsManifest, Manifest!Published, Manifest!Wanted
<1> QED
  BY <1>1, <1>2, <1>4, <1>5 DEF SeedsInvariant

\* Before the first statement on a monitor, and whatever ends in failure.
LEMMA BeforeWrites ==
  ASSUME SuiteAssumption, SeedsInvariant, NEW s \in Actors,
         \/ Manifest!StartSeed(s) \/ Manifest!Lookup(s) \/ Manifest!CreateOwner(s)
         \/ Manifest!Fail(s) \/ Manifest!Stop(s)
  PROVE  SeedsInvariant'
<1>0. UNCHANGED <<config, owners, row, demoUser, demoRow, last>> /\ Place(s)
      /\ start = [t \in Actors |-> start[t]] /\ config \in Manifest!Configs
  BY DEF SeedsInvariant, Manifest!TypeOK, Manifest!StartSeed, Manifest!Lookup,
         Manifest!CreateOwner, Manifest!Fail, Manifest!Stop
<1>1. ASSUME start' = [start EXCEPT ![s] = Manifest!Failed]
             \/ start' = [start EXCEPT ![s] = Manifest!Off]
      PROVE  SeedsInvariant'
  <2>1. PICK p \in {Manifest!Failed, Manifest!Off} : start' = [start EXCEPT ![s] = p]
    BY <1>1
  <2>2. Place(s)'
    BY <1>0, <2>1 DEF Place
  <2> QED
    BY <1>0, <2>1, <2>2, Moves DEF Manifest!Failed, Manifest!Off
<1>2. CASE Manifest!Fail(s) \/ Manifest!Stop(s)
  BY <1>1, <1>2 DEF Manifest!Fail, Manifest!Stop, Manifest!At
<1>3. CASE Manifest!StartSeed(s)
  <2>1. CASE start' = [start EXCEPT ![s] = [pc |-> "lookup", config |-> config]]
    <3>1. PICK p : p = [pc |-> "lookup", config |-> config]
      OBVIOUS
    <3>2. Place(s)'
      BY <1>0, <2>1 DEF Place
    <3> QED
      BY <1>0, <2>1, <3>1, <3>2, Moves
  <2> QED
    BY <1>1, <1>3, <2>1 DEF Manifest!StartSeed, Manifest!At
<1>4. CASE Manifest!Lookup(s)
  <2>1. start[s].config = config /\ start[s].pc = "lookup"
    BY <1>0, <1>4 DEF Manifest!Lookup, Place, Manifest!Off, Manifest!Failed
  <2>2. PICK c : start' = [start EXCEPT ![s] =
          [pc |-> "owner", config |-> start[s].config, writes |-> << >>, creates |-> c]]
    BY <1>4, Zenon DEF Manifest!Lookup, Manifest!At
  <2>3. PICK p : p = [pc |-> "owner", config |-> config, writes |-> << >>, creates |-> c]
    OBVIOUS
  <2>4. start' = [start EXCEPT ![s] = p] /\ p.pc = "owner" /\ p.config = config
        /\ p.writes = << >>
    BY <2>1, <2>2, <2>3
  <2>5. Place(s)'
    BY <1>0, <2>4 DEF Place
  <2> QED
    BY <1>0, <2>4, <2>5, Moves
<1>5. CASE Manifest!CreateOwner(s)
  <2>1. start[s].config = config /\ start[s].pc = "owner"
    BY <1>0, <1>5 DEF Manifest!CreateOwner, Place, Manifest!Off, Manifest!Failed
  <2>2. CASE start' = [start EXCEPT ![s] =
               [pc |-> "upsert", config |-> start[s].config, writes |-> << >>,
                creates |-> start[s].creates, todo |-> start[s].config.manifest]]
    <3>1. PICK p : p = [pc |-> "upsert", config |-> config, writes |-> << >>,
                        creates |-> start[s].creates, todo |-> config.manifest]
      OBVIOUS
    <3>2. /\ start'[s] = p /\ start' = [start EXCEPT ![s] = p]
          /\ DOMAIN p = {"pc", "config", "writes", "creates", "todo"} /\ p.config = config
          /\ p.pc = "upsert" /\ p.writes = << >> /\ p.todo = config.manifest
      BY <1>0, <2>1, <2>2, <3>1
    <3>3. config.manifest \in Seq(Names)
      BY <1>0, ConfigFacts
    <3>4. Transacting(s)'
      BY <3>2 DEF Transacting
    <3>5. Upserting(s)'
      BY <1>0, <3>2, <3>3 DEF Upserting, Manifest!ToSet
    <3>6. Place(s)'
      BY <3>2, <3>4, <3>5 DEF Place
    <3> QED
      BY <1>0, <3>2, <3>6, Moves
  <2> QED
    BY <1>1, <1>5, <2>2 DEF Manifest!CreateOwner, Manifest!At
<1> QED
  BY <1>2, <1>3, <1>4, <1>5

LEMMA Rest ==
  ASSUME NEW todo \in Seq(Names), todo # << >>
  PROVE  /\ Head(todo) \in Names /\ Tail(todo) \in Seq(Names) /\ 1 \in DOMAIN todo
         /\ Head(todo) = todo[1]
         /\ \A i \in DOMAIN Tail(todo) : \E j \in DOMAIN todo : Tail(todo)[i] = todo[j]
         /\ \A j \in DOMAIN todo :
               todo[j] = Head(todo) \/ \E i \in DOMAIN Tail(todo) : Tail(todo)[i] = todo[j]
<1>1. /\ Len(todo) \in Nat \ {0} /\ DOMAIN todo = 1..Len(todo)
      /\ Tail(todo) \in Seq(Names) /\ Len(Tail(todo)) = Len(todo) - 1
      /\ DOMAIN Tail(todo) = 1..(Len(todo) - 1)
      /\ \A i \in 1..(Len(todo) - 1) : Tail(todo)[i] = todo[i + 1]
      /\ Head(todo) = todo[1]
  OBVIOUS
<1>2. \A j \in DOMAIN todo : j = 1 \/ j - 1 \in 1..(Len(todo) - 1)
  BY <1>1
<1>3. \A j \in 2..Len(todo) : Tail(todo)[j - 1] = todo[j]
  BY <1>1
<1> QED
  BY <1>1, <1>2, <1>3

\* The upsert of a monitor.
LEMMA UpsertStep ==
  ASSUME SuiteAssumption, SeedsInvariant, NEW s \in Actors, Manifest!Upsert(s)
  PROVE  SeedsInvariant'
<1>0. /\ UNCHANGED <<config, owners, row, demoUser, demoRow, last>> /\ Place(s)
      /\ start = [t \in Actors |-> start[t]] /\ config \in Manifest!Configs
      /\ start[s].pc = "upsert" /\ start[s].todo # << >>
  BY DEF SeedsInvariant, Manifest!TypeOK, Manifest!Upsert
<1>1. Transacting(s) /\ Upserting(s)
  BY <1>0 DEF Place, Manifest!Off, Manifest!Failed
<1>2. PICK todo, writes : todo = start[s].todo /\ writes = start[s].writes
  OBVIOUS
<1>3. todo \in Seq(Names) /\ todo # << >>
  BY <1>0, <1>1, <1>2 DEF Upserting
<1>4. PICK x : x = <<config.owner, Head(todo)>>
  OBVIOUS
<1>5. x \in Manifest!Wanted(config) /\ x \in Manifest!Rows
  BY <1>0, <1>1, <1>2, <1>3, <1>4, Rest, ConfigFacts DEF Upserting, Manifest!Wanted
<1>6. PICK W : W = [y \in DOMAIN writes \cup {x} |-> IF y = x THEN "public" ELSE writes[y]]
  OBVIOUS
<1>7. PICK p : p = [start[s] EXCEPT !.writes = W, !.todo = Tail(todo)]
  OBVIOUS
<1>8. ~Manifest!Locked(s, x) /\ start' = [start EXCEPT ![s] = p]
  <2>1. start[s].config = config
    BY <1>1 DEF Upserting
  <2> QED
    BY <1>2, <1>4, <1>6, <1>7, <2>1 DEF Manifest!Upsert, Manifest!At, Manifest!Write
<1>9. /\ start'[s] = p /\ p.pc = "upsert" /\ p.writes = W /\ p.todo = Tail(todo)
      /\ DOMAIN p = {"pc", "config", "writes", "creates", "todo"} /\ p.config = config
  BY <1>0, <1>1, <1>7, <1>8 DEF Upserting
<1>10. Transacting(s)'
  BY <1>0, <1>1, <1>2, <1>5, <1>6, <1>9 DEF Transacting, Manifest!Wanted
<1>11. Upserting(s)'
  <2>1. \A i \in DOMAIN Tail(todo) : Tail(todo)[i] \in Manifest!ToSet(config.manifest)
    BY <1>1, <1>2, <1>3, Rest DEF Upserting
  <2>2. ASSUME NEW k \in Manifest!ToSet(config.manifest)
        PROVE  \/ <<config.owner, k>> \in DOMAIN W
               \/ \E i \in DOMAIN Tail(todo) : k = Tail(todo)[i]
    <3>1. CASE <<config.owner, k>> \in DOMAIN writes
      BY <1>6, <3>1
    <3>2. CASE \E j \in DOMAIN todo : k = todo[j]
      BY <1>3, <1>4, <1>6, <3>2, Rest
    <3> QED
      BY <1>1, <1>2, <3>1, <3>2 DEF Upserting
  <2>3. Tail(todo) \in Seq(Names)
    BY <1>3, Rest
  <2> QED
    BY <1>0, <1>9, <2>1, <2>2, <2>3 DEF Upserting
<1>12. \A y \in DOMAIN p.writes : y \in Manifest!Rows /\ ~Manifest!Locked(s, y)
  <2>1. Manifest!InTransaction(s)
    BY <1>0 DEF Manifest!InTransaction
  <2>2. \A y \in DOMAIN writes : y \in Manifest!Rows /\ ~Manifest!Locked(s, y)
    BY <1>2, <2>1 DEF SeedsInvariant, Manifest!TypeOK
  <2>3. \A y \in DOMAIN p.writes : y = x \/ y \in DOMAIN writes
    BY <1>6, <1>9
  <2> QED
    BY <1>5, <1>8, <2>2, <2>3
<1>13. Place(s)'
  BY <1>9, <1>10, <1>11 DEF Place
<1> QED
  BY <1>0, <1>8, <1>9, <1>12, <1>13, Moves

\* The updateMany finds what is public and not of the manifest.
LEMMA ScanStep ==
  ASSUME SuiteAssumption, SeedsInvariant, NEW s \in Actors, Manifest!HideScan(s)
  PROVE  SeedsInvariant'
<1>0. /\ UNCHANGED <<config, owners, row, demoUser, demoRow, last>> /\ Place(s)
      /\ start = [t \in Actors |-> start[t]] /\ config \in Manifest!Configs
      /\ start[s].pc = "upsert" /\ start[s].todo = << >>
  BY DEF SeedsInvariant, Manifest!TypeOK, Manifest!HideScan
<1>1. Transacting(s) /\ Upserting(s)
  BY <1>0 DEF Place, Manifest!Off, Manifest!Failed
<1>2. PICK writes, creates, stale :
        /\ writes = start[s].writes /\ creates = start[s].creates
        /\ stale = {x \in Manifest!Rows \ Manifest!Wanted(config) :
                       Manifest!Seen(s, x) = "public"}
  OBVIOUS
<1>3. start[s].config = config
  BY <1>1 DEF Upserting
<1>4. PICK p : p = [pc |-> "hide", config |-> config, creates |-> creates,
                    writes |-> writes, stale |-> stale]
  OBVIOUS
<1>5. start' = [start EXCEPT ![s] = p]
  BY <1>2, <1>3, <1>4 DEF Manifest!HideScan, Manifest!At
<1>6. /\ start'[s] = p
      /\ DOMAIN p = {"pc", "config", "creates", "writes", "stale"} /\ p.config = config
      /\ p.pc = "hide" /\ p.writes = writes /\ p.stale = stale
  BY <1>0, <1>4, <1>5
<1>7. Transacting(s)'
  BY <1>0, <1>1, <1>2, <1>6 DEF Transacting
<1>8. Manifest!Wanted(config) \subseteq DOMAIN writes
  <2>1. \A k \in Manifest!ToSet(config.manifest) : <<config.owner, k>> \in DOMAIN writes
    BY <1>0, <1>1, <1>2 DEF Upserting
  <2> QED
    BY <1>0, <2>1, ConfigFacts
<1>9. \A x \in stale : x[1] \in owners
  <2>1. \A x \in stale : x \in Manifest!Rows /\ row[x] = "public"
    BY <1>1, <1>2 DEF Transacting, Manifest!Seen
  <2> QED
    BY <2>1 DEF SeedsInvariant, Manifest!TypeOK
<1>10. \A x \in Manifest!Rows : Manifest!Seen(s, x)' = Manifest!Seen(s, x)
  BY <1>0, <1>2, <1>6 DEF Manifest!Seen
<1>11. Hiding(s)'
  BY <1>0, <1>2, <1>6, <1>8, <1>9, <1>10 DEF Hiding
<1>12. \A y \in DOMAIN p.writes : y \in Manifest!Rows /\ ~Manifest!Locked(s, y)
  <2>1. Manifest!InTransaction(s)
    BY <1>0 DEF Manifest!InTransaction
  <2> QED
    BY <1>2, <1>6, <2>1 DEF SeedsInvariant, Manifest!TypeOK
<1>13. Place(s)'
  BY <1>6, <1>7, <1>11 DEF Place
<1> QED
  BY <1>0, <1>5, <1>12, <1>13, Moves

\* One monitor less to hide.
LEMMA HideStep ==
  ASSUME SuiteAssumption, SeedsInvariant, NEW s \in Actors, Manifest!HideRow(s)
  PROVE  SeedsInvariant'
<1>0. /\ UNCHANGED <<config, owners, row, demoUser, demoRow, last>> /\ Place(s)
      /\ start = [t \in Actors |-> start[t]] /\ start[s].pc = "hide"
  BY DEF SeedsInvariant, Manifest!HideRow
<1>1. Transacting(s) /\ Hiding(s)
  BY <1>0 DEF Place, Manifest!Off, Manifest!Failed
<1>2. PICK stale, writes : stale = start[s].stale /\ writes = start[s].writes
  OBVIOUS
<1>3. PICK x \in stale :
        /\ ~Manifest!Locked(s, x)
        /\ start' = [start EXCEPT ![s] = [start[s] EXCEPT
             !.stale = stale \ {x},
             !.writes = IF Manifest!Seen(s, x) = "public" THEN Manifest!Write(s, x, "private")
                        ELSE writes]]
  BY <1>2 DEF Manifest!HideRow, Manifest!At
<1>4. PICK W : W = IF Manifest!Seen(s, x) = "public" THEN Manifest!Write(s, x, "private")
                   ELSE writes
  OBVIOUS
<1>5. PICK p : p = [start[s] EXCEPT !.stale = stale \ {x}, !.writes = W]
  OBVIOUS
<1>6. start' = [start EXCEPT ![s] = p]
  BY <1>3, <1>4, <1>5
<1>7. /\ start'[s] = p /\ p.pc = "hide" /\ p.writes = W /\ p.stale = stale \ {x}
      /\ DOMAIN p = {"pc", "config", "creates", "writes", "stale"} /\ p.config = config
  BY <1>0, <1>1, <1>5, <1>6 DEF Hiding
<1>8. x \in Manifest!Rows \ Manifest!Wanted(config) /\ x[1] \in owners
  BY <1>1, <1>2 DEF Hiding
<1>9. /\ \A y \in DOMAIN writes : y \in DOMAIN W
      /\ \A y \in DOMAIN W : y \in DOMAIN writes \/ y = x
      /\ \A y \in DOMAIN writes \ {x} : W[y] = writes[y]
      /\ x \in DOMAIN W => W[x] = "private"
  <2>1. CASE Manifest!Seen(s, x) = "public"
    BY <1>2, <1>4, <2>1 DEF Manifest!Write
  <2>2. CASE Manifest!Seen(s, x) # "public"
    BY <1>1, <1>2, <1>4, <1>8, <2>2 DEF Transacting
  <2> QED
    BY <2>1, <2>2
<1>10. Transacting(s)'
  BY <1>0, <1>1, <1>2, <1>7, <1>8, <1>9 DEF Transacting, Manifest!Wanted
<1>11. Hiding(s)'
  <2>1. ASSUME NEW y \in Manifest!Rows \ Manifest!Wanted(config)
        PROVE  y \in stale \ {x} \/ Manifest!Seen(s, y)' # "public"
    <3>1. CASE y = x
      <4>1. CASE Manifest!Seen(s, x) = "public"
        BY <1>2, <1>4, <1>7, <3>1, <4>1 DEF Manifest!Seen, Manifest!Write
      <4>2. CASE Manifest!Seen(s, x) # "public"
        BY <1>0, <1>2, <1>4, <1>7, <3>1, <4>2 DEF Manifest!Seen
      <4> QED
        BY <4>1, <4>2
    <3>2. CASE y # x /\ y \notin stale
      <4>1. Manifest!Seen(s, y) # "public"
        BY <1>1, <1>2, <3>2 DEF Hiding
      <4>2. Manifest!Seen(s, y)' = Manifest!Seen(s, y)
        BY <1>0, <1>2, <1>7, <1>9, <3>2 DEF Manifest!Seen
      <4> QED
        BY <4>1, <4>2
    <3> QED
      BY <3>1, <3>2
  <2>2. Manifest!Wanted(config) \subseteq DOMAIN W
    BY <1>1, <1>2, <1>9 DEF Hiding
  <2>3. stale \ {x} \subseteq Manifest!Rows \ Manifest!Wanted(config)
        /\ \A y \in stale \ {x} : y[1] \in owners
    BY <1>1, <1>2 DEF Hiding
  <2> QED
    BY <1>0, <1>7, <2>1, <2>2, <2>3 DEF Hiding, Manifest!Wanted
<1>12. \A y \in DOMAIN p.writes : y \in Manifest!Rows /\ ~Manifest!Locked(s, y)
  <2>1. Manifest!InTransaction(s)
    BY <1>0 DEF Manifest!InTransaction
  <2>2. \A y \in DOMAIN writes : y \in Manifest!Rows /\ ~Manifest!Locked(s, y)
    BY <1>2, <2>1 DEF SeedsInvariant, Manifest!TypeOK
  <2> QED
    BY <1>3, <1>7, <1>8, <1>9, <2>2
<1>13. Place(s)'
  BY <1>7, <1>10, <1>11 DEF Place
<1> QED
  BY <1>0, <1>6, <1>7, <1>12, <1>13, Moves

\* The commit: what is public afterwards is the manifest.
LEMMA CommitStep ==
  ASSUME SuiteAssumption, SeedsInvariant, NEW s \in Actors, Manifest!Commit(s)
  PROVE  SeedsInvariant'
<1>0. /\ UNCHANGED <<config, configs, demoUser, demoRow>> /\ Place(s)
      /\ start = [t \in Actors |-> start[t]] /\ config \in Manifest!Configs
      /\ start[s].pc = "hide" /\ start[s].stale = {}
      /\ row' = [x \in Manifest!Rows |-> Manifest!Seen(s, x)]
  BY DEF SeedsInvariant, Manifest!TypeOK, Manifest!Commit
<1>1. Transacting(s) /\ Hiding(s)
  BY <1>0 DEF Place, Manifest!Off, Manifest!Failed
<1>2. start[s].config = config
  BY <1>1 DEF Hiding
<1>3. /\ owners' = owners \cup ({config.owner} \ {None}) /\ last' = config
      /\ start' = [start EXCEPT ![s] = [pc |-> "demo", config |-> config]]
  BY <1>2 DEF Manifest!Commit, Manifest!At
<1>4. /\ start'[s].pc = "demo" /\ start'[s].config = config
      /\ \A t \in Actors \ {s} : start'[t] = start[t]
      /\ start' = [t \in Actors |-> start'[t]]
  BY <1>0, <1>3
<1>5. \A x \in Manifest!Rows :
        /\ x \in Manifest!Wanted(config) => row'[x] = "public"
        /\ x \notin Manifest!Wanted(config) =>
              row'[x] # "public" /\ row'[x] \in {row[x], "private"}
        /\ row'[x] \in {"absent", "private", "public"}
        /\ row'[x] # "absent" => x[1] \in owners'
  <2> TAKE x \in Manifest!Rows
  <2>1. row'[x] = Manifest!Seen(s, x) /\ row[x] \in {"absent", "private", "public"}
        /\ (row[x] # "absent" => x[1] \in owners)
    BY <1>0 DEF SeedsInvariant, Manifest!TypeOK
  <2>2. CASE x \in Manifest!Wanted(config)
    <3>1. row'[x] = "public"
      BY <1>1, <2>1, <2>2 DEF Hiding, Transacting, Manifest!Seen
    <3>2. x[1] = config.owner /\ x[1] \in Emails
      BY <1>0, <2>2, ConfigFacts DEF Manifest!Rows
    <3>3. config.owner # None
      BY <3>2 DEF SuiteAssumption, Manifest!SeedsAssumption
    <3> QED
      BY <1>3, <2>2, <3>1, <3>2, <3>3
  <2>3. CASE x \notin Manifest!Wanted(config)
    <3>1. row'[x] # "public"
      BY <1>0, <1>1, <2>1, <2>3 DEF Hiding
    <3>2. CASE x \in DOMAIN start[s].writes
      BY <1>1, <1>3, <2>1, <2>3, <3>1, <3>2 DEF Transacting, Manifest!Seen
    <3>3. CASE x \notin DOMAIN start[s].writes
      BY <1>3, <2>1, <2>3, <3>1, <3>3 DEF Manifest!Seen
    <3> QED
      BY <3>2, <3>3
  <2> QED
    BY <2>2, <2>3
<1>6. \A t \in Actors : Place(t)'
  <2>1. Place(s)'
    BY <1>0, <1>3, <1>4 DEF Place
  <2>2. ASSUME NEW t \in Actors \ {s} PROVE Place(t)'
    BY <1>0, <1>3, <1>4, <1>5, <2>2, PlaceStays DEF Seeded
  <2> QED
    BY <2>1, <2>2
<1>7. ASSUME NEW t \in Actors, Manifest!InTransaction(t)', NEW x \in DOMAIN start'[t].writes
      PROVE  x \in Manifest!Rows /\ ~Manifest!Locked(t, x)'
  <2>1. t # s
    BY <1>4, <1>7 DEF Manifest!InTransaction
  <2> QED
    BY <1>4, <1>7, <2>1 DEF Manifest!InTransaction, Manifest!Locked, SeedsInvariant,
                            Manifest!TypeOK
<1>8. Manifest!TypeOK'
  <2>1. row' \in [Manifest!Rows -> {"absent", "private", "public"}]
    BY <1>0, <1>5
  <2>2. config' \in Manifest!Configs /\ last' \in Manifest!Configs
    BY <1>0, <1>3 DEF SeedsInvariant, Manifest!TypeOK
  <2> QED
    BY <1>0, <1>5, <1>7, <2>1, <2>2 DEF SeedsInvariant, Manifest!TypeOK
<1>9. Manifest!PublishedIsManifest'
  <2>1. last' # None
    BY <1>0, <1>3 DEF SuiteAssumption, Manifest!SeedsAssumption
  <2>2. Manifest!Wanted(config) \subseteq Manifest!Rows
    BY <1>0, ConfigFacts
  <2>3. {x \in Manifest!Rows : row'[x] = "public"} = Manifest!Wanted(config)
    BY <1>5, <2>2
  <2> QED
    BY <1>3, <2>1, <2>3 DEF Manifest!PublishedIsManifest, Manifest!Published, Manifest!Wanted
<1> QED
  BY <1>4, <1>6, <1>8, <1>9 DEF SeedsInvariant

\* The demo seed, and the API that listens.
LEMMA DemoStep ==
  ASSUME SuiteAssumption, SeedsInvariant, NEW s \in Actors,
         Manifest!DemoUser(s) \/ Manifest!DemoUpsert(s) \/ Manifest!Listen(s)
  PROVE  SeedsInvariant'
<1>0. UNCHANGED <<config, owners, row, last>> /\ Place(s) /\ start = [t \in Actors |-> start[t]]
  BY DEF SeedsInvariant, Manifest!DemoUser, Manifest!DemoUpsert, Manifest!Listen
<1>1. CASE Manifest!DemoUser(s)
  <2>0. UNCHANGED demoRow /\ demoUser' \in {demoUser, TRUE}
    <3>1. demoUser' = TRUE \/ demoUser' = demoUser
      BY <1>1 DEF Manifest!DemoUser
    <3>2. demoUser' \in {demoUser, TRUE}
      BY <3>1
    <3> QED
      BY <1>1, <3>2 DEF Manifest!DemoUser
  <2>1. start[s].config = config /\ last = config
    BY <1>0, <1>1 DEF Manifest!DemoUser, Place, Manifest!Off, Manifest!Failed
  <2>2. PICK p : /\ start' = [start EXCEPT ![s] = p]
                 /\ p \in {Manifest!Failed,
                           [pc |-> "demo_rows", config |-> start[s].config, todo |-> DemoKeys]}
    BY <1>1 DEF Manifest!DemoUser, Manifest!At
  <2>3. p = Manifest!Failed \/ (/\ p.pc = "demo_rows" /\ p.config = config /\ p.todo = DemoKeys
                                /\ DOMAIN p = {"pc", "config", "todo"})
    BY <2>1, <2>2
  <2>4. Place(s)'
    BY <1>0, <2>0, <2>1, <2>2, <2>3 DEF Place, Seeded
  <2> QED
    BY <1>0, <2>0, <2>1, <2>2, <2>3, <2>4, Moves DEF Manifest!Failed
<1>2. CASE Manifest!Listen(s)
  <2>1. last = config /\ UNCHANGED demoRow /\ demoUser' \in {demoUser, TRUE} /\ DemoKeys \subseteq Seeded
    BY <1>0, <1>2 DEF Manifest!Listen, Place, Manifest!Off, Manifest!Failed, SeedsInvariant,
                      Manifest!TypeOK
  <2>2. PICK p : p = [pc |-> "listening"]
    OBVIOUS
  <2>3. start' = [start EXCEPT ![s] = p] /\ p.pc = "listening"
    BY <1>2, <2>2 DEF Manifest!Listen, Manifest!At
  <2>4. Place(s)'
    BY <1>0, <2>1, <2>3 DEF Place, Seeded
  <2> QED
    BY <1>0, <2>1, <2>3, <2>4, Moves
<1>3. CASE Manifest!DemoUpsert(s)
  <2>1. PICK todo : todo = start[s].todo
    OBVIOUS
  <2>2. PICK k \in todo : /\ demoRow' = [demoRow EXCEPT ![k] = "present"]
                          /\ start' = [start EXCEPT ![s] = [start[s] EXCEPT !.todo = todo \ {k}]]
    BY <1>3, <2>1 DEF Manifest!DemoUpsert, Manifest!At
  <2>3. /\ start[s].pc = "demo_rows" /\ start[s].config = config /\ last = config
        /\ DOMAIN start[s] = {"pc", "config", "todo"}
        /\ todo \subseteq DemoKeys /\ DemoKeys \subseteq Seeded \cup todo
    BY <1>0, <1>3, <2>1 DEF Manifest!DemoUpsert, Place, Manifest!Off, Manifest!Failed
  <2>0. /\ demoRow' \in [DemoKeys -> {"absent", "present", "removed"}]
        /\ Seeded \cup {k} \subseteq Seeded' /\ UNCHANGED demoUser
    BY <1>3, <2>2, <2>3 DEF SeedsInvariant, Manifest!TypeOK, Seeded, Manifest!DemoUpsert
  <2>4. PICK p : p = [start[s] EXCEPT !.todo = todo \ {k}]
    OBVIOUS
  <2>5. /\ start' = [start EXCEPT ![s] = p] /\ start'[s] = p
        /\ p.pc = "demo_rows" /\ p.config = config /\ p.todo = todo \ {k}
        /\ DOMAIN p = {"pc", "config", "todo"}
        /\ \A t \in Actors \ {s} : start'[t] = start[t]
        /\ start' = [t \in Actors |-> start'[t]]
    BY <1>0, <2>2, <2>3, <2>4
  <2>6. Place(s)'
    BY <1>0, <2>0, <2>3, <2>5 DEF Place
  <2>7. ASSUME NEW t \in Actors \ {s} PROVE Place(t)'
    BY <1>0, <2>0, <2>5, <2>7, PlaceStays
  <2>8. ASSUME NEW t \in Actors, Manifest!InTransaction(t)', NEW x \in DOMAIN start'[t].writes
        PROVE  x \in Manifest!Rows /\ ~Manifest!Locked(t, x)'
    <3>1. t # s
      BY <2>5, <2>8 DEF Manifest!InTransaction
    <3> QED
      BY <2>5, <2>8, <3>1 DEF Manifest!InTransaction, Manifest!Locked, SeedsInvariant,
                              Manifest!TypeOK
  <2>9. Manifest!TypeOK'
    BY <1>0, <2>0, <2>3, <2>8 DEF SeedsInvariant, Manifest!TypeOK
  <2>10. Manifest!PublishedIsManifest'
    BY <1>0 DEF SeedsInvariant, Manifest!PublishedIsManifest, Manifest!Published,
                Manifest!Wanted
  <2> QED
    BY <2>5, <2>6, <2>7, <2>9, <2>10 DEF SeedsInvariant
<1> QED
  BY <1>1, <1>2, <1>3

\* A demo monitor that is deleted, or restored by the worker, was seeded before or is now.
LEMMA VisitorStep ==
  ASSUME SuiteAssumption, SeedsInvariant,
         Manifest!DemoReset \/ \E k \in DemoKeys : Manifest!DeleteMonitor(k)
  PROVE  SeedsInvariant'
<1>1. UNCHANGED <<config, configs, owners, row, start, demoUser, last>>
  BY DEF Manifest!DemoReset, Manifest!DeleteMonitor
<1>2. demoRow' \in [DemoKeys -> {"absent", "present", "removed"}] /\ Seeded \subseteq Seeded'
  BY DEF Manifest!DemoReset, Manifest!DeleteMonitor, SeedsInvariant, Manifest!TypeOK, Seeded
<1>3. \A s \in Actors : Place(s)'
  BY <1>1, <1>2, PlaceStays
<1>4. Manifest!TypeOK'
  BY <1>1, <1>2 DEF SeedsInvariant, Manifest!TypeOK, Manifest!InTransaction, Manifest!Locked
<1>5. Manifest!PublishedIsManifest'
  BY <1>1 DEF SeedsInvariant, Manifest!PublishedIsManifest, Manifest!Published, Manifest!Wanted
<1> QED
  BY <1>1, <1>3, <1>4, <1>5 DEF SeedsInvariant

LEMMA NextSeeds ==
  SuiteAssumption /\ SeedsInvariant /\ [Manifest!Next]_seedVars => SeedsInvariant'
<1> SUFFICES ASSUME SuiteAssumption, SeedsInvariant, [Manifest!Next]_seedVars
             PROVE  SeedsInvariant'
  OBVIOUS
<1>1. CASE Manifest!Reconfigure
  <2>1. \A s \in Actors : start'[s] = Manifest!Off
    BY <1>1 DEF Manifest!Reconfigure
  <2>2. Manifest!TypeOK'
    BY <1>1, <2>1 DEF Manifest!Reconfigure, SeedsInvariant, Manifest!TypeOK,
                      Manifest!InTransaction, Manifest!Off
  <2>3. Manifest!PublishedIsManifest'
    BY <1>1 DEF Manifest!Reconfigure, SeedsInvariant, Manifest!PublishedIsManifest,
                Manifest!Published, Manifest!Wanted
  <2>4. \A s \in Actors : Place(s)'
    BY <2>1 DEF Place
  <2> QED
    BY <1>1, <2>2, <2>3, <2>4 DEF Manifest!Reconfigure, SeedsInvariant
<1>2. CASE UNCHANGED seedVars
  <2>1. \A s \in Actors : Place(s)'
    BY <1>2, PlaceStays DEF seedVars, SeedsInvariant, Seeded
  <2>2. Manifest!TypeOK'
    BY <1>2 DEF seedVars, SeedsInvariant, Manifest!TypeOK, Manifest!InTransaction,
                Manifest!Locked
  <2>3. Manifest!PublishedIsManifest'
    BY <1>2 DEF seedVars, SeedsInvariant, Manifest!PublishedIsManifest, Manifest!Published,
                Manifest!Wanted
  <2> QED
    BY <1>2, <2>1, <2>2, <2>3 DEF seedVars, SeedsInvariant
<1> QED
  BY <1>1, <1>2, BeforeWrites, UpsertStep, ScanStep, HideStep, CommitStep, DemoStep, VisitorStep
     DEF Manifest!Next, Manifest!Step

\* An API that listens has applied its configuration.
LEMMA SeedsSound == SeedsInvariant => Manifest!ListensWhenSeeded
BY DEF SeedsInvariant, Manifest!ListensWhenSeeded, Place, Seeded, Manifest!Off, Manifest!Failed

-----------------------------------------------------------------------------
(* The suite *)

SuiteInvariant ==
    /\ QuotaInvariant
    /\ running \in {"race", "adopt"} => RegistryInvariant
    /\ running = "manifest" => SeedsInvariant

LEMMA SuiteSound == AllSpec => []SuiteInvariant
<1>1. AllInit => SuiteInvariant
  BY SuiteAssumption, InitQuota, InitRegistry, InitSeeds DEF AllInit, SuiteInvariant
<1>2. SuiteInvariant /\ [AllNext]_allVars => SuiteInvariant'
  <2> SUFFICES ASSUME SuiteInvariant, [AllNext]_allVars PROVE SuiteInvariant'
    OBVIOUS
  <2>1. [Next]_vars /\ running' = running
    BY DEF AllNext, allVars
  <2>2. running \in {"race", "adopt"} => [Registry!Next]_accountVars
    BY DEF AllNext, allVars
  <2>3. running = "manifest" => [Manifest!Next]_seedVars
    BY DEF AllNext, allVars
  <2> QED
    BY <2>1, <2>2, <2>3, SuiteAssumption, NextQuota, NextRegistry, NextSeeds DEF SuiteInvariant
<1> QED
  BY <1>1, <1>2, PTL DEF AllSpec

\* For every quota, manifest and number of concurrent requests: how far an account
\* can exceed its quota (createMonitor counts before it inserts).  With one request
\* at a time an ordinary account never does.
THEOREM OvershootProved == AllSpec => []OvershootBounded
<1>1. SuiteInvariant => OvershootBounded
  BY QuotaSound DEF SuiteInvariant
<1> QED
  BY <1>1, SuiteSound, PTL

\* For any registrations and starts of the API: of registrations with an email or a
\* username one is answered with created, and its account stays (createUser).
THEOREM WinnerCorrect ==
    /\ AllSpec => []OneWinner
    /\ Registry!Spec => [](Registry!TypeOK /\ Registry!OneWinner)
<1>1. SuiteInvariant => OneWinner
  BY SuiteAssumption, RegistrySound DEF SuiteInvariant, OneWinner
<1>2. RegistryInvariant => Registry!TypeOK /\ Registry!OneWinner
  BY SuiteAssumption, RegistrySound
<1> QED
  BY <1>1, <1>2, SuiteSound, RegistryAlways, PTL

\* For any logins, configurations and starts of the API: what a person types names
\* one account, a request acts as an account its password was chosen for or as the
\* demo's, and the status page is published on no other account than the seed's
\* (createUser, login, JwtStrategy.validate, StatusSeed.seed, DemoSeed.seed).
THEOREM OwnCorrect ==
    /\ AllSpec => []OwnAccountOnly
    /\ Registry!Spec =>
          [](Registry!NoCrossNaming /\ Registry!ActsAsOneself /\ Registry!NoTakeover)
<1>1. SuiteInvariant => OwnAccountOnly
  BY SuiteAssumption, RegistrySound DEF SuiteInvariant, OwnAccountOnly
<1>2. RegistryInvariant =>
        Registry!NoCrossNaming /\ Registry!ActsAsOneself /\ Registry!NoTakeover
  BY SuiteAssumption, RegistrySound
<1> QED
  BY <1>1, <1>2, SuiteSound, RegistryAlways, PTL

\* For any manifests, and any number of starts that overlap, fail and are repeated:
\* exactly the manifest of the last seed that committed is public, and an API
\* listens only with its configuration applied, a demo monitor that is missing having
\* been deleted (StatusSeed.seed, DemoSeed.seed, docker-entrypoint.sh).
THEOREM SeedsCorrect == AllSpec => []SeedsApplied
<1>1. SuiteInvariant => SeedsApplied
  BY SeedsSound DEF SuiteInvariant, SeedsApplied, SeedsInvariant
<1> QED
  BY <1>1, SuiteSound, PTL
=============================================================================
