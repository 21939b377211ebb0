------------------------------- MODULE Accounts -------------------------------
(***************************************************************************)
(* The users table and all that writes it or signs in with it:             *)
(* registrations, whose checks and insert are separate statements, logins, *)
(* and the two seeds that run at every start of the API, which may overlap *)
(* with the old instance and with each other, with a changed configuration.*)
(* Tokens are kept: an expired one is refused like an unknown one.         *)
(***************************************************************************)
EXTENDS Naturals, Sequences

CONSTANTS
    Emails, Handles,    \* strings with and without an @
    Requests,           \* registrations; each knows the password it sends
    Seeders,            \* starts of the API
    None,               \* STATUS_OWNER_EMAIL is not set
    MaxReconfigs        \* bound: changes of the configuration

AccountsAssumption ==
    /\ Emails \cap Handles = {} /\ None \notin Emails
    /\ "demo" \notin Requests /\ "status" \notin Requests /\ "disabled" \notin Requests
    /\ MaxReconfigs \in Nat

VARIABLES
    users,      \* the table; the id of a row is its position
    env,        \* STATUS_OWNER_EMAIL and DEMO_USER_EMAIL
    changes,    \* how often the configuration was changed
    reg, seed, login,
    tokens,     \* tokens signed, with the password that obtained each
    published   \* history: accounts a status seed has published with

vars == <<users, env, changes, reg, seed, login, tokens, published>>

Knowers == Requests \cup {"demo"}   \* passwords; the demo's is public
Disabled == "disabled"              \* not an Argon2 hash
Idle == [pc |-> "idle"]

findByEmail(e) == {i \in DOMAIN users : users[i].email = e}
findByUsername(u) == {i \in DOMAIN users : users[i].username = u}

\* MUTANT: the unique index on username is missing.
ConflictsEmail(e, u) == findByEmail(e) # {}

\* The unique indexes of users.
Conflicts(e, u) == findByEmail(e) \cup findByUsername(u) # {}

Row(e, u, pw, active, demo, by) ==
    [email |-> e, username |-> u, password |-> pw, is_active |-> active,
     is_demo |-> demo, creator |-> by]

Init ==
    /\ users = << >>
    /\ env \in [owner : Emails \cup {None}, demo : Emails]
    /\ changes = 0
    /\ reg = [r \in Requests |-> Idle]
    /\ seed = [s \in Seeders |-> Idle]
    /\ login = [w \in Knowers |-> Idle]
    /\ tokens = {} /\ published = {}

-----------------------------------------------------------------------------
(* users.service.ts *)

ValidUsernames == Handles

Register(r) ==
    /\ reg[r] = Idle
    /\ \E e \in Emails, u \in ValidUsernames :
          reg' = [reg EXCEPT ![r] = [pc |-> "email", email |-> e, username |-> u]]
    /\ UNCHANGED <<users, env, changes, seed, login, tokens, published>>

FindEmail(r) ==
    /\ reg[r].pc = "email"
    /\ reg' = [reg EXCEPT ![r].pc =
                  IF findByEmail(reg[r].email) # {} THEN "bad_request" ELSE "username"]
    /\ UNCHANGED <<users, env, changes, seed, login, tokens, published>>

FindUsername(r) ==
    /\ reg[r].pc = "username"
    /\ reg' = [reg EXCEPT ![r].pc =
                  IF findByUsername(reg[r].username) # {} THEN "bad_request" ELSE "insert"]
    /\ UNCHANGED <<users, env, changes, seed, login, tokens, published>>

\* The password is hashed in between; a conflict is an internal error.
Insert(r) ==
    /\ reg[r].pc = "insert"
    /\ IF Conflicts(reg[r].email, reg[r].username)
       THEN /\ reg' = [reg EXCEPT ![r].pc = "internal_error"]
            /\ UNCHANGED users
       ELSE /\ reg' = [reg EXCEPT ![r].pc = "created"]
            /\ users' = Append(users, Row(reg[r].email, reg[r].username, r,
                                          TRUE, FALSE, r))
    /\ UNCHANGED <<env, changes, seed, login, tokens, published>>

-----------------------------------------------------------------------------
(* auth.service.ts, jwt.strategy.ts *)

LoginByEmail(w) ==
    /\ login[w] = Idle
    /\ \E ident \in Emails \cup Handles :
          login' = [login EXCEPT ![w] =
                       [pc |-> "found", ident |-> ident,
                        rows |-> {users[i] : i \in findByEmail(ident)}]]
    /\ UNCHANGED <<users, env, changes, reg, seed, tokens, published>>

\* The lookup by username when there is no such email, the verification
\* of the row that was read, and the signature.
LoginSign(w) ==
    /\ login[w] # Idle
    /\ LET l == login[w]
           rows == IF l.rows # {} THEN l.rows
                   ELSE {users[i] : i \in findByUsername(l.ident)}
       IN  tokens' = tokens \cup
               {[sub |-> row.email, by |-> w] : row \in {x \in rows : x.password = w}}
    /\ login' = [login EXCEPT ![w] = Idle]
    /\ UNCHANGED <<users, env, changes, reg, seed, published>>

demoLogin ==
    /\ \E i \in findByEmail(env.demo) :
          /\ users[i].is_active /\ users[i].is_demo
          /\ tokens' = tokens \cup {[sub |-> users[i].email, by |-> "demo"]}
    /\ UNCHANGED <<users, env, changes, reg, seed, login, published>>

\* MUTANT: an inactive account is accepted.
validateInactive(t) == findByEmail(t.sub)

\* The account a request with the token acts as.
validate(t) == {i \in findByEmail(t.sub) : users[i].is_active}

-----------------------------------------------------------------------------
(* seed.ts, status-seed.ts, demo-seed.ts *)

SeedStart(s) ==
    /\ seed[s] = Idle
    /\ \/ /\ env.owner = env.demo           \* refused
          /\ seed' = [seed EXCEPT ![s] = [pc |-> "ended"]]
       \/ /\ env.owner \notin {env.demo, None}
          /\ seed' = [seed EXCEPT ![s] = [pc |-> "lookup", env |-> env]]
       \/ /\ env.owner = None
          /\ seed' = [seed EXCEPT ![s] = [pc |-> "demo", env |-> env]]
    /\ UNCHANGED <<users, env, changes, reg, login, tokens, published>>

IsStatusOwner(row) == ~row.is_demo /\ ~row.is_active /\ row.password = Disabled

SeedLookup(s) ==
    /\ seed[s].pc = "lookup"
    /\ LET existing == findByEmail(seed[s].env.owner)
       IN  IF \E i \in existing : ~IsStatusOwner(users[i])
           THEN seed' = [seed EXCEPT ![s] = [pc |-> "ended"]]
           ELSE seed' = [seed EXCEPT ![s] = [pc |-> "owner", env |-> seed[s].env,
                                             existing |-> existing]]
    /\ UNCHANGED <<users, env, changes, reg, login, tokens, published>>

\* The transaction of the status seed; its monitors are in module Seeds.
SeedOwner(s) ==
    /\ seed[s].pc = "owner"
    /\ LET e == seed[s].env.owner
           next == [seed EXCEPT ![s] = [pc |-> "demo", env |-> seed[s].env]]
       IN  \/ /\ seed[s].existing # {}
              /\ published' = published \cup seed[s].existing
              /\ seed' = next
              /\ UNCHANGED users
           \/ /\ seed[s].existing = {} /\ ~Conflicts(e, e)
              /\ users' = Append(users, Row(e, e, Disabled, FALSE, FALSE, "status"))
              /\ published' = published \cup {Len(users) + 1}
              /\ seed' = next
           \/ /\ seed[s].existing = {} /\ Conflicts(e, e)   \* P2002
              /\ seed' = [seed EXCEPT ![s] = [pc |-> "ended"]]
              /\ UNCHANGED <<users, published>>
    /\ UNCHANGED <<env, changes, reg, login, tokens>>

\* The upsert of the demo account.
SeedDemo(s) ==
    /\ seed[s].pc = "demo"
    /\ LET e == seed[s].env.demo
           same == findByEmail(e)
       IN  users' = IF same # {}
                    THEN [i \in DOMAIN users |->
                             IF i \in same
                             THEN [users[i] EXCEPT !.password = "demo", !.is_demo = TRUE]
                             ELSE users[i]]
                    ELSE IF Conflicts(e, e) THEN users
                    ELSE Append(users, Row(e, e, "demo", TRUE, TRUE, "demo"))
    /\ seed' = [seed EXCEPT ![s] = [pc |-> "ended"]]
    /\ UNCHANGED <<env, changes, reg, login, tokens, published>>

\* The container ends, or fails between two statements, and is restarted.
Restart(s) ==
    /\ seed[s] # Idle
    /\ seed' = [seed EXCEPT ![s] = Idle]
    /\ UNCHANGED <<users, env, changes, reg, login, tokens, published>>

Reconfigure ==
    /\ changes < MaxReconfigs
    /\ env' \in [owner : Emails \cup {None}, demo : Emails]
    /\ changes' = changes + 1
    /\ UNCHANGED <<users, reg, seed, login, tokens, published>>

-----------------------------------------------------------------------------
Next ==
    \/ \E r \in Requests :
          Register(r) \/ FindEmail(r) \/ FindUsername(r) \/ Insert(r)
    \/ \E w \in Knowers : LoginByEmail(w) \/ LoginSign(w)
    \/ demoLogin
    \/ \E s \in Seeders :
          SeedStart(s) \/ SeedLookup(s) \/ SeedOwner(s) \/ SeedDemo(s) \/ Restart(s)
    \/ Reconfigure

Spec == Init /\ [][Next]_vars

-----------------------------------------------------------------------------
TypeOK ==
    /\ \A i \in DOMAIN users :
          /\ users[i].email \in Emails
          /\ users[i].username \in Emails \cup Handles
          /\ users[i].password \in Knowers \cup {Disabled}
          /\ users[i].creator \in Requests \cup {"status", "demo"}
    /\ published \subseteq DOMAIN users
    /\ \A t \in tokens : findByEmail(t.sub) # {}

(* Of the registrations that overlap, at most one with an email, and one    *)
(* with a username, is answered with created; and its account stays.        *)
OneWinner ==
    \A r, q \in {x \in Requests : reg[x].pc = "created"} :
        /\ \E i \in DOMAIN users : users[i].creator = r /\ users[i].email = reg[r].email
        /\ r # q => reg[r].email # reg[q].email /\ reg[r].username # reg[q].username

(* What a person types to sign in names one account: no username is the     *)
(* email of another account, although the seeds use emails as usernames.    *)
NoCrossNaming ==
    \A i, j \in DOMAIN users : users[i].username = users[j].email => i = j

(* A request acts as an account the password was chosen for, or as a demo   *)
(* account, and never as the owner of the status page: also when the demo   *)
(* seed adopts that owner's email after a change of the configuration.      *)
ActsAsOneself ==
    \A t \in tokens : \A i \in validate(t) :
        /\ users[i].creator = t.by \/ users[i].is_demo
        /\ users[i].creator # "status"

(* The status page is never published on an account the status seed did not *)
(* create, although the seed looks for the account before its transaction.  *)
NoTakeover ==
    \A i \in published : users[i].creator = "status"
=============================================================================
