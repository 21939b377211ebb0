------------------------------- MODULE Session -------------------------------
(***************************************************************************)
(* The session of one browser tab: the token store with its copy in        *)
(* sessionStorage, the snapshot that AuthProvider renders, the fetch       *)
(* wrapper and the requests it has in flight, the sign-in forms, the route *)
(* guard and the expiry watcher.  A session is named by the number of the  *)
(* sign-in attempt that opened it; its token decodes to its user.          *)
(***************************************************************************)
EXTENDS Naturals, FiniteSets

CONSTANTS
    MaxLogins,      \* bound: sign-in attempts of the tab
    MaxCalls        \* bound: authenticated requests in flight

SessionAssumption == MaxLogins \in Nat /\ MaxCalls \in Nat

VARIABLES
    token,      \* tokenStore: the session in memory, 0 for none
    stored,     \* the item in sessionStorage
    auth,       \* the session of AuthProvider's last snapshot
    page,       \* the route displayed
    form,       \* the attempt the mounted form is busy with
    owns,       \* ownsNavigationRef of the mounted LoginPage
    attempts,   \* requests of forms in flight, of mounted and of left forms
    signups,    \* those of them that register an account
    issued,     \* number of attempts so far
    soon,       \* sessions within the skew of their expiry
    rejected,   \* sessions the API answers 401
    calls,      \* apiFetch calls in flight that carry the token
    ended,      \* history: sessions that were ended or replaced
    storage     \* sessionStorage is available in this browser

store == <<token, stored, ended>>
clock == <<soon, rejected>>
vars == <<token, stored, auth, page, form, owns, attempts, signups, issued,
          soon, rejected, calls, ended, storage>>
forms == <<attempts, signups, issued>>

Sessions == 1..MaxLogins
Public == {"status", "register"}
Pages == Public \cup {"login", "monitors"}
Results == {"sent", "ok", "401", "failed"}
Call == [session : 0..MaxLogins, result : Results]

Init ==
    /\ token = 0 /\ stored = 0 /\ auth = 0
    /\ page = "login"
    /\ form = 0 /\ owns = FALSE /\ attempts = {} /\ signups = {}
    /\ issued = 0
    /\ soon = {} /\ rejected = {}
    /\ calls = {} /\ ended = {}
    /\ storage \in BOOLEAN

Set(n) ==
    /\ token' = n
    /\ stored' = IF storage THEN n ELSE stored
    /\ ended' = ended \cup ({token} \ {0, n})

Clear ==
    /\ token' = 0
    /\ stored' = 0
    /\ ended' = ended \cup ({token} \ {0})

\* Where a navigation to p ends: RequireAuth sends the signed-out to the
\* login page, and a fresh LoginPage sends the signed-in to the monitors.
Landing(p, session) ==
    CASE p = "monitors" /\ session = 0 -> "login"
      [] p = "login" /\ session # 0 -> "monitors"
      [] OTHER -> p

\* The page shown becomes p; leaving a page unmounts its form.
Show(p) ==
    /\ page' = p
    /\ form' = IF p = page THEN form ELSE 0
    /\ owns' = (owns /\ p = page)

-----------------------------------------------------------------------------
(* The forms of LoginPage and RegisterPage. *)

\* busyRef: one request per mounted form.
Request ==
    /\ form = 0
    /\ issued < MaxLogins
    /\ issued' = issued + 1
    /\ attempts' = attempts \cup {issued + 1}
    /\ form' = issued + 1
    /\ UNCHANGED <<store, auth, page, clock, calls, storage>>

SubmitLogin ==
    /\ page = "login"
    /\ Request
    /\ owns' = TRUE
    /\ UNCHANGED signups

SubmitRegister ==
    /\ page = "register"
    /\ Request
    /\ signups' = signups \cup {issued'}
    /\ UNCHANGED owns

SubmitDemo ==
    /\ page = "register"
    /\ Request
    /\ UNCHANGED <<signups, owns>>

Reply(n) ==
    /\ attempts' = attempts \ {n}
    /\ signups' = signups \ {n}
    /\ UNCHANGED issued

\* MUTANT: the token is stored, the snapshot is not taken.
SignedInUnseen(n) ==
    /\ n \in attempts \ signups
    /\ Reply(n)
    /\ Set(n)
    /\ Show("monitors")
    /\ UNCHANGED <<auth, clock, calls, storage>>

\* login and demoLogin store the token, take the snapshot, and the form that
\* asked navigates, even when it has been left in the meantime.
SignedIn(n) ==
    /\ n \in attempts \ signups
    /\ Reply(n)
    /\ Set(n)
    /\ auth' = n
    /\ Show("monitors")
    /\ UNCHANGED <<clock, calls, storage>>

\* MUTANT: a 401 for wrong credentials is handled as the end of the session.
SignInFailsHandled(n) ==
    /\ n \in attempts \ signups
    /\ Reply(n)
    /\ form' = IF form = n THEN 0 ELSE form
    /\ Clear
    /\ UNCHANGED <<auth, page, owns, clock, calls, storage>>

\* A refused or failed request of a form leaves token and handler alone.
SignInFails(n) ==
    /\ n \in attempts
    /\ Reply(n)
    /\ form' = IF form = n THEN 0 ELSE form
    /\ UNCHANGED <<store, auth, page, owns, clock, calls, storage>>

\* An account is created without a session: the form leads to the login page.
Registered(n) ==
    /\ n \in signups
    /\ Reply(n)
    /\ Show(Landing("login", auth))
    /\ UNCHANGED <<store, auth, clock, calls, storage>>

-----------------------------------------------------------------------------
(* The user, the expiry watcher, and a reload. *)

Logout ==
    /\ page = "monitors"
    /\ Clear
    /\ auth' = 0
    /\ Show("login")
    /\ UNCHANGED <<forms, clock, calls, storage>>

Visit(p) ==
    /\ p # page
    /\ Show(Landing(p, auth))
    /\ UNCHANGED <<store, auth, forms, clock, calls, storage>>

\* The 30 s watcher: it ends a session that is about to expire, except on a
\* public route, and otherwise renders what the store holds.
Tick ==
    LET expiring == token \in soon /\ page \notin Public IN
    /\ IF expiring THEN Clear ELSE UNCHANGED store
    /\ auth' = token'
    /\ Show(CASE expiring -> "login"
              [] page \in Public \/ owns -> page
              [] OTHER -> Landing(page, token))
    /\ UNCHANGED <<forms, clock, calls, storage>>

\* A reload ends every script; the store restores the copy, if there is one.
Reload ==
    /\ token' = stored
    /\ UNCHANGED stored
    /\ ended' = ended \cup ({token} \ {0, stored})
    /\ auth' = stored
    /\ page' = Landing(page, stored)
    /\ form' = 0 /\ owns' = FALSE
    /\ attempts' = {} /\ signups' = {}
    /\ calls' = {}
    /\ UNCHANGED <<issued, clock, storage>>

-----------------------------------------------------------------------------
(* apiFetch: a request is sent with the token of that moment, decided by   *)
(* the API, and its answer applied to the store of a later moment.         *)

Send ==
    /\ page = "monitors"
    /\ Cardinality(calls) < MaxCalls
    /\ calls' = calls \cup {[session |-> token, result |-> "sent"]}
    /\ UNCHANGED <<store, auth, page, form, owns, forms, clock,
                   storage>>

Serve(c) ==
    /\ c.result = "sent"
    /\ \E r \in {"failed", IF c.session \in {0} \cup rejected THEN "401" ELSE "ok"} :
          calls' = (calls \ {c}) \cup {[c EXCEPT !.result = r]}
    /\ UNCHANGED <<store, auth, page, form, owns, forms, clock,
                   storage>>

\* On a public route the handler that AuthProvider registers returns early.
UnauthorizedHandler ==
    IF page \in Public THEN UNCHANGED <<auth, page, form, owns>>
                      ELSE auth' = 0 /\ Show("login")

\* A 401 clears the store, whichever session it answers.
Unauthorized(c) ==
    /\ c.result = "401"
    /\ calls' = calls \ {c}
    /\ Clear
    /\ UnauthorizedHandler
    /\ UNCHANGED <<forms, clock, storage>>

\* Any other answer leaves the session alone.
Answered(c) ==
    /\ c.result \in {"ok", "failed"}
    /\ calls' = calls \ {c}
    /\ UNCHANGED <<store, auth, page, form, owns, forms, clock,
                   storage>>


\* Time, and the API's view of a session: expired, inactive or removed.
Age ==
    /\ \E n \in 1..issued :
          \/ soon' = soon \cup {n} /\ UNCHANGED rejected
          \/ rejected' = rejected \cup {n} /\ UNCHANGED soon
    /\ UNCHANGED <<store, auth, page, form, owns, forms, calls,
                   storage>>

Next ==
    \/ SubmitLogin \/ SubmitRegister \/ SubmitDemo
    \/ Logout \/ Tick \/ Reload \/ Age \/ Send
    \/ \E n \in attempts : SignedIn(n) \/ SignInFails(n) \/ Registered(n)
    \/ \E p \in Pages : Visit(p)
    \/ \E c \in calls : Serve(c) \/ Unauthorized(c) \/ Answered(c)

Spec == Init /\ [][Next]_vars

-----------------------------------------------------------------------------
(* A form is busy only while the request it waits for is in flight: the     *)
(* shape of the state of the tab.                                           *)
TypeOK ==
    /\ {token, stored, auth} \subseteq 0..MaxLogins
    /\ page \in Pages
    /\ attempts \subseteq 1..issued /\ issued \in 0..MaxLogins
    /\ signups \subseteq attempts
    /\ form \in attempts \cup {0}
    /\ soon \cup rejected \cup ended \subseteq 1..issued
    /\ calls \subseteq Call /\ IsFiniteSet(calls)
    /\ owns \in BOOLEAN /\ storage \in BOOLEAN

(* The header never names another session than the one whose token the     *)
(* requests carry: screen and store differ only after a session has ended, *)
(* in whatever order sign-ins, answers, ticks and reloads arrive.          *)
OneIdentity == auth # token => token = 0

(* A session that was ended by logout, expiry or a 401, or was replaced, is *)
(* not brought back by the copy in sessionStorage or by a late answer.      *)
EndedStaysEnded == {token, stored} \cap ended = {}

(* A session ends only by a logout, by the watcher near its expiry, because *)
(* the API rejects it, by a reload without storage, or, which nobody wants, *)
(* by the late 401 to a request that was sent without a token or with that  *)
(* of a session which is over and which the API rejects: apiFetch does not  *)
(* compare it with the token it clears.  No other answer, nor the 401 of a  *)
(* refused sign-in or of an anonymous page, ends any.                       *)
EndingHasReason ==
    token # 0 /\ token' = 0 =>
        \/ Logout
        \/ token \in soon \cup rejected
        \/ Reload /\ ~storage
        \/ \E c \in calls \ calls' :
              c.result = "401" /\ c.session \in {0} \cup (ended \cap rejected)

EndsForAReason == [][EndingHasReason]_vars

=============================================================================
