---------------------------- MODULE MCPagesProofs ----------------------------
(***************************************************************************)
(* The browser's parts for a signed-in user, proved for any number of      *)
(* sign-ins and of requests in flight.  The parts share no state: a step   *)
(* of the composition is a step of one of them, and the others stand still.*)
(***************************************************************************)
EXTENDS MCPages, FiniteSetTheorems, TLAPS

\* The assumption on the bounds of the session's model.
LEMMA TabBounds == MaxLogins \in Nat /\ MaxCalls \in Nat
  BY PagesAssumption DEF Tab!SessionAssumption

\* The sets that are finite in the session's model are the finite sets.
LEMMA TabFinite == \A S : Tab!IsFiniteSet(S) <=> IsFiniteSet(S)
  BY DEF Tab!IsFiniteSet, IsFiniteSet

-----------------------------------------------------------------------------
(* The session of the tab *)

\* What the token store holds and what was ended, the attempts that may still
\* become sessions, and why a request was answered 401.  An attempt in flight was
\* never a session; a request carries the token of a session that is over unless it
\* carries that of the present one or none; the copy follows the store wherever there
\* is storage.
TabInvariant ==
    /\ Tab!TypeOK /\ Tab!OneIdentity /\ Tab!EndedStaysEnded
    /\ token <= issued
    /\ stored = IF storage THEN token ELSE 0
    /\ attempts \cap (ended \cup {token}) = {}
    /\ form # 0 => page = "register" \/ (page = "login" /\ form \notin signups)
    /\ \A c \in calls : /\ c.session \in ended \cup {0, token}
                        /\ c.result = "401" => c.session \in {0} \cup rejected

LEMMA TabInit == Tab!Init => TabInvariant
<1> SUFFICES ASSUME Tab!Init PROVE TabInvariant
  OBVIOUS
<1>1. Tab!IsFiniteSet(calls)
  BY FS_EmptySet, TabFinite DEF Tab!Init
<1>2. Tab!TypeOK
  <2>1. owns \in BOOLEAN /\ storage \in BOOLEAN
    BY DEF Tab!Init
  <2>2. page \in Tab!Pages /\ issued \in 0..MaxLogins /\ 0 \in 0..MaxLogins
    BY TabBounds DEF Tab!Init, Tab!Pages
  <2> QED
    BY <1>1, <2>1, <2>2 DEF Tab!Init, Tab!TypeOK
<1> QED
  BY <1>2 DEF TabInvariant, Tab!Init, Tab!OneIdentity, Tab!EndedStaysEnded

\* A form sends its request: the attempt is a number nobody has used.
LEMMA TabSubmit ==
  ASSUME TabInvariant, Tab!SubmitLogin \/ Tab!SubmitRegister \/ Tab!SubmitDemo
  PROVE  TabInvariant'
<1> USE DEF TabInvariant
<1>1. /\ issued + 1 \notin attempts \cup ended \cup {token}
      /\ issued' = issued + 1 /\ issued' \in 0..MaxLogins
      /\ attempts' = attempts \cup {issued + 1}
      /\ form = 0 /\ form' = issued + 1
      /\ page \in {"login", "register"}
      /\ UNCHANGED <<token, stored, ended, auth, page, soon, rejected, calls, storage>>
  BY TabBounds DEF Tab!TypeOK, Tab!SubmitLogin, Tab!SubmitRegister, Tab!SubmitDemo,
     Tab!Request, Tab!store, Tab!clock
<1>2. /\ signups' \subseteq attempts' /\ owns' \in BOOLEAN
      /\ page = "login" => form' \notin signups'
  <2>1. CASE Tab!SubmitLogin
    BY <1>1, <2>1 DEF Tab!TypeOK, Tab!SubmitLogin
  <2>2. CASE Tab!SubmitRegister
    BY <1>1, <2>2 DEF Tab!TypeOK, Tab!SubmitRegister
  <2>3. CASE Tab!SubmitDemo
    BY <1>1, <2>3 DEF Tab!TypeOK, Tab!SubmitDemo
  <2> QED
    BY <2>1, <2>2, <2>3
<1>3. Tab!TypeOK'
  <2>1. attempts' \subseteq 1..issued' /\ soon' \cup rejected' \cup ended' \subseteq 1..issued'
    BY <1>1 DEF Tab!TypeOK
  <2> QED
    BY <1>1, <1>2, <2>1 DEF Tab!TypeOK
<1>4. stored' = IF storage' THEN token' ELSE 0
  BY <1>1
<1>5. Tab!OneIdentity' /\ Tab!EndedStaysEnded'
  BY <1>1 DEF Tab!OneIdentity, Tab!EndedStaysEnded
<1>6. attempts' \cap (ended' \cup {token'}) = {} /\ token' <= issued'
  BY <1>1 DEF Tab!TypeOK
<1> QED
  BY <1>1, <1>2, <1>3, <1>4, <1>5, <1>6

\* What a form displayed on another page was doing does not matter there.
LEMMA TabShow ==
  ASSUME NEW p \in Tab!Pages, TabInvariant, Tab!Show(p),
         attempts' \subseteq attempts, signups' \subseteq signups,
         form = 0 \/ p # page \/ form \in attempts'
  PROVE  /\ form' \in attempts' \cup {0} /\ owns' \in BOOLEAN /\ page' \in Tab!Pages
         /\ form' # 0 => page' = "register" \/ (page' = "login" /\ form' \notin signups')
  BY DEF TabInvariant, Tab!Show, Tab!TypeOK

\* A sign-in succeeds: its session is new, and replaces the one there was.
LEMMA TabSignedIn ==
  ASSUME TabInvariant, NEW n \in attempts, Tab!SignedIn(n)
  PROVE  TabInvariant'
<1> USE DEF TabInvariant
<1>1. /\ n \in 1..issued /\ n \in 1..MaxLogins /\ n \notin ended /\ n # token
      /\ issued \in 0..MaxLogins /\ attempts \subseteq 1..issued
      /\ token \in 0..issued /\ ended \subseteq 1..issued
  BY TabBounds DEF Tab!TypeOK, Tab!EndedStaysEnded
<1>2. /\ attempts' = attempts \ {n} /\ signups' = signups \ {n} /\ issued' = issued
      /\ token' = n /\ auth' = n /\ stored' = (IF storage THEN n ELSE stored)
      /\ ended' = ended \cup ({token} \ {0, n})
      /\ UNCHANGED <<soon, rejected, calls, storage>> /\ Tab!Show("monitors")
  BY DEF Tab!SignedIn, Tab!Reply, Tab!Set, Tab!clock
<1>3. page = "monitors" => form = 0
  OBVIOUS
<1>4. /\ form' \in attempts' \cup {0} /\ owns' \in BOOLEAN /\ page' \in Tab!Pages
      /\ form' # 0 => page' = "register" \/ (page' = "login" /\ form' \notin signups')
  BY <1>2, <1>3, TabShow DEF Tab!Pages
<1>5. ended' \subseteq 1..issued /\ {token', stored', auth'} \subseteq 0..MaxLogins
  BY <1>1, <1>2 DEF Tab!TypeOK
<1>6. Tab!TypeOK'
  BY <1>1, <1>2, <1>4, <1>5 DEF Tab!TypeOK
<1>7. {token', stored'} \cap ended' = {} /\ attempts' \cap (ended' \cup {token'}) = {}
  BY <1>1, <1>2
<1>8. Tab!OneIdentity' /\ Tab!EndedStaysEnded' /\ token' <= issued'
  BY <1>1, <1>2, <1>7 DEF Tab!OneIdentity, Tab!EndedStaysEnded
<1>9. stored' = IF storage' THEN token' ELSE 0
  BY <1>2
<1>10. \A c \in calls' : /\ c.session \in ended' \cup {0, token'}
                         /\ c.result = "401" => c.session \in {0} \cup rejected'
  BY <1>2
<1> QED
  BY <1>4, <1>6, <1>7, <1>8, <1>9, <1>10

\* An attempt that opens no session goes away: it failed, or made an account.
LEMMA TabNoSession ==
  ASSUME TabInvariant, NEW n \in attempts, Tab!SignInFails(n) \/ Tab!Registered(n)
  PROVE  TabInvariant'
<1> USE DEF TabInvariant
<1>1. /\ attempts' = attempts \ {n} /\ signups' = signups \ {n} /\ issued' = issued
      /\ UNCHANGED <<token, stored, ended, auth, soon, rejected, calls, storage>>
  BY DEF Tab!SignInFails, Tab!Registered, Tab!Reply, Tab!store, Tab!clock
<1>2. /\ form' \in attempts' \cup {0} /\ owns' \in BOOLEAN /\ page' \in Tab!Pages
      /\ form' # 0 => page' = "register" \/ (page' = "login" /\ form' \notin signups')
  <2>1. CASE Tab!SignInFails(n)
    BY <1>1, <2>1 DEF Tab!SignInFails, Tab!TypeOK
  <2>2. CASE Tab!Registered(n)
    <3>1. PICK p \in {"login", "monitors"} : p = Tab!Landing("login", auth)
      BY DEF Tab!Landing
    <3>2. Tab!Show(p)
      BY <2>2, <3>1 DEF Tab!Registered, Tab!Show
    <3>3. form = 0 \/ p # page \/ form \in attempts'
      BY <1>1, <2>2, <3>1 DEF Tab!Registered, Tab!TypeOK
    <3> QED
      BY <1>1, <3>2, <3>3, TabShow DEF Tab!Pages
  <2> QED
    BY <2>1, <2>2
<1>3. Tab!TypeOK'
  <2>1. attempts' \subseteq 1..issued' /\ signups' \subseteq attempts'
    BY <1>1 DEF Tab!TypeOK
  <2> QED
    BY <1>1, <1>2, <2>1 DEF Tab!TypeOK
<1>4. stored' = IF storage' THEN token' ELSE 0
  BY <1>1
<1>5. Tab!OneIdentity' /\ Tab!EndedStaysEnded'
  BY <1>1 DEF Tab!OneIdentity, Tab!EndedStaysEnded
<1> QED
  BY <1>1, <1>2, <1>3, <1>4, <1>5

\* A step that may end the session, and shows a page: a logout, the watcher, a
\* 401 and a navigation.  The token store is cleared or left alone.
LEMMA TabMayEnd ==
  ASSUME TabInvariant, Tab!Clear \/ UNCHANGED Tab!store,
         UNCHANGED <<attempts, signups, issued, soon, rejected, storage>>,
         auth' \in {auth, token'},
         UNCHANGED <<page, form, owns>> \/ \E p \in Tab!Pages : Tab!Show(p),
         calls' \subseteq calls
  PROVE  TabInvariant'
<1> USE DEF TabInvariant
<1>1. token \in 0..issued /\ stored \in {0, token} /\ issued \in 0..MaxLogins
  BY TabBounds DEF Tab!TypeOK
<1>2. /\ token' \in {0, token} /\ stored' \in {0, token} /\ token' <= issued'
      /\ ended' \subseteq ended \cup ({token} \ {0})
      /\ token' # 0 => ended' = ended /\ stored' = stored /\ token' = token
      /\ token' = 0 => stored' = 0 \/ UNCHANGED Tab!store
  BY <1>1 DEF Tab!Clear, Tab!store
<1>3. stored' = IF storage' THEN token' ELSE 0
  <2>1. CASE Tab!Clear
    BY <2>1 DEF Tab!Clear
  <2>2. CASE UNCHANGED Tab!store
    BY <2>2 DEF Tab!store
  <2> QED
    BY <2>1, <2>2
<1>4. /\ form' \in attempts' \cup {0} /\ owns' \in BOOLEAN /\ page' \in Tab!Pages
      /\ form' # 0 => page' = "register" \/ (page' = "login" /\ form' \notin signups')
  <2>1. ASSUME NEW p \in Tab!Pages, Tab!Show(p)
        PROVE  /\ form' \in attempts' \cup {0} /\ owns' \in BOOLEAN /\ page' \in Tab!Pages
               /\ form' # 0 => page' = "register" \/ (page' = "login" /\ form' \notin signups')
    BY <2>1, TabShow DEF Tab!TypeOK
  <2>2. CASE UNCHANGED <<page, form, owns>>
    BY <2>2 DEF Tab!TypeOK
  <2> QED
    BY <2>1, <2>2
<1>5. Tab!TypeOK'
  <2>1. {token', stored', auth'} \subseteq 0..MaxLogins
    <3>1. {token, stored, auth, 0} \subseteq 0..MaxLogins
      BY TabBounds DEF Tab!TypeOK
    <3> QED
      BY <1>2, <3>1
  <2>2. ended' \subseteq 1..issued
    BY <1>1, <1>2 DEF Tab!TypeOK
  <2>3. calls' \subseteq Tab!Call /\ Tab!IsFiniteSet(calls')
    BY FS_Subset, TabFinite DEF Tab!TypeOK
  <2> QED
    BY <1>4, <2>1, <2>2, <2>3 DEF Tab!TypeOK
<1>6. Tab!OneIdentity'
  BY <1>2 DEF Tab!OneIdentity
<1>7. Tab!EndedStaysEnded'
  <2>1. CASE token' = 0
    <3>1. stored' = 0 /\ 0 \notin ended'
      BY <1>5, <1>3, <2>1 DEF Tab!TypeOK
    <3> QED
      BY <2>1, <3>1 DEF Tab!EndedStaysEnded
  <2>2. CASE token' # 0
    BY <1>2, <2>2 DEF Tab!EndedStaysEnded
  <2> QED
    BY <2>1, <2>2
<1>8. attempts' \cap (ended' \cup {token'}) = {}
  <2>1. 0 \notin attempts
    BY DEF Tab!TypeOK
  <2> QED
    BY <1>2, <2>1
<1>9. \A c \in calls' : /\ c.session \in ended' \cup {0, token'}
                        /\ c.result = "401" => c.session \in {0} \cup rejected'
  <2>1. token \in ended' \cup {0, token'} /\ ended \subseteq ended'
    BY DEF Tab!Clear, Tab!store
  <2> QED
    BY <2>1
<1> QED
  BY <1>2, <1>3, <1>4, <1>5, <1>6, <1>7, <1>8, <1>9

\* Every step of the session keeps the invariant.
LEMMA TabNext == TabInvariant /\ [Tab!Next]_tabVars => TabInvariant'
<1> SUFFICES ASSUME TabInvariant, [Tab!Next]_tabVars PROVE TabInvariant'
  OBVIOUS
<1> USE DEF Tab!forms, Tab!clock
<1>l. \A p \in Tab!Pages : Tab!Landing(p, auth) \in Tab!Pages /\ Tab!Landing(p, token) \in Tab!Pages
  BY DEF Tab!Landing, Tab!Pages
<1>1. CASE Tab!Logout
  BY <1>1, TabMayEnd DEF Tab!Logout, Tab!Clear, Tab!Pages
<1>2. CASE Tab!Tick
  <2>1. \E p \in Tab!Pages : Tab!Show(p)
    BY <1>2, <1>l DEF Tab!Tick, TabInvariant, Tab!TypeOK, Tab!Pages
  <2> QED
    BY <1>2, <2>1, TabMayEnd DEF Tab!Tick
<1>3. ASSUME NEW p \in Tab!Pages, Tab!Visit(p) PROVE TabInvariant'
  <2>1. PICK q \in Tab!Pages : q = Tab!Landing(p, auth)
    BY <1>l
  <2> QED
    BY <1>3, <2>1, TabMayEnd DEF Tab!Visit
<1>4. ASSUME NEW c \in calls, Tab!Unauthorized(c) PROVE TabInvariant'
  BY <1>4, TabMayEnd DEF Tab!Unauthorized, Tab!UnauthorizedHandler, Tab!Clear, Tab!Pages
<1>5. ASSUME NEW c \in calls, Tab!Answered(c) PROVE TabInvariant'
  BY <1>5, TabMayEnd DEF Tab!Answered, Tab!store
<1>6. CASE Tab!Reload
  <2> USE <1>6 DEF TabInvariant
  <2>1. /\ token' = stored /\ stored' = stored /\ auth' = stored
        /\ ended' = ended \cup ({token} \ {0, stored})
        /\ page' = Tab!Landing(page, stored)
        /\ form' = 0 /\ owns' = FALSE /\ attempts' = {} /\ signups' = {} /\ calls' = {}
        /\ UNCHANGED <<issued, soon, rejected, storage>>
    BY DEF Tab!Reload
  <2>2. page' \in Tab!Pages
    BY <2>1 DEF Tab!TypeOK, Tab!Landing, Tab!Pages
  <2>3. ended' \subseteq 1..issued /\ stored \in {0, token}
    BY <2>1, TabBounds DEF Tab!TypeOK
  <2>4. owns' \in BOOLEAN /\ Tab!IsFiniteSet(calls')
    BY <2>1, FS_EmptySet, TabFinite
  <2>5. Tab!TypeOK'
    BY <2>1, <2>2, <2>3, <2>4 DEF Tab!TypeOK
  <2>6. stored' = (IF storage' THEN token' ELSE 0) /\ token' <= issued'
    BY <2>1, <2>3, TabBounds DEF Tab!TypeOK
  <2>7. Tab!OneIdentity' /\ Tab!EndedStaysEnded'
    BY <2>1, <2>3, <2>5 DEF Tab!OneIdentity, Tab!EndedStaysEnded, Tab!TypeOK
  <2> QED
    BY <2>1, <2>5, <2>6, <2>7
<1>7. ASSUME UNCHANGED <<token, stored, auth, page, form, owns, attempts, signups, issued,
                         ended, storage>>,
             rejected \subseteq rejected', soon' \cup rejected' \subseteq 1..issued,
             calls' \subseteq Tab!Call, Tab!IsFiniteSet(calls'),
             \A c \in calls' : /\ c.session \in ended \cup {0, token}
                               /\ c.result = "401" => c.session \in {0} \cup rejected'
      PROVE  TabInvariant'
  <2>1. Tab!TypeOK'
    BY <1>7 DEF TabInvariant, Tab!TypeOK
  <2>2. stored' = IF storage' THEN token' ELSE 0
    BY <1>7 DEF TabInvariant
  <2> QED
    BY <1>7, <2>1, <2>2 DEF TabInvariant, Tab!OneIdentity, Tab!EndedStaysEnded
<1>8. CASE Tab!Age
  BY <1>7, <1>8 DEF Tab!Age, Tab!store, TabInvariant, Tab!TypeOK
<1>9. CASE Tab!Send
  <2>1. [session |-> token, result |-> "sent"] \in Tab!Call
    BY DEF TabInvariant, Tab!TypeOK, Tab!Call, Tab!Results
  <2>2. Tab!IsFiniteSet(calls')
    BY <1>9, FS_AddElement, TabFinite DEF Tab!Send, TabInvariant, Tab!TypeOK
  <2> QED
    BY <1>7, <1>9, <2>1, <2>2 DEF Tab!Send, Tab!store, TabInvariant, Tab!TypeOK
<1>10. ASSUME NEW c \in calls, Tab!Serve(c) PROVE TabInvariant'
  <2>1. PICK r \in {"failed", IF c.session \in {0} \cup rejected THEN "401" ELSE "ok"} :
          calls' = (calls \ {c}) \cup {[c EXCEPT !.result = r]}
    BY <1>10 DEF Tab!Serve
  <2>2. c \in Tab!Call /\ Tab!IsFiniteSet(calls)
    BY DEF TabInvariant, Tab!TypeOK
  <2>3. [c EXCEPT !.result = r] \in Tab!Call
    BY <2>2 DEF Tab!Call, Tab!Results
  <2>4. r = "401" => c.session \in {0} \cup rejected
    OBVIOUS
  <2>5. [c EXCEPT !.result = r].result = r /\ [c EXCEPT !.result = r].session = c.session
    BY <2>2 DEF Tab!Call
  <2>6. Tab!IsFiniteSet(calls')
    <3>1. IsFiniteSet(calls \ {c})
      BY <2>2, FS_RemoveElement, TabFinite
    <3> QED
      BY <2>1, <3>1, FS_AddElement, TabFinite
  <2>7. UNCHANGED <<token, stored, auth, page, form, owns, attempts, signups, issued,
                    ended, storage, soon, rejected>>
    BY <1>10 DEF Tab!Serve, Tab!store
  <2>8. calls' \subseteq Tab!Call
    BY <2>1, <2>3 DEF TabInvariant, Tab!TypeOK
  <2>9. \A d \in calls' : /\ d.session \in ended \cup {0, token}
                          /\ d.result = "401" => d.session \in {0} \cup rejected'
    BY <2>1, <2>4, <2>5, <2>7 DEF TabInvariant
  <2> QED
    BY <1>7, <2>6, <2>7, <2>8, <2>9 DEF TabInvariant, Tab!TypeOK
<1>11. CASE UNCHANGED tabVars
  BY <1>7, <1>11 DEF tabVars, TabInvariant, Tab!TypeOK
<1> QED
  BY <1>1, <1>2, <1>3, <1>4, <1>5, <1>6, <1>8, <1>9, <1>10, <1>11,
     TabSubmit, TabSignedIn, TabNoSession DEF Tab!Next

LEMMA StepOfTab == [Next]_vars => [Tab!Next]_tabVars
<1> USE DEF vars
<1>1. ASSUME running = "stay" /\ Stay /\ UNCHANGED <<tabVars, formVars>>
      PROVE  UNCHANGED tabVars
  BY <1>1
<1> QED
  BY <1>1 DEF Next

\* The header never names another session than the one whose token the requests
\* carry, and a session that has ended is not brought back: for any number of
\* sign-ins, in whatever order answers, ticks, navigations and reloads arrive
\* (AuthProvider, tokenStore, apiFetch).
THEOREM SessionCorrect == Spec => []SessionSound
<1>1. Init => TabInvariant
  BY TabInit DEF Init
<1>2. TabInvariant /\ [Next]_vars => TabInvariant'
  BY TabNext, StepOfTab
<1>3. TabInvariant => SessionSound
  BY DEF TabInvariant, SessionSound
<1> QED
  BY <1>1, <1>2, <1>3, PTL DEF Spec

\* A session ends by a logout, near its expiry, because the API rejects it, by a
\* reload without storage, or by the late 401 to a request that carried no token or
\* that of a session which is over and rejected; no other answer ends one (apiFetch,
\* the expiry watcher of AuthProvider).
THEOREM EndingCorrect == Spec => EndsForAReason
<1>1. ASSUME TabInvariant, [Tab!Next]_tabVars PROVE Tab!EndingHasReason
  <2> SUFFICES ASSUME token # 0, token' = 0 PROVE Tab!EndingHasReason
    BY DEF Tab!EndingHasReason
  <2> USE DEF Tab!EndingHasReason
  <2>1. CASE Tab!Logout
    BY <2>1
  <2>2. CASE Tab!Tick
    BY <2>2 DEF Tab!Tick, Tab!store
  <2>3. CASE Tab!Reload
    BY <1>1, <2>3 DEF Tab!Reload, TabInvariant
  <2>4. ASSUME NEW c \in calls, Tab!Unauthorized(c) PROVE Tab!EndingHasReason
    <3>1. /\ c \in calls \ calls' /\ c.result = "401"
          /\ c.session \in ended \cup {0, token} /\ c.session \in {0} \cup rejected
      BY <1>1, <2>4 DEF Tab!Unauthorized, TabInvariant
    <3> QED
      BY <3>1
  <2>5. ASSUME NEW n \in attempts, Tab!SignedIn(n) PROVE FALSE
    BY <1>1, <2>5, TabBounds DEF Tab!SignedIn, Tab!Set, TabInvariant, Tab!TypeOK
  <2>6. ASSUME UNCHANGED token PROVE FALSE
    BY <2>6
  <2> QED
    BY <1>1, <2>1, <2>2, <2>3, <2>4, <2>5, <2>6
    DEF Tab!Next, Tab!SubmitLogin, Tab!SubmitRegister, Tab!SubmitDemo, Tab!Request, Tab!Age,
        Tab!Send, Tab!SignInFails, Tab!Registered, Tab!Visit, Tab!Serve, Tab!Answered,
        Tab!store, tabVars
<1>2. Init => TabInvariant
  BY TabInit DEF Init
<1>3. TabInvariant /\ [Next]_vars => TabInvariant'
  BY TabNext, StepOfTab
<1>4. TabInvariant /\ [Next]_vars => [Tab!EndingHasReason]_vars
  BY <1>1, StepOfTab
<1> QED
  BY <1>2, <1>3, <1>4, PTL DEF Spec, EndsForAReason

-----------------------------------------------------------------------------
(* The monitors page *)

\* The types without the count of busy buttons, which follows from OneBusyButton.
ListTypes ==
    /\ exists \subseteq used /\ used \subseteq Monitors
    /\ rows \subseteq used /\ (~loaded => rows = {})
    /\ fetch \in [stage : {"none", "asked", "served"}, answer : SUBSET used]
    /\ {shown, loaded, invalid, formOpen, createPending, submissionInFlight}
          \subseteq BOOLEAN
    /\ confirming \subseteq rows
    /\ creates \subseteq List!Create /\ deletes \subseteq List!Delete

\* A row has at most one deletion in flight that will call its button back.
OneBusyButton ==
    \A d, e \in deletes : d.id = e.id /\ d.mounted /\ e.mounted => d = e

ListInvariant == ListTypes /\ OneBusyButton /\ List!NoStuckPanel

\* On a page that stays, a reported deletion is of a monitor that is gone for good;
\* a fetch that still lists it was cancelled when the deletion was reported, and
\* the list is taken to be stale until it has been fetched again.
StayInvariant ==
    /\ shown
    /\ gone \subseteq used \ exists
    /\ \A d \in deletes : /\ d.id \in used
                          /\ d.stage \in {"ok", "missing"} => d.id \notin exists
    /\ deletes # {} => loaded
    /\ fetch.stage = "served" => fetch.answer \cap gone = {}
    /\ ~invalid => rows \cap gone = {}

\* The cardinality of the page's model is that of the library.
LEMMA ListCardinality == \A S : List!Cardinality(S) = Cardinality(S)
  BY DEF List!Cardinality, Cardinality

LEMMA AtMostOne ==
  ASSUME NEW S, \A x, y \in S : x = y
  PROVE  Cardinality(S) <= 1
<1>1. CASE S = {}
  BY <1>1, FS_EmptySet
<1>2. CASE S # {}
  <2>1. PICK x \in S : TRUE
    BY <1>2
  <2>2. S = {x}
    BY <2>1
  <2> QED
    BY <2>2, FS_Singleton
<1> QED
  BY <1>1, <1>2

LEMMA ListTyped == ListInvariant => List!TypeOK
<1> SUFFICES ASSUME ListInvariant, NEW m \in Monitors
             PROVE  List!Cardinality({d \in deletes : d.id = m /\ d.mounted}) <= 1
  BY DEF ListInvariant, ListTypes, List!TypeOK
<1> DEFINE S == {d \in deletes : d.id = m /\ d.mounted}
<1>1. \A x, y \in S : x = y
  BY DEF ListInvariant, OneBusyButton
<1> HIDE DEF S
<1>2. Cardinality(S) <= 1
  BY <1>1, AtMostOne
<1> QED
  BY <1>2, ListCardinality DEF S

\* Mutations that lose the component that asked keep all but that.
LEMMA UnmountedTypes ==
  /\ \A C \in SUBSET List!Create : /\ List!Unmounted(C) \subseteq List!Create
                                   /\ \A c \in List!Unmounted(C) : ~c.mounted
  /\ \A D \in SUBSET List!Delete :
       /\ List!Unmounted(D) \subseteq List!Delete
       /\ \A e \in List!Unmounted(D) :
            /\ ~e.mounted
            /\ \E d \in D : e.id = d.id /\ e.stage = d.stage
  BY DEF List!Unmounted, List!Create, List!Delete

LEMMA ListInit == List!Init => ListInvariant /\ StayInvariant
<1> SUFFICES ASSUME List!Init PROVE ListInvariant /\ StayInvariant
  OBVIOUS
<1>1. Existing \subseteq Monitors
  BY PagesAssumption DEF List!PageAssumption
<1>2. {shown, loaded, invalid, formOpen, createPending, submissionInFlight} \subseteq BOOLEAN
  BY Zenon DEF List!Init
<1>3. fetch \in [stage : {"none", "asked", "served"}, answer : SUBSET used]
  BY DEF List!Init, List!Asked
<1>4. ListTypes
  BY <1>1, <1>2, <1>3 DEF ListTypes, List!Init
<1>5. OneBusyButton /\ List!NoStuckPanel
  BY DEF OneBusyButton, List!NoStuckPanel, List!Init
<1>6. StayInvariant
  BY DEF StayInvariant, List!Init, List!Asked
<1> QED
  BY <1>4, <1>5, <1>6 DEF ListInvariant

\* What an invalidation leaves of the list.
LEMMA InvalidateTypes ==
  ASSUME ListTypes, List!Invalidate
  PROVE  /\ rows' = rows /\ loaded' = loaded /\ invalid' = TRUE
         /\ fetch' \in {fetch, List!Asked}
         /\ shown /\ loaded => fetch' = List!Asked
         /\ fetch' \in [stage : {"none", "asked", "served"}, answer : SUBSET used]
  BY DEF ListTypes, List!Invalidate, List!Asked

\* Every step of the page keeps the invariant.
LEMMA ListNext == ListInvariant /\ [List!Next]_pageVars => ListInvariant'
<1> SUFFICES ASSUME ListInvariant, [List!Next]_pageVars PROVE ListInvariant'
  OBVIOUS
<1> USE DEF ListInvariant, ListTypes, OneBusyButton, List!NoStuckPanel, List!server, List!list,
            List!panel
<1>f. ASSUME fetch' \in [stage : {"none", "asked", "served"}, answer : SUBSET used],
             UNCHANGED <<exists, used, shown, loaded, rows, invalid, formOpen, createPending,
                         submissionInFlight, confirming, creates, deletes>>
      PROVE  ListInvariant'
  BY <1>f
<1>1. CASE List!Refetch
  BY <1>1, <1>f DEF List!Refetch, List!Asked
<1>2. CASE List!Serve
  BY <1>2, <1>f DEF List!Serve
<1>3. CASE List!ListFails
  BY <1>3, <1>f DEF List!ListFails, List!Asked, List!NoFetch
<1>4. CASE List!ListAnswered
  <2>1. /\ rows' = fetch.answer /\ fetch.answer \subseteq used /\ loaded' = TRUE
        /\ invalid' = FALSE /\ fetch' = List!NoFetch /\ confirming' \subseteq rows'
        /\ UNCHANGED <<exists, used, shown, formOpen, createPending, submissionInFlight,
                       creates>>
    BY <1>4 DEF List!ListAnswered
  <2> DEFINE kept == {d \in deletes : d.id \in rows'}
             left == {d \in deletes : d.id \notin rows'}
  <2>2. deletes' = kept \cup List!Unmounted(left)
    BY <1>4 DEF List!ListAnswered
  <2>3. kept \subseteq deletes /\ left \in SUBSET List!Delete /\ kept \subseteq List!Delete
    OBVIOUS
  <2> HIDE DEF kept, left
  <2>4. deletes' \subseteq List!Delete /\ \A d \in deletes' : d.mounted => d \in deletes
    BY <2>2, <2>3, UnmountedTypes
  <2>5. fetch' \in [stage : {"none", "asked", "served"}, answer : SUBSET used']
    BY <2>1 DEF List!NoFetch
  <2>6. OneBusyButton'
    BY <2>4
  <2>7. ListTypes'
    BY <2>1, <2>4, <2>5
  <2>8. List!NoStuckPanel'
    BY <2>1
  <2> QED
    BY <2>6, <2>7, <2>8
<1>5. CASE List!toggleForm
  <2>1. /\ shown /\ ~createPending /\ formOpen' \in BOOLEAN /\ submissionInFlight' = FALSE
        /\ creates' = List!Unmounted(creates)
        /\ UNCHANGED <<exists, used, shown, loaded, rows, invalid, fetch, createPending,
                       confirming, deletes>>
    BY <1>5 DEF List!toggleForm
  <2>2. creates' \subseteq List!Create /\ createPending' = FALSE
    BY <2>1, UnmountedTypes
  <2> QED
    BY <2>1, <2>2
<1>6. CASE List!cancelForm
  <2>1. /\ ~submissionInFlight /\ formOpen' = FALSE /\ creates' = List!Unmounted(creates)
        /\ UNCHANGED <<exists, used, shown, loaded, rows, invalid, fetch, createPending,
                       submissionInFlight, confirming, deletes>>
    BY <1>6 DEF List!cancelForm
  <2>2. creates' \subseteq List!Create /\ ~createPending'
    BY <2>1, UnmountedTypes
  <2> QED
    BY <2>1, <2>2
<1>7. CASE List!onSubmit
  <2>1. /\ formOpen /\ submissionInFlight' = TRUE /\ createPending' = TRUE
        /\ creates' = creates \cup {[stage |-> "sent", id |-> {}, mounted |-> TRUE]}
        /\ UNCHANGED <<exists, used, shown, loaded, rows, invalid, fetch, formOpen,
                       confirming, deletes>>
    BY <1>7 DEF List!onSubmit
  <2> DEFINE c == [stage |-> "sent", id |-> {}, mounted |-> TRUE]
  <2>2. c \in List!Create /\ c.mounted
    BY DEF List!Create
  <2> HIDE DEF c
  <2>3. creates' \subseteq List!Create /\ \E b \in creates' : b.mounted
    BY <2>1, <2>2 DEF c
  <2> QED
    BY <2>1, <2>3
<1>8. ASSUME NEW c \in creates, List!CreateServed(c) PROVE ListInvariant'
  <2>0. c \in List!Create
    OBVIOUS
  <2>1. PICK d \in List!Create : creates' = (creates \ {c}) \cup {d} /\ d.mounted = c.mounted
    <3>1. \A m \in Monitors : [c EXCEPT !.stage = "done", !.id = {m}] \in List!Create
      BY <2>0 DEF List!Create
    <3>2. [c EXCEPT !.stage = "refused"] \in List!Create
      BY <2>0 DEF List!Create
    <3>3. \A m \in Monitors : [c EXCEPT !.stage = "done", !.id = {m}].mounted = c.mounted
      BY <2>0 DEF List!Create
    <3>4. [c EXCEPT !.stage = "refused"].mounted = c.mounted
      BY <2>0 DEF List!Create
    <3> QED
      BY <1>8, <3>1, <3>2, <3>3, <3>4 DEF List!CreateServed
  <2>2. /\ exists' \subseteq used' /\ used \subseteq used' /\ used' \subseteq Monitors
        /\ UNCHANGED <<shown, loaded, rows, invalid, fetch, formOpen, createPending,
                       submissionInFlight, confirming, deletes>>
    BY <1>8 DEF List!CreateServed
  <2>3. fetch' \in [stage : {"none", "asked", "served"}, answer : SUBSET used']
    BY <2>2
  <2>4. ListTypes'
    BY <2>1, <2>2, <2>3
  <2>5. List!NoStuckPanel'
    BY <2>1, <2>2
  <2> QED
    BY <2>2, <2>4, <2>5
<1>9. ASSUME NEW c \in creates,
             creates' = creates \ {c},
             formOpen' = (formOpen /\ ~c.mounted) \/ UNCHANGED formOpen,
             submissionInFlight' = (submissionInFlight /\ ~c.mounted),
             createPending' = (createPending /\ ~c.mounted),
             rows' = rows, loaded' = loaded, invalid' \in BOOLEAN,
             fetch' \in [stage : {"none", "asked", "served"}, answer : SUBSET used],
             UNCHANGED <<exists, used, shown, confirming, deletes>>
      PROVE  ListInvariant'
  <2>1. CASE c.mounted
    <3>1. createPending' = FALSE /\ submissionInFlight' = FALSE
      BY <1>9, <2>1
    <3>2. formOpen' \in BOOLEAN
      BY <1>9, <2>1
    <3> QED
      BY <1>9, <3>1, <3>2
  <2>2. CASE ~c.mounted
    <3>1. createPending' = createPending /\ submissionInFlight' = submissionInFlight
      BY <1>9, <2>2
    <3>2. formOpen' = formOpen
      BY <1>9, <2>2
    <3> QED
      BY <1>9, <2>2, <3>1, <3>2
  <2> QED
    BY <2>1, <2>2
<1>10. ASSUME NEW c \in creates, List!CreateSucceeds(c) PROVE ListInvariant'
  <2>1. List!Invalidate
    BY <1>10 DEF List!CreateSucceeds
  <2> QED
    BY <1>9, <1>10, <2>1, InvalidateTypes DEF List!CreateSucceeds
<1>11. ASSUME NEW c \in creates, List!CreateFails(c) PROVE ListInvariant'
  BY <1>9, <1>11 DEF List!CreateFails
<1>12. ASSUME NEW m \in Monitors, List!AskToConfirm(m) \/ List!cancel(m) PROVE ListInvariant'
  BY <1>12 DEF List!AskToConfirm, List!cancel
<1>13. ASSUME NEW m \in Monitors, List!confirm(m) PROVE ListInvariant'
  <2> DEFINE d == [stage |-> "sent", id |-> m, mounted |-> TRUE]
  <2>1. /\ ~List!Busy(m) /\ deletes' = deletes \cup {d}
        /\ UNCHANGED <<exists, used, shown, loaded, rows, invalid, fetch, formOpen,
                       createPending, submissionInFlight, confirming, creates>>
    BY <1>13 DEF List!confirm
  <2>2. d \in List!Delete /\ d.id = m
    BY DEF List!Delete
  <2> HIDE DEF d
  <2>3. OneBusyButton'
    BY <2>1, <2>2 DEF List!Busy
  <2> QED
    BY <2>1, <2>2, <2>3
<1>14. ASSUME NEW d \in deletes, List!DeleteServed(d) PROVE ListInvariant'
  <2>0. d \in List!Delete
    OBVIOUS
  <2>1. PICK s \in {"ok", "missing", "failed"} :
          deletes' = (deletes \ {d}) \cup {[d EXCEPT !.stage = s]}
    BY <1>14 DEF List!DeleteServed
  <2>2. PICK e \in List!Delete : e = [d EXCEPT !.stage = s]
    BY <2>0 DEF List!Delete
  <2>3. e.id = d.id /\ e.mounted = d.mounted /\ deletes' = (deletes \ {d}) \cup {e}
    BY <2>0, <2>1, <2>2 DEF List!Delete
  <2>4. /\ exists' \subseteq used
        /\ UNCHANGED <<used, shown, loaded, rows, invalid, fetch, formOpen,
                       createPending, submissionInFlight, confirming, creates>>
    BY <1>14 DEF List!DeleteServed
  <2>5. OneBusyButton'
    BY <2>3
  <2> QED
    BY <2>3, <2>4, <2>5
<1>15. ASSUME NEW d \in deletes, List!DeleteSettles(d) PROVE ListInvariant'
  <2>1. List!Invalidate /\ deletes' = deletes \ {d} /\ confirming' \subseteq confirming
        /\ UNCHANGED <<exists, used, shown, formOpen, createPending, submissionInFlight,
                       creates>>
    BY <1>15 DEF List!DeleteSettles
  <2> QED
    BY <2>1, InvalidateTypes
<1>16. CASE List!Leave
  <2>1. /\ shown' = FALSE /\ formOpen' = FALSE /\ createPending' = FALSE
        /\ submissionInFlight' = FALSE /\ confirming' = {}
        /\ creates' = List!Unmounted(creates) /\ deletes' = List!Unmounted(deletes)
        /\ UNCHANGED <<exists, used, loaded, rows, invalid, fetch>>
    BY <1>16 DEF List!Leave
  <2>2. creates' \subseteq List!Create /\ deletes' \subseteq List!Delete
        /\ \A d \in deletes' : ~d.mounted
    BY <2>1, UnmountedTypes
  <2> QED
    BY <2>1, <2>2
<1>17. CASE List!Enter
  BY <1>17 DEF List!Enter, List!Asked
<1>18. ASSUME NEW m \in Monitors, List!Elsewhere(m) PROVE ListInvariant'
  BY <1>18 DEF List!Elsewhere
<1>19. CASE UNCHANGED pageVars
  BY <1>f, <1>19 DEF pageVars
<1> QED
  BY <1>1, <1>2, <1>3, <1>4, <1>5, <1>6, <1>7, <1>8, <1>10, <1>11, <1>12, <1>13, <1>14,
     <1>15, <1>16, <1>17, <1>18, <1>19 DEF List!Next

\* Every step of a page that stays keeps what holds of reported deletions.
LEMMA StayNext ==
  ASSUME ListInvariant, StayInvariant, [Stay]_pageVars
  PROVE  StayInvariant'
<1> USE DEF ListInvariant, ListTypes, StayInvariant, List!server, List!list, List!panel
<1>f. ASSUME fetch' \in {fetch, List!Asked, List!NoFetch} \/ UNCHANGED fetch,
             UNCHANGED <<exists, used, shown, loaded, rows, invalid, deletes, gone>>
      PROVE  StayInvariant'
  BY <1>f DEF List!Asked, List!NoFetch
<1>1. CASE List!Refetch \/ List!ListFails \/ List!toggleForm \/ List!cancelForm \/ List!onSubmit
  BY <1>1, <1>f DEF List!Refetch, List!ListFails, List!toggleForm, List!cancelForm, List!onSubmit
<1>2. CASE List!Serve
  BY <1>2 DEF List!Serve
<1>3. CASE List!ListAnswered
  <2>1. /\ rows' = fetch.answer /\ fetch.stage = "served" /\ fetch' = List!NoFetch
        /\ UNCHANGED <<exists, used, shown, gone>> /\ loaded'
    BY <1>3 DEF List!ListAnswered
  <2> DEFINE left == {d \in deletes : d.id \notin rows'}
  <2>2. /\ \A d \in deletes' : d \in deletes \/ d \in List!Unmounted(left)
        /\ left \in SUBSET List!Delete /\ left \subseteq deletes
    BY <1>3 DEF List!ListAnswered
  <2> HIDE DEF left
  <2>3. \A d \in deletes' : \E e \in deletes : d.id = e.id /\ d.stage = e.stage
    BY <2>2, UnmountedTypes
  <2> QED
    BY <2>1, <2>3 DEF List!NoFetch
<1>4. ASSUME NEW c \in creates, List!CreateServed(c) PROVE StayInvariant'
  <2>1. /\ used \subseteq used' /\ \A m \in used : m \in exists' => m \in exists
        /\ UNCHANGED <<shown, loaded, rows, invalid, fetch, deletes, gone>>
    BY <1>4 DEF List!CreateServed
  <2>2. gone' \subseteq used' \ exists'
    BY <2>1
  <2>3. \A d \in deletes' : d.id \in used' /\ (d.stage \in {"ok", "missing"} => d.id \notin exists')
    BY <2>1
  <2> QED
    BY <2>1, <2>2, <2>3
<1>5. ASSUME NEW c \in creates, List!CreateSucceeds(c) \/ List!CreateFails(c)
      PROVE  StayInvariant'
  <2>1. CASE List!CreateSucceeds(c)
    <3>1. List!Invalidate /\ UNCHANGED <<exists, used, shown, deletes, gone>>
      BY <2>1 DEF List!CreateSucceeds
    <3>2. /\ loaded' = loaded /\ invalid' = TRUE /\ rows' = rows
          /\ fetch' \in {fetch, List!Asked}
      BY <3>1, InvalidateTypes
    <3>3. fetch'.stage = "served" => fetch'.answer \cap gone' = {}
      BY <3>1, <3>2 DEF List!Asked
    <3>4. gone' \subseteq used' \ exists' /\ (deletes' # {} => loaded') /\ shown'
      BY <3>1, <3>2
    <3>5. \A d \in deletes' : d.id \in used' /\ (d.stage \in {"ok", "missing"} => d.id \notin exists')
      BY <3>1
    <3>6. ~invalid' => rows' \cap gone' = {}
      BY <3>2
    <3> QED
      BY <3>3, <3>4, <3>5, <3>6
  <2>2. CASE List!CreateFails(c)
    BY <2>2, <1>f DEF List!CreateFails
  <2> QED
    BY <1>5, <2>1, <2>2
<1>6. ASSUME NEW m \in Monitors, List!AskToConfirm(m) \/ List!cancel(m) PROVE StayInvariant'
  BY <1>6, <1>f DEF List!AskToConfirm, List!cancel
<1>7. ASSUME NEW m \in Monitors, List!confirm(m) PROVE StayInvariant'
  <2>1. loaded /\ m \in used
    BY <1>7 DEF List!confirm
  <2>2. /\ deletes' = deletes \cup {[stage |-> "sent", id |-> m, mounted |-> TRUE]}
        /\ UNCHANGED <<exists, used, shown, loaded, rows, invalid, fetch, gone>>
    BY <1>7 DEF List!confirm
  <2> QED
    BY <2>1, <2>2
<1>8. ASSUME NEW m \in Monitors, List!Elsewhere(m) PROVE StayInvariant'
  BY <1>8 DEF List!Elsewhere
<1>9. ASSUME NEW d \in deletes, List!DeleteServed(d) PROVE StayInvariant'
  <2>1. /\ exists' \subseteq exists
        /\ UNCHANGED <<used, shown, loaded, rows, invalid, fetch, gone>>
    BY <1>9 DEF List!DeleteServed
  <2>2. PICK s \in {"ok", "missing", "failed"} :
          /\ deletes' = (deletes \ {d}) \cup {[d EXCEPT !.stage = s]}
          /\ s # "failed" => exists' = exists \ {d.id}
    BY <1>9 DEF List!DeleteServed
  <2>3. PICK e \in List!Delete : e = [d EXCEPT !.stage = s]
    BY DEF List!Delete
  <2>4. e.id = d.id /\ e.stage = s /\ deletes' = (deletes \ {d}) \cup {e}
    BY <2>2, <2>3 DEF List!Delete
  <2> QED
    BY <2>1, <2>2, <2>4
<1>10. ASSUME NEW d \in deletes, List!DeleteSettles(d) PROVE StayInvariant'
  <2>1. /\ List!Invalidate /\ deletes' = deletes \ {d} /\ d.stage # "sent"
        /\ gone' = (IF d.stage = "failed" THEN gone ELSE gone \cup {d.id})
        /\ UNCHANGED <<exists, used, shown>>
    BY <1>10 DEF List!DeleteSettles
  <2>2. /\ loaded' = loaded /\ loaded /\ invalid' = TRUE /\ fetch' = List!Asked
    BY <2>1, InvalidateTypes
  <2>3. gone' \subseteq used \ exists
    BY <2>1 DEF List!Delete
  <2> QED
    BY <2>1, <2>2, <2>3 DEF List!Asked
<1>11. ~(Stay /\ List!Leave) /\ ~List!Enter
  BY DEF Stay, List!Leave, List!Enter
<1>12. CASE UNCHANGED pageVars
  BY <1>12, <1>f DEF pageVars
<1> QED
  BY <1>1, <1>2, <1>3, <1>4, <1>5, <1>6, <1>7, <1>8, <1>9, <1>10, <1>11, <1>12
  DEF Stay, List!Next

LEMMA StepOfList ==
  /\ [Next]_vars => [List!Next]_pageVars
  /\ [Next]_vars /\ running = "stay" => [Stay]_pageVars
  BY DEF Next, vars, Stay, Nav

\* A fresh list on a page that stays has no row whose deletion was reported before,
\* and no order of toggles, answers and visits leaves the panel stuck: for any
\* number of monitors and of mutations in flight (DeleteButton, invalidateQueries,
\* MonitorsPage).
THEOREM ListCorrect == Spec => []ListTruthful
<1> DEFINE Inv == ListInvariant /\ (running = "stay" => StayInvariant)
<1>1. Init => Inv
  BY ListInit DEF Init
<1>2. Inv /\ [Next]_vars => Inv'
  <2> SUFFICES ASSUME Inv, [Next]_vars PROVE Inv'
    OBVIOUS
  <2>1. ListInvariant'
    BY ListNext, StepOfList
  <2>2. running' = running
    BY DEF Next, vars
  <2> QED
    BY <2>1, <2>2, StayNext, StepOfList
<1>3. Inv => ListTruthful
  BY ListTyped DEF ListTruthful, ListInvariant, StayInvariant, List!NoGhostRow
<1> QED
  BY <1>1, <1>2, <1>3, PTL DEF Spec

-----------------------------------------------------------------------------
(* The form that creates a monitor *)

\* A refusal in flight carries the API's objections to the values that were sent.
FormInvariant ==
    /\ Form!TypeOK /\ Form!InputKept
    /\ submission.stage = "refused" => submission.detail = Form!Objections(submission.values)

\* The telling words of the three texts of the DTO mark the field each is about.
LEMMA TextMarks ==
  ASSUME NEW v, Form!CreateMonitorDto(v) # {}
  PROVE  Form!normalizeDetail(Form!Objections(v)) = Form!CreateMonitorDto(v)
<1>1. PICK T : /\ T = {Form!Text[f] : f \in Form!CreateMonitorDto(v)}
               /\ Form!Objections(v) = [list |-> TRUE, texts |-> T]
  BY DEF Form!Objections
<1>2. Form!CreateMonitorDto(v) \subseteq Form!Fields
  BY DEF Form!CreateMonitorDto
<1>3. \A f, g \in Form!Fields : f \in Form!Text[g] <=> f = g
  BY DEF Form!Fields, Form!Text
<1>4. Form!normalizeDetail(Form!Objections(v))
        = {f \in Form!Fields : \E text \in T : f \in text}
  BY <1>1 DEF Form!normalizeDetail
<1>5. {f \in Form!Fields : \E text \in T : f \in text} = Form!CreateMonitorDto(v)
  BY <1>1, <1>2, <1>3
<1> QED
  BY <1>4, <1>5

\* Only the service objects with a text that is not in a list.
LEMMA NoListNoMarks ==
  ASSUME NEW v, Form!Objections(v).list = TRUE
  PROVE  Form!CreateMonitorDto(v) # {}
  BY DEF Form!Objections, Form!NoDetail

LEMMA ObjectionsAreDetails == \A v : Form!Objections(v) \in Form!Details
<1> SUFFICES ASSUME NEW v PROVE Form!Objections(v) \in Form!Details
  OBVIOUS
<1>1. Form!CreateMonitorDto(v) \subseteq Form!Fields
  BY DEF Form!CreateMonitorDto
<1>2. {Form!Text[f] : f \in Form!CreateMonitorDto(v)}
        \subseteq {Form!Text[f] : f \in Form!Fields} \cup {Form!TextOfService}
  BY <1>1
<1> QED
  BY <1>2 DEF Form!Objections, Form!Details, Form!NoDetail

LEMMA FormInit == Form!Init => FormInvariant
<1> SUFFICES ASSUME Form!Init PROVE FormInvariant
  OBVIOUS
<1>1. Form!defaultValues \in Form!Values
  BY PagesAssumption DEF Form!FormAssumption, Form!defaultValues, Form!Values
<1>2. Form!NoDetail \in Form!Details
  BY DEF Form!NoDetail, Form!Details
<1>3. open \in BOOLEAN /\ isSubmitted \in BOOLEAN
  BY DEF Form!Init
<1>4. errors \in [Form!Fields \cup {"root"} -> {"none", "schema", "api"}]
  BY DEF Form!Init, Form!NoErrors
<1>5. submission \in Form!Submissions /\ submission.stage = "none"
  BY <1>1, <1>2 DEF Form!Init, Form!NoSubmission, Form!Submissions, Form!Stages
<1> QED
  BY <1>1, <1>3, <1>4, <1>5 DEF Form!Init, FormInvariant, Form!TypeOK, Form!InputKept

\* Every step of the form keeps the invariant.
LEMMA FormNext == FormInvariant /\ [Form!Next]_formVars => FormInvariant'
<1> SUFFICES ASSUME FormInvariant, [Form!Next]_formVars PROVE FormInvariant'
  OBVIOUS
<1> USE DEF FormInvariant, Form!TypeOK, Form!InputKept
<1>d. Form!defaultValues \in Form!Values /\ Form!NoDetail \in Form!Details
  BY PagesAssumption
  DEF Form!FormAssumption, Form!defaultValues, Form!Values, Form!NoDetail, Form!Details
<1>n. Form!NoSubmission \in Form!Submissions /\ Form!NoSubmission.stage = "none"
  BY <1>d DEF Form!NoSubmission, Form!Submissions, Form!Stages
<1>f. ASSUME Form!Fresh
      PROVE  /\ values' = typed' /\ values' \in Form!Values /\ isSubmitted' \in BOOLEAN
             /\ errors' \in [Form!Fields \cup {"root"} -> {"none", "schema", "api"}]
  BY <1>f, <1>d DEF Form!Fresh, Form!NoErrors
<1>1. ASSUME NEW f \in Form!Fields, NEW x \in {v[f] : v \in Form!Values}, Form!Type(f, x)
      PROVE  FormInvariant'
  <2>1. /\ values' = [values EXCEPT ![f] = x] /\ typed' = [typed EXCEPT ![f] = x]
        /\ open /\ UNCHANGED <<open, isSubmitted, submission>>
    BY <1>1 DEF Form!Type
  <2>2. values' \in Form!Values /\ typed' = values'
    <3>1. PICK v \in Form!Values : x = v[f]
      OBVIOUS
    <3> QED
      BY <2>1, <3>1 DEF Form!Values, Form!Fields
  <2>3. errors' \in [Form!Fields \cup {"root"} -> {"none", "schema", "api"}]
    BY <1>1 DEF Form!Type
  <2> QED
    BY <2>1, <2>2, <2>3
<1>2. CASE Form!onSubmit
  <2>1. /\ submission' \in Form!Submissions /\ submission'.stage \in {"none", "sent"}
        /\ submission'.stage # "none" => Form!createSchema(submission'.values) = {}
    BY <1>2, <1>d DEF Form!onSubmit, Form!Submissions, Form!Stages
  <2>2. errors' \in [Form!Fields \cup {"root"} -> {"none", "schema", "api"}]
    BY <1>2 DEF Form!onSubmit
  <2>3. isSubmitted' = TRUE /\ UNCHANGED <<open, values, typed>>
    BY <1>2 DEF Form!onSubmit
  <2>4. isSubmitted' \in BOOLEAN /\ Form!InputKept'
    BY <2>3
  <2> QED
    BY <2>1, <2>2, <2>3, <2>4
<1>3. CASE Form!Serve
  <2>1. /\ submission'.values = submission.values
        /\ submission' \in Form!Submissions
        /\ submission'.stage = "refused" => submission'.detail = Form!Objections(submission.values)
    <3>1. CASE submission' = [submission EXCEPT !.stage = "created"]
      BY <3>1 DEF Form!Submissions, Form!Stages
    <3>2. CASE submission' = [submission EXCEPT !.stage = "failed"]
      BY <3>2 DEF Form!Submissions, Form!Stages
    <3>3. CASE submission' = [submission EXCEPT !.stage = "refused",
                                                !.detail = Form!Objections(submission.values)]
      <4>1. PICK d \in Form!Details : d = Form!Objections(submission.values)
        BY ObjectionsAreDetails
      <4> QED
        BY <3>3, <4>1 DEF Form!Submissions, Form!Stages
    <3> QED
      BY <1>3, <3>1, <3>2, <3>3 DEF Form!Serve
  <2>2. submission.stage # "none" /\ UNCHANGED <<open, values, typed, errors, isSubmitted>>
    BY <1>3 DEF Form!Serve
  <2> QED
    BY <2>1, <2>2
<1>4. CASE Form!Created \/ Form!cancel \/ Form!Open
  <2>1. Form!Fresh /\ open' \in BOOLEAN /\ submission' \in {submission, Form!NoSubmission}
    BY <1>4 DEF Form!Created, Form!cancel, Form!Open
  <2> QED
    BY <2>1, <1>f, <1>n
<1>5. CASE Form!onError
  <2>1. submission' = Form!NoSubmission /\ UNCHANGED <<open, values, typed, isSubmitted>>
    BY <1>5 DEF Form!onError
  <2>2. errors' \in [Form!Fields \cup {"root"} -> {"none", "schema", "api"}]
    BY <1>5 DEF Form!onError
  <2> QED
    BY <2>1, <2>2, <1>n
<1>6. CASE UNCHANGED formVars
  BY <1>6 DEF formVars
<1> QED
  BY <1>1, <1>2, <1>3, <1>4, <1>5, <1>6 DEF Form!Next

\* Only onError takes a refusal away.
LEMMA FormMarks == FormInvariant /\ [Form!Next]_formVars => Form!MarksExact
<1> SUFFICES ASSUME FormInvariant, [Form!Next]_formVars,
                    submission.stage = "refused", submission' = Form!NoSubmission,
                    submission.detail.list,
                    NEW f \in Form!Fields
             PROVE  errors'[f] = IF f \in Form!CreateMonitorDto(submission.values) THEN "api"
                                 ELSE errors[f]
  BY DEF Form!MarksExact
<1>1. Form!NoSubmission.stage = "none"
  BY DEF Form!NoSubmission
<1>2. Form!onError
  BY <1>1 DEF Form!Next, Form!Type, Form!onSubmit, Form!Serve, Form!Created, Form!cancel,
     Form!Open, formVars
<1>3. submission.detail = Form!Objections(submission.values)
      /\ submission.detail.list = TRUE
  BY DEF FormInvariant, Form!TypeOK, Form!Submissions, Form!Details
<1>4. Form!normalizeDetail(submission.detail) = Form!CreateMonitorDto(submission.values)
  BY <1>3, TextMarks, NoListNoMarks
<1>5. f # "root"
  BY DEF Form!Fields
<1> QED
  BY <1>2, <1>4, <1>5 DEF Form!onError

\* No step takes away what was typed into the open form, and an objection marks
\* exactly the fields it is about, whatever was typed while it was awaited
\* (CreateMonitorForm, normalizeDetail).
THEOREM FormCorrect == Spec => FormKept
<1>1. Init => FormInvariant
  BY FormInit DEF Init
<1>2. [Next]_vars => [Form!Next]_formVars
  BY DEF Next, vars
<1>3. FormInvariant /\ [Next]_vars => FormInvariant'
  BY <1>2, FormNext
<1>4. FormInvariant /\ [Next]_vars
        => [Form!TypeOK' /\ Form!InputKept' /\ Form!MarksExact]_vars
  BY <1>2, <1>3, FormMarks DEF FormInvariant
<1> QED
  BY <1>1, <1>3, <1>4, PTL DEF Spec, FormKept

=============================================================================
