------------------------------- MODULE MCPages -------------------------------
(***************************************************************************)
(* Instances for TLC of what runs in the browser for a signed-in user: the *)
(* session of the tab, the monitors page and its form.  They share no      *)
(* state; running names the one that moves, so that the states of the run  *)
(* are those of each.                                                      *)
(***************************************************************************)
EXTENDS Naturals, FiniteSets

CONSTANTS
    MaxLogins, MaxCalls,
    Monitors, Existing, MaxCreates, MaxDeletes,
    MaxLeft,        \* bound: mutations in flight on a page that may be left
    Frequencies, MinFrequency

VARIABLES
    running,
    \* Session
    token, stored, auth, page, form, owns, attempts, signups, issued, soon,
    rejected, calls, ended, storage,
    \* MonitorsPage
    exists, used, shown, loaded, rows, invalid, fetch, formOpen, createPending,
    submissionInFlight, confirming, creates, deletes, gone,
    \* CreateForm
    open, values, typed, errors, isSubmitted, submission

Tab == INSTANCE Session
List == INSTANCE MonitorsPage WITH Navigates <- TRUE
Form == INSTANCE CreateForm

ASSUME PagesAssumption ==
    Tab!SessionAssumption /\ List!PageAssumption /\ Form!FormAssumption

tabVars == <<token, stored, auth, page, form, owns, attempts, signups, issued,
             soon, rejected, calls, ended, storage>>
pageVars == <<exists, used, shown, loaded, rows, invalid, fetch, formOpen,
              createPending, submissionInFlight, confirming, creates, deletes, gone>>
formVars == <<open, values, typed, errors, isSubmitted, submission>>
vars == <<running, tabVars, pageVars, formVars>>

Init ==
    /\ running \in {"tab", "stay", "nav", "form"}
    /\ Tab!Init /\ List!Init /\ Form!Init

\* A monitors page that stays, and one that is left and entered again.
Stay == List!Next /\ shown'
Nav == List!Next /\ Cardinality(creates') + Cardinality(deletes') <= MaxLeft

Next ==
    /\ \/ running = "tab" /\ Tab!Next /\ UNCHANGED <<pageVars, formVars>>
       \/ running = "stay" /\ Stay /\ UNCHANGED <<tabVars, formVars>>
       \/ running = "nav" /\ Nav /\ UNCHANGED <<tabVars, formVars>>
       \/ running = "form" /\ Form!Next /\ UNCHANGED <<tabVars, pageVars>>
    /\ UNCHANGED running

Spec == Init /\ [][Next]_vars /\ (running = "nav" => List!Fairness)

-----------------------------------------------------------------------------
(* AuthProvider, tokenStore: the header never names another session than the *)
(* one whose token the requests carry, and a session that has ended is not   *)
(* brought back.                                                             *)
SessionSound == Tab!TypeOK /\ Tab!OneIdentity /\ Tab!EndedStaysEnded

(* apiFetch, the watcher: a session ends for a reason, of which one is the    *)
(* late 401 to a request of a rejected session before it, or of none.        *)
EndsForAReason == [][Tab!EndingHasReason]_vars

(* DeleteButton, invalidateQueries, MonitorsPage: a fresh list on a page that *)
(* stays has no row whose deletion was reported before, and no order of       *)
(* events leaves the panel stuck.                                             *)
ListTruthful ==
    /\ running = "stay" => List!NoGhostRow
    /\ List!TypeOK /\ List!NoStuckPanel

(* useMonitors: a row that was removed, here or elsewhere, disappears.        *)
RowsCatchUp == running = "nav" => List!RowsCatchUp

(* CreateMonitorForm, normalizeDetail: no step takes away what was typed, and *)
(* an objection marks the fields it is about.                                 *)
FormKept == [][Form!TypeOK' /\ Form!InputKept' /\ Form!MarksExact]_vars
=============================================================================
