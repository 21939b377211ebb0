----------------------------- MODULE MonitorsPage -----------------------------
(***************************************************************************)
(* The monitors page of one account: the cached list with its polling and  *)
(* the fetch in flight, the panel with the form that creates monitors, and *)
(* the rows with their two-step deletion, against the monitors the API     *)
(* keeps.  A row is named by the monitor's id; ids are not used twice.     *)
(***************************************************************************)
EXTENDS Naturals, FiniteSets

CONSTANTS
    Monitors,       \* ids
    Existing,       \* those that exist at first
    MaxCreates,     \* bound: creates in flight
    MaxDeletes,     \* bound: deletions in flight
    Navigates       \* the page may be left and entered again

PageAssumption ==
    /\ Existing \subseteq Monitors
    /\ MaxCreates \in Nat /\ MaxDeletes \in Nat /\ Navigates \in BOOLEAN

VARIABLES
    exists,         \* the account's monitors in the database
    used,           \* ids that were ever given
    shown,          \* MonitorsPage is mounted
    loaded,         \* the query has data
    rows,           \* the data: the ids of the list
    invalid,        \* the query is invalidated
    fetch,          \* the fetch in flight: its stage and the answer of the API
    formOpen, createPending,    \* state of MonitorsPage
    submissionInFlight,         \* ref of the mounted form
    confirming,     \* rows that ask for a confirmation
    creates,        \* create mutations in flight
    deletes,        \* delete mutations in flight
    gone            \* history: deletions reported to this page

server == <<exists, used>>
list == <<loaded, rows, invalid, fetch>>
panel == <<formOpen, createPending, submissionInFlight>>
vars == <<exists, used, shown, loaded, rows, invalid, fetch, formOpen,
          createPending, submissionInFlight, confirming, creates, deletes, gone>>

NoFetch == [stage |-> "none", answer |-> {}]
Asked == [stage |-> "asked", answer |-> {}]

\* A mutation calls back the component that asked only while it is mounted.
Create == [stage : {"sent", "done", "refused"}, id : SUBSET Monitors, mounted : BOOLEAN]
Delete == [stage : {"sent", "ok", "missing", "failed"}, id : Monitors, mounted : BOOLEAN]

Init ==
    /\ exists = Existing /\ used = Existing
    /\ shown = TRUE
    /\ loaded = FALSE /\ rows = {} /\ invalid = FALSE /\ fetch = Asked
    /\ formOpen = FALSE /\ createPending = FALSE /\ submissionInFlight = FALSE
    /\ confirming = {} /\ creates = {} /\ deletes = {}
    /\ gone = {}

Unmounted(mutations) == {[c EXCEPT !.mounted = FALSE] : c \in mutations}

-----------------------------------------------------------------------------
(* The list: useMonitors and the query client. *)

\* MUTANT: an invalidation joins the fetch in flight.
InvalidateJoining ==
    /\ invalid' = TRUE
    /\ fetch' = IF shown /\ fetch = NoFetch THEN Asked ELSE fetch
    /\ UNCHANGED <<loaded, rows>>

\* invalidateQueries refetches the list if it is observed: a fetch in flight
\* is cancelled if there is data, and joined if there is none.
Invalidate ==
    /\ invalid' = TRUE
    /\ fetch' = IF shown /\ (loaded \/ fetch = NoFetch) THEN Asked ELSE fetch
    /\ UNCHANGED <<loaded, rows>>

\* The interval, a returning tab, and the mount of the page with stale data.
Refetch ==
    /\ shown /\ fetch = NoFetch
    /\ fetch' = Asked
    /\ UNCHANGED <<server, shown, loaded, rows, invalid, panel, confirming,
                   creates, deletes, gone>>

Serve ==
    /\ fetch.stage = "asked"
    /\ fetch' = [stage |-> "served", answer |-> exists]
    /\ UNCHANGED <<server, shown, loaded, rows, invalid, panel, confirming,
                   creates, deletes, gone>>

\* Rows that are no longer listed unmount, with their confirmations.
ListAnswered ==
    /\ fetch.stage = "served"
    /\ loaded' = TRUE /\ rows' = fetch.answer /\ invalid' = FALSE
    /\ fetch' = NoFetch
    /\ confirming' = confirming \cap rows'
    /\ deletes' = {d \in deletes : d.id \in rows'}
                  \cup Unmounted({d \in deletes : d.id \notin rows'})
    /\ UNCHANGED <<server, shown, panel, creates, gone>>

\* MUTANT: after a failure the list is not asked for again.
ListFailsForGood ==
    /\ fetch.stage \in {"asked", "served"}
    /\ fetch' = [fetch EXCEPT !.stage = "given up"]
    /\ UNCHANGED <<server, shown, loaded, rows, invalid, panel, confirming,
                   creates, deletes, gone>>

\* An attempt fails: it is retried, or the error is reported beside the data.
ListFails ==
    /\ fetch.stage \in {"asked", "served"}
    /\ fetch' \in {Asked, NoFetch}
    /\ UNCHANGED <<server, shown, loaded, rows, invalid, panel, confirming,
                   creates, deletes, gone>>

-----------------------------------------------------------------------------
(* The panel: AddMonitorButton and CreateMonitorForm. *)

toggleForm ==
    /\ shown /\ ~createPending
    /\ formOpen' = ~formOpen
    /\ submissionInFlight' = FALSE
    /\ creates' = Unmounted(creates)
    /\ UNCHANGED <<server, shown, list, createPending, confirming, deletes, gone>>

\* The form's own way out: its Cancel button and Escape.
cancelForm ==
    /\ shown /\ formOpen /\ ~submissionInFlight
    /\ formOpen' = FALSE
    /\ creates' = Unmounted(creates)
    /\ UNCHANGED <<server, shown, list, createPending, submissionInFlight,
                   confirming, deletes, gone>>

onSubmit ==
    /\ shown /\ formOpen /\ ~submissionInFlight
    /\ Cardinality(creates) < MaxCreates
    /\ submissionInFlight' = TRUE /\ createPending' = TRUE
    /\ creates' = creates \cup {[stage |-> "sent", id |-> {}, mounted |-> TRUE]}
    /\ UNCHANGED <<server, shown, list, formOpen, confirming, deletes, gone>>

CreateServed(c) ==
    /\ c.stage = "sent"
    /\ \/ \E m \in Monitors \ used :
             /\ exists' = exists \cup {m} /\ used' = used \cup {m}
             /\ creates' = (creates \ {c}) \cup {[c EXCEPT !.stage = "done", !.id = {m}]}
       \/ /\ creates' = (creates \ {c}) \cup {[c EXCEPT !.stage = "refused"]}
          /\ UNCHANGED server
    /\ UNCHANGED <<shown, list, panel, confirming, deletes, gone>>

\* onSuccess of the mutation, then onSuccess and onSettled of the form.
CreateSucceeds(c) ==
    /\ c.stage = "done"
    /\ creates' = creates \ {c}
    /\ Invalidate
    /\ formOpen' = (formOpen /\ ~c.mounted)
    /\ submissionInFlight' = (submissionInFlight /\ ~c.mounted)
    /\ createPending' = (createPending /\ ~c.mounted)
    /\ UNCHANGED <<server, shown, confirming, deletes, gone>>

\* onError and onSettled: the API refused, or its answer was lost.
CreateFails(c) ==
    /\ c.stage \in {"refused", "done"}
    /\ creates' = creates \ {c}
    /\ submissionInFlight' = (submissionInFlight /\ ~c.mounted)
    /\ createPending' = (createPending /\ ~c.mounted)
    /\ UNCHANGED <<server, shown, list, formOpen, confirming, deletes, gone>>

-----------------------------------------------------------------------------
(* The rows: DeleteButton. *)

\* inFlightRef of the mounted button of row m.
Busy(m) == \E d \in deletes : d.id = m /\ d.mounted

AskToConfirm(m) ==
    /\ shown /\ loaded /\ m \in rows \ confirming
    /\ confirming' = confirming \cup {m}
    /\ UNCHANGED <<server, shown, list, panel, creates, deletes, gone>>

cancel(m) ==
    /\ m \in confirming /\ ~Busy(m)
    /\ confirming' = confirming \ {m}
    /\ UNCHANGED <<server, shown, list, panel, creates, deletes, gone>>

confirm(m) ==
    /\ m \in confirming /\ ~Busy(m)
    /\ Cardinality(deletes) < MaxDeletes
    /\ deletes' = deletes \cup {[stage |-> "sent", id |-> m, mounted |-> TRUE]}
    /\ UNCHANGED <<server, shown, list, panel, confirming, creates, gone>>

DeleteServed(d) ==
    /\ d.stage = "sent"
    /\ \/ /\ exists' = exists \ {d.id}
          /\ deletes' = (deletes \ {d}) \cup
                {[d EXCEPT !.stage = IF d.id \in exists THEN "ok" ELSE "missing"]}
       \/ /\ exists' \in {exists, exists \ {d.id}}
          /\ deletes' = (deletes \ {d}) \cup {[d EXCEPT !.stage = "failed"]}
    /\ UNCHANGED <<used, shown, list, panel, confirming, creates, gone>>

\* onSettled of the mutation invalidates after every outcome; a success closes
\* the confirmation, a failure or a 404 leaves it with a message.
DeleteSettles(d) ==
    /\ d.stage # "sent"
    /\ deletes' = deletes \ {d}
    /\ gone' = IF d.stage = "failed" THEN gone ELSE gone \cup {d.id}
    /\ Invalidate
    /\ confirming' = IF d.mounted /\ d.stage = "ok" THEN confirming \ {d.id} ELSE confirming
    /\ UNCHANGED <<server, shown, panel, creates>>

-----------------------------------------------------------------------------
(* Navigation, and the account's monitors changing elsewhere. *)

Leave ==
    /\ Navigates /\ shown
    /\ shown' = FALSE
    /\ formOpen' = FALSE /\ createPending' = FALSE /\ submissionInFlight' = FALSE
    /\ confirming' = {}
    /\ creates' = Unmounted(creates) /\ deletes' = Unmounted(deletes)
    /\ UNCHANGED <<server, list, gone>>

\* Mounting fetches unless the data is fresh; a fetch in flight is joined.
Enter ==
    /\ ~shown
    /\ shown' = TRUE
    /\ \/ fetch' = IF fetch = NoFetch THEN Asked ELSE fetch
       \/ loaded /\ ~invalid /\ UNCHANGED fetch
    /\ UNCHANGED <<server, loaded, rows, invalid, panel, confirming, creates,
                   deletes, gone>>

Elsewhere(m) ==
    /\ m \in exists
    /\ exists' = exists \ {m}
    /\ UNCHANGED <<used, shown, list, panel, confirming, creates, deletes, gone>>

Next ==
    \/ Refetch \/ Serve \/ ListAnswered \/ ListFails
    \/ toggleForm \/ cancelForm \/ onSubmit
    \/ \E c \in creates : CreateServed(c) \/ CreateSucceeds(c) \/ CreateFails(c)
    \/ \E m \in Monitors : AskToConfirm(m) \/ cancel(m) \/ confirm(m) \/ Elsewhere(m)
    \/ \E d \in deletes : DeleteServed(d) \/ DeleteSettles(d)
    \/ Leave \/ Enter

\* The interval fires, requests are served, and not every answer is lost.
Fairness == WF_vars(Refetch) /\ SF_vars(Serve) /\ SF_vars(ListAnswered)

Spec == Init /\ [][Next]_vars /\ Fairness

-----------------------------------------------------------------------------
TypeOK ==
    /\ exists \subseteq used /\ used \subseteq Monitors
    /\ rows \subseteq used /\ (~loaded => rows = {})
    /\ fetch \in [stage : {"none", "asked", "served"}, answer : SUBSET used]
    /\ {shown, loaded, invalid, formOpen, createPending, submissionInFlight}
          \subseteq BOOLEAN
    /\ confirming \subseteq rows
    /\ creates \subseteq Create /\ deletes \subseteq Delete
    /\ \A m \in Monitors : Cardinality({d \in deletes : d.id = m /\ d.mounted}) <= 1

(* The Add monitor button is disabled, and the form refuses a submission,    *)
(* only while a create is in flight that will call this form back: no order *)
(* of toggles, failures and visits leaves the panel stuck.                  *)
NoStuckPanel ==
    /\ createPending = submissionInFlight
    /\ createPending => formOpen /\ \E c \in creates : c.mounted

(* A list that the page takes to be fresh has no row whose deletion was      *)
(* reported before, whichever fetch answered last.                          *)
NoGhostRow ==
    shown /\ loaded /\ ~invalid /\ fetch = NoFetch => rows \cap gone = {}

(* A row that was removed, here or elsewhere, disappears from the page.      *)
RowsCatchUp ==
    \A m \in Monitors :
        (shown /\ m \in rows /\ m \notin exists) ~> (m \notin rows \/ ~shown)
=============================================================================
