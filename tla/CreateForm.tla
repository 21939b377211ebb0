----------------------------- MODULE CreateForm -----------------------------
(***************************************************************************)
(* The form that creates a monitor and the three judges of what is typed   *)
(* into it: its own schema, the API's DTO and the API's service.  The      *)
(* inputs stay enabled while a submission is in flight.                    *)
(***************************************************************************)
EXTENDS Naturals, FiniteSets

CONSTANTS
    Frequencies,    \* that are typed, in seconds
    MinFrequency    \* of the account: MIN_MONITOR_FREQUENCY_SECONDS or the demo's

FormAssumption == Frequencies \subseteq Nat /\ 60 \in Frequencies /\ MinFrequency \in Nat

Fields == {"name", "target", "frequency"}

\* Names and targets by what the judges tell apart.
Values == [name : {"", "ok", "longer than 100"},
           target : {"", "no URL", "ftp", "localhost", "x.localhost", "private", "public"},
           frequency : Frequencies]

defaultValues == [name |-> "", target |-> "", frequency |-> 60]

VARIABLES
    open,           \* the form is mounted
    values,         \* what the inputs hold
    typed,          \* what was typed into them since the form was opened
    errors,         \* errors[f]: who objected to the field, "root" for the form
    isSubmitted,    \* errors are revised at every change from then on
    submission      \* the mutation: its stage, values and the answer

vars == <<open, values, typed, errors, isSubmitted, submission>>

Stages == {"none", "sent", "created", "refused", "failed"}
NoErrors == [f \in Fields \cup {"root"} |-> "none"]
Fresh ==
    /\ values' = defaultValues /\ typed' = defaultValues
    /\ errors' = NoErrors /\ isSubmitted' = FALSE

-----------------------------------------------------------------------------
(* The judges: the fields each objects to *)

createSchema(v) ==
    {f \in Fields :
        \/ f = "name" /\ v.name # "ok"
        \/ f = "target" /\ v.target \notin {"private", "public"}
        \/ f = "frequency" /\ v.frequency < 10}

\* URL, protocol, and hosts of this machine and of private networks.
IsValidTarget(target) == target \in {"x.localhost", "public"}

CreateMonitorDto(v) ==
    {f \in Fields :
        \/ f = "name" /\ v.name # "ok"
        \/ f = "target" /\ ~IsValidTarget(v.target)
        \/ f = "frequency" /\ v.frequency < 10}

\* What a 400 says: a list with the texts of the DTO's objections, or the one
\* text of createMonitor.  A text is the set of its telling words.
Text == [name |-> {"name", "characters"}, target |-> {"target", "url", "localhost"},
         frequency |-> {"frequency", "10"}]
TextOfService == {"monitor", "frequency", "less"}
Details == [list : BOOLEAN, texts : SUBSET ({Text[f] : f \in Fields} \cup {TextOfService})]
NoDetail == [list |-> FALSE, texts |-> {}]

Objections(v) ==
    IF CreateMonitorDto(v) # {} THEN [list |-> TRUE, texts |-> {Text[f] : f \in CreateMonitorDto(v)}]
    ELSE IF v.frequency < MinFrequency THEN [list |-> FALSE, texts |-> {TextOfService}]
    ELSE NoDetail

\* MUTANT: a list of plain texts is attributed to no field.
normalizeDetailOfObjects(detail) == {}

\* The fields a list is attributed to, by the words of each of its texts.
normalizeDetail(detail) ==
    IF detail.list THEN {f \in Fields : \E text \in detail.texts : f \in text} ELSE {}

NoSubmission == [stage |-> "none", values |-> defaultValues, detail |-> NoDetail]
Submissions == [stage : Stages, values : Values, detail : Details]

Init ==
    /\ open = TRUE /\ values = defaultValues /\ typed = defaultValues
    /\ errors = NoErrors /\ isSubmitted = FALSE
    /\ submission = NoSubmission

-----------------------------------------------------------------------------
(* The form *)

Type(f, x) ==
    /\ open
    /\ values' = [values EXCEPT ![f] = x]
    /\ typed' = [typed EXCEPT ![f] = x]
    /\ errors' = IF ~isSubmitted THEN errors
                 ELSE [errors EXCEPT ![f] = IF f \in createSchema(values') THEN "schema" ELSE "none"]
    /\ UNCHANGED <<open, isSubmitted, submission>>

\* handleSubmit: the schema's errors replace all others; without any, the
\* values are sent.
onSubmit ==
    /\ open /\ submission.stage = "none"
    /\ isSubmitted' = TRUE
    /\ errors' = [f \in Fields \cup {"root"} |->
                    IF f \in createSchema(values) THEN "schema" ELSE "none"]
    /\ submission' = IF createSchema(values) # {} THEN submission
                     ELSE [stage |-> "sent", values |-> values, detail |-> NoDetail]
    /\ UNCHANGED <<open, values, typed>>

\* The API judges the values; 429, 5xx, the quota's 400 and a lost connection
\* are about no value.
Serve ==
    /\ submission.stage = "sent"
    /\ \/ /\ Objections(submission.values) = NoDetail
          /\ submission' = [submission EXCEPT !.stage = "created"]
       \/ /\ Objections(submission.values) # NoDetail
          /\ submission' = [submission EXCEPT !.stage = "refused",
                                              !.detail = Objections(submission.values)]
       \/ submission' = [submission EXCEPT !.stage = "failed"]
    /\ UNCHANGED <<open, values, typed, errors, isSubmitted>>

\* onSuccess: the form is reset, and closed by its owner.
Created ==
    /\ submission.stage = "created"
    /\ open' = FALSE /\ Fresh
    /\ submission' = NoSubmission

\* onError: the fields of the answer and the form as a whole get a message.
onError ==
    /\ submission.stage \in {"refused", "failed"}
    /\ errors' = [f \in Fields \cup {"root"} |->
                    IF f \in normalizeDetail(submission.detail) \cup {"root"} THEN "api" ELSE errors[f]]
    /\ submission' = NoSubmission
    /\ UNCHANGED <<open, values, typed, isSubmitted>>

cancel ==
    /\ open /\ submission.stage = "none"
    /\ open' = FALSE /\ Fresh
    /\ UNCHANGED submission

Open == ~open /\ open' = TRUE /\ Fresh /\ UNCHANGED submission

Next ==
    \/ \E f \in Fields : \E x \in {v[f] : v \in Values} : Type(f, x)
    \/ onSubmit \/ Serve \/ Created \/ onError \/ cancel \/ Open

Spec == Init /\ [][Next]_vars

-----------------------------------------------------------------------------
(* Properties *)

\* The types; a submission that is judged passed the schema.
TypeOK ==
    /\ open \in BOOLEAN /\ values \in Values /\ typed \in Values
    /\ errors \in [Fields \cup {"root"} -> {"none", "schema", "api"}]
    /\ isSubmitted \in BOOLEAN /\ submission \in Submissions
    /\ submission.stage # "none" => createSchema(submission.values) = {}

\* An answer that objects to fields marks these and takes no mark away that an
\* input got while it was awaited, and no other field is blamed
\* (normalizeDetail, onError).
MarksExact ==
    submission.stage = "refused" /\ submission' = NoSubmission /\ submission.detail.list =>
        \A f \in Fields :
            errors'[f] = IF f \in CreateMonitorDto(submission.values) THEN "api" ELSE errors[f]

MarksAreExact == [][MarksExact]_vars

\* The open form holds what was typed since it was opened: no refusal and no
\* failure takes it away (onError, onSettled).
InputKept == open => values = typed

=============================================================================
