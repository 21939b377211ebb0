---------------------------- MODULE HistoryChart ----------------------------
(***************************************************************************)
(* The latency chart of the history page: a loop over the loaded rows in   *)
(* time order cuts them into the lines that are drawn and the gaps that    *)
(* are labelled "No samples".  Rows are loaded in any order, several may   *)
(* have one time.                                                          *)
(***************************************************************************)
EXTENDS Integers

CONSTANTS
    MaxRows,        \* bound: rows loaded
    MaxTime,        \* bound: created_at, in seconds
    Frequency,      \* the monitor's, in seconds; 0 when it is not known
    None            \* no row

ChartAssumption ==
    /\ {MaxRows, MaxTime, Frequency} \subseteq Nat
    /\ None \notin [id : Nat, timestamp : Nat, measured : BOOLEAN]

VARIABLES
    rows,           \* the rows loaded; one without a latency is not measured
    todo,           \* the points that the loop has not come to
    previous,       \* the point before them
    segments,       \* the lines closed: a line is drawn through its points in their order
    segment,        \* the line that is open
    gaps            \* the times on both sides of a gap

chartVars == <<rows, todo, previous, segments, segment, gaps>>

Row == [id : 1..MaxRows, timestamp : 0..MaxTime, measured : BOOLEAN]

Init ==
    /\ rows = {} /\ todo = {}
    /\ previous = None
    /\ segments = {} /\ segment = {} /\ gaps = {}

\* The API sends rows of different ids.
Load ==
    /\ todo = rows
    /\ \E row \in Row :
          /\ \A other \in rows : other.id # row.id
          /\ rows' = rows \cup {row}
          /\ todo' = todo \cup {row}
    /\ UNCHANGED <<previous, segments, segment, gaps>>

-----------------------------------------------------------------------------
(* buildLatencyChartGeometry *)

\* Sorted by time, rows of one time by id.
Before(a, b) == a.timestamp < b.timestamp \/ (a.timestamp = b.timestamp /\ a.id < b.id)

threshold == 3 * Frequency

gap(point) ==
    /\ previous # None /\ Frequency > 0
    /\ point.timestamp - previous.timestamp > threshold

\* MUTANT: a row without a latency is left out and the line goes on.
EndsAtGaps(point) == gap(point)

\* A line ends before a gap and at a row without a latency.
Ends(point) == ~point.measured \/ gap(point)

NonEmpty(line) == IF line = {} THEN {} ELSE {line}

\* One turn of the loop, over the first point left.
Visit(point) ==
    /\ \A other \in todo \ {point} : Before(point, other)
    /\ segments' = segments \cup IF Ends(point) THEN NonEmpty(segment) ELSE {}
    /\ segment' = (IF Ends(point) THEN {} ELSE segment)
                    \cup IF point.measured THEN {point} ELSE {}
    /\ gaps' = gaps \cup IF gap(point) THEN {<<previous.timestamp, point.timestamp>>} ELSE {}
    /\ previous' = point
    /\ todo' = todo \ {point}
    /\ UNCHANGED rows

Next == Load \/ \E point \in todo : Visit(point)

Spec == Init /\ [][Next]_chartVars

\* What is drawn when the loop is done; before, the chart of the points so far.
Lines == segments \cup NonEmpty(segment)

-----------------------------------------------------------------------------
(* Properties *)

points == rows \ todo

Joined(a, b) ==
    \E line \in Lines :
        /\ {a, b} \subseteq line /\ Before(a, b)
        /\ ~\E c \in line : Before(a, c) /\ Before(c, b)

\* A line joins two samples exactly when both were measured, nothing was loaded
\* between them and they are no further apart than three periods: no outage and
\* no silence is drawn over (the segments of buildLatencyChartGeometry).
LinesAreHonest ==
    \A a, b \in points :
        Joined(a, b) <=>
            /\ a.measured /\ b.measured
            /\ Before(a, b) /\ ~\E c \in points : Before(a, c) /\ Before(c, b)
            /\ Frequency = 0 \/ b.timestamp - a.timestamp <= 3 * Frequency

\* Every measured row is drawn, and once; a row without a latency never is.
DrawnOnce ==
    /\ {} \notin Lines
    /\ UNION Lines = {p \in points : p.measured}
    /\ \A s, t \in Lines : s # t => s \cap t = {}

\* "No samples" stands for each silence of more than three periods, failed
\* checks being samples too.
GapsAreSilences ==
    LET times == {p.timestamp : p \in points} IN
    gaps = {s \in times \X times :
              /\ Frequency > 0 /\ s[2] - s[1] > 3 * Frequency
              /\ ~\E t \in times : s[1] < t /\ t < s[2]}
=============================================================================
