------------------------------ MODULE Heartbeat ------------------------------
(***************************************************************************)
(* PollCycle in time, with the heartbeat file that the health command of   *)
(* the container reads, and with crashes and restarts of the process.      *)
(*                                                                         *)
(* Time is discrete.  The loop computes in no time; waiting for the tick,  *)
(* the poll query and the checks take time up to their limits.  Writing    *)
(* the file succeeds.  The health command also pings the database, which   *)
(* could only make it stricter.                                            *)
(***************************************************************************)
EXTENDS PollCycle

CONSTANTS
    Period,         \* of the polling ticker
    DBTimeout,      \* WORKER_DB_TIMEOUT_SECONDS
    ProbeTimeout,   \* maxCheckTimeout
    Margin          \* the scheduling margin of the configuration

ASSUME TimesAssumption ==
    /\ Period \in Nat \ {0} /\ DBTimeout \in Nat \ {0} /\ ProbeTimeout \in Nat \ {0}
    /\ Margin \in Nat

VARIABLES
    written,        \* the file holds a time stamp, not the empty string
    age,            \* age of the stamp, or of the reset of the file
    spent,          \* spent[m]: time since the check of m started
    idle,           \* time the loop has spent in its place
    faulty,         \* a database failure was met since the last heartbeat
    progress        \* this process has written a heartbeat

timers == <<spent, idle>>
file == <<written, age>>
hvars == <<vars, file, timers, faulty, progress>>

\* The worker process runs.
Up == loop # "stopped"

\* WORKER_HEARTBEAT_MAX_AGE_SECONDS is never less than this.
MaxAge == 4 * DBTimeout + ProbeTimeout + Period + Margin

\* A check: the probe, one deadline for the whole transaction and another one
\* for the rollback.
CheckLimit == ProbeTimeout + 2 * DBTimeout

HInit ==
    /\ Init
    /\ written = FALSE
    /\ age = 0
    /\ spent = [m \in Monitors |-> 0]
    /\ idle = 0
    /\ faulty = FALSE
    /\ progress = FALSE

-----------------------------------------------------------------------------
Beat ==
    /\ written' = TRUE
    /\ age' = 0
    /\ faulty' = FALSE
    /\ progress' = TRUE

Silent == UNCHANGED <<file, faulty, progress>>

\* A failure of the database, and no heartbeat.
Fault ==
    /\ faulty' = TRUE
    /\ UNCHANGED <<file, progress>>

\* The check of a newly running monitor starts at time 0.
Restarted ==
    spent' = [m \in Monitors |-> IF work[m] # "running" /\ work'[m] = "running"
                                 THEN 0 ELSE spent[m]]

\* A step of the loop that takes it to another place.
Moved == idle' = 0 /\ UNCHANGED spent

HTick == Tick /\ Moved /\ Silent

HFetchFails == FetchFails /\ Moved /\ Fault

\* An empty poll is progress; a cancelled one is not.
HFetched(due) ==
    /\ Fetched(due)
    /\ Moved
    /\ IF due = {} /\ context = "alive" THEN Beat ELSE Silent

HStartFirst(m) == StartFirst(m) /\ Restarted /\ idle' = idle /\ Silent

\* MUTANT: only the last result of a cycle writes the heartbeat.
HReceiveLast(m) ==
    /\ Receive(m)
    /\ Restarted /\ idle' = idle
    /\ IF work[m] = "failed" THEN Fault
       ELSE IF active' = 0 THEN Beat ELSE Silent

\* Each result that is not a failure of the database writes the heartbeat.
HReceive(m) ==
    /\ Receive(m)
    /\ Restarted /\ idle' = idle
    /\ IF work[m] = "failed" THEN Fault ELSE Beat

HQuiet ==
    /\ FirstStarted \/ NoticeCancel \/ EndCycle \/ Leave \/ Join
         \/ \E m \in Monitors : DrainOne(m)
    /\ Moved /\ Silent

\* The goroutines and the signal take time elsewhere.
HElsewhere ==
    /\ Signal \/ (\E m \in Monitors : Finish(m)) \/ (\E j \in Jobs : JobStep(j))
    /\ UNCHANGED timers /\ Silent

-----------------------------------------------------------------------------
\* The loop has something to do at once.
Urgent ==
    \/ loop = "dispatching"
    \/ loop \in {"selecting", "draining"} /\ (Sent # {} \/ active = 0)
    \/ loop = "selecting" /\ context = "cancelled"

\* One unit of time, if no limit is reached; the age is counted up to where it is
\* too old.
Pass ==
    /\ ~Urgent
    /\ loop = "waiting" => idle < Period
    /\ loop = "fetching" => idle < DBTimeout
    /\ \A m \in Running : spent[m] < CheckLimit
    /\ age' = IF age <= MaxAge THEN age + 1 ELSE age
    /\ spent' = [m \in Monitors |-> IF m \in Running THEN spent[m] + 1 ELSE spent[m]]
    /\ idle' = IF loop \in {"waiting", "fetching"} THEN idle + 1 ELSE idle
    /\ UNCHANGED <<vars, written, faulty, progress>>

\* The process dies; the file stays.
Crash ==
    /\ Up
    /\ context' = "cancelled" /\ loop' = "stopped" /\ pending' = {} /\ active' = 0
    /\ work' = [m \in Monitors |-> "none"]
    /\ jobs' = [j \in Jobs |-> "done"]
    /\ Moved /\ Silent

Fresh ==
    /\ ~Up
    /\ context' = "alive" /\ loop' = "waiting" /\ pending' = {} /\ active' = 0
    /\ work' = [m \in Monitors |-> "none"]
    /\ jobs' = [j \in Jobs |-> "waiting"]
    /\ Moved
    /\ faulty' = FALSE /\ progress' = FALSE

\* MUTANT: a new process keeps the file of the last one.
RestartKeepingFile == Fresh /\ UNCHANGED file

\* A new process empties the file before it polls.
Restart == Fresh /\ written' = FALSE /\ age' = 0

HLoop ==
    \/ HTick \/ HFetchFails \/ HQuiet \/ HElsewhere
    \/ \E due \in SUBSET Monitors : HFetched(due)
    \/ \E m \in Monitors : HStartFirst(m) \/ HReceive(m)

HNext == HLoop \/ Pass \/ Crash \/ Restart

HSpec == HInit /\ [][HNext]_hvars

-----------------------------------------------------------------------------
(* Properties *)

\* What the health command reports of the heartbeat (CheckHeartbeat).
Healthy == Up /\ written /\ age <= MaxAge

\* The new variables have their kinds.
HTypeOK ==
    /\ written \in BOOLEAN /\ faulty \in BOOLEAN /\ progress \in BOOLEAN
    /\ age \in 0..(MaxAge + 1)
    /\ spent \in [Monitors -> 0..CheckLimit]
    /\ idle \in Nat

\* A worker that is not shutting down and meets no database failure is never
\* found stale: its heartbeat, however long the cycle and however slow each
\* check, is younger than the configured maximum (config.go minimumHeartbeatAge)
\* by a database timeout and the whole margin.
NeverFalselyStale ==
    context = "alive" /\ ~faulty => age <= Period + DBTimeout + CheckLimit

\* A worker found healthy has made progress itself: neither a predecessor's file
\* nor one without any progress will do (README.md:88, main ResetHeartbeat).
HealthyMeansProgress == Healthy => progress
=============================================================================
