---------------------------- MODULE SystemStatus ----------------------------
(***************************************************************************)
(* What an operator sees of the system: the task lists with the runs still *)
(* to come, pushed by /api/v1/system/tasks/stream, and the warnings of     *)
(* /api/v1/system/warnings with their dismissals.  Both read the tables in *)
(* several statements while planners and workers go on.                    *)
(***************************************************************************)
EXTENDS Naturals, FiniteSets

CONSTANTS
    StatusPair,    \* pairs with a sync_status row
    TaskStream,    \* connections of the task stream
    Viewer,        \* operators with the warnings on their screen
    MaxChanges,    \* changes of the tables
    MaxReadErrors, \* reads that fail
    Unread         \* a part of a snapshot whose read failed, or not yet there

ASSUME StatusAssumption == MaxChanges \in Nat /\ MaxReadErrors \in Nat

VARIABLES
    system,        \* what the statements read
    announce,      \* rows were changed by this process, NotifyUpdate is due
    changes,       \* counts the changes, up to MaxChanges
    readErrors,    \* counts failed reads, up to MaxReadErrors
    taskStream,    \* a connection: StreamTasks' goroutine and the handler's
    viewer,        \* an operator's request and the warnings on the screen
    dismissed,     \* dismissed_warnings: the fingerprint dismissed per id
    shown          \* every warning any response has contained (history)

systemVars == <<system, announce, changes>>
statusVars == <<systemVars, readErrors, taskStream, viewer, dismissed, shown>>

Cleanup == <<"cleanup", "*">>
PairType == {"backfill", "live_ticker", "integrity_check", "consolidation"}
TaskKey == PairType \X StatusPair \cup {Cleanup}
Check == {"db", "kafka"}

\* Errors as the workers report them, and what is left of them: the two are
\* longer than 110 bytes and differ beyond.
LastError == {"long refused", "long reset"}
TruncateText(e) == "long"

-----------------------------------------------------------------------------
(* Planners, workers, feeds: whatever else changes the tables *)

NoRow == [status |-> "none", error |-> ""]
Row(status) == [status |-> status, error |-> ""]

\* The rows a task row may become: Enqueue, Claim, Complete, Fail, prune.
Successors(r) ==
    CASE r.status = "none" -> {Row("pending")}
      [] r.status = "pending" -> {Row("running")}
      [] r.status = "running" ->
            {Row("completed")} \cup {[status |-> "failed", error |-> e] : e \in LastError}
      [] OTHER -> {Row("pending"), NoRow}

\* A worker of this process is to call NotifyUpdate, one of another is not.
TaskChanges(k, r, here) ==
    /\ system' = [system EXCEPT !.row[k] = r]
    /\ announce' = (announce \/ here)

SyncChanges ==
    /\ \/ \E p \in StatusPair \ system.hourly : system' = [system EXCEPT !.hourly = @ \cup {p}]
       \/ \E p \in system.hourly \ system.daily : system' = [system EXCEPT !.daily = @ \cup {p}]
       \/ \E p \in StatusPair \ system.live : system' = [system EXCEPT !.live = @ \cup {p}]
    /\ UNCHANGED announce

\* The answers to the pings, and the age of the tickers.
HealthChanges ==
    /\ \/ \E c \in Check :
             system' = [system EXCEPT !.failing = (@ \ {c}) \cup ({c} \ @)]
       \/ \E p \in StatusPair :
             system' = [system EXCEPT !.stale = (@ \ {p}) \cup ({p} \ @)]
    /\ UNCHANGED announce

TablesChange ==
    \/ SyncChanges
    \/ \E k \in TaskKey, here \in BOOLEAN :
          \E r \in Successors(system.row[k]) : TaskChanges(k, r, here)

Change(A) ==
    /\ changes < MaxChanges
    /\ changes' = changes + 1
    /\ A
    /\ UNCHANGED <<readErrors, taskStream, viewer, dismissed, shown>>

-----------------------------------------------------------------------------
(* SystemService.StreamTasks and its handler *)

\* TaskRepository.UpcomingTasks and RecentTasks, the page large enough for all.
Listed == {k \in TaskKey : system.row[k].status \in {"pending", "running"}}
RecentTasks == {k \in TaskKey : system.row[k].status \in {"completed", "failed"}}

\* SystemService.UpcomingTasks: the runs to expect of what is not queued.  (The
\* cursor of a pair in backfill lies before its cut-over.)
Projected ==
    ({Cleanup}
        \cup {<<"backfill", p>> : p \in StatusPair \ system.hourly}
        \cup {<<"live_ticker", p>> : p \in StatusPair}
        \cup {<<"integrity_check", p>> : p \in system.hourly \cup system.live}
        \cup {<<"consolidation", p>> : p \in system.daily}) \ Listed

Upcoming == [listed |-> [k \in Listed |-> system.row[k].status], projected |-> Projected]
Recent == [k \in RecentTasks |-> system.row[k]]
SyncSnapshot == [hourly |-> system.hourly, daily |-> system.daily]

StreamSnapshot == [upcoming |-> Upcoming, recent |-> Recent, sync |-> SyncSnapshot]

NothingRead == [upcoming |-> Unread, recent |-> Unread, sync |-> Unread]

StreamClosed ==
    [pc |-> "closed", registered |-> FALSE, signal |-> FALSE, writer |-> "busy",
     read |-> NothingRead, view |-> NothingRead]

AfterPart == [upcoming |-> "recent", recent |-> "sync", sync |-> "offer"]

OpenTasks(s) ==
    /\ taskStream[s].pc = "closed"
    /\ taskStream' = [taskStream EXCEPT ![s].pc = "upcoming"]
    /\ UNCHANGED <<systemVars, readErrors, viewer, dismissed, shown>>

\* buildStreamSnapshot reads one part after the other and drops errors.
ReadPart(s, part) ==
    /\ taskStream[s].pc = part
    /\ \/ /\ taskStream' = [taskStream EXCEPT ![s].pc = AfterPart[part],
                                              ![s].read[part] = StreamSnapshot[part]]
          /\ UNCHANGED readErrors
       \/ /\ readErrors < MaxReadErrors
          /\ readErrors' = readErrors + 1
          /\ taskStream' = [taskStream EXCEPT ![s].pc = AfterPart[part],
                                              ![s].read[part] = Unread]
    /\ UNCHANGED <<systemVars, viewer, dismissed, shown>>

\* The channel has no buffer and the send does not wait: a snapshot offered
\* while the handler is busy is dropped.  The first one precedes the
\* registration for updates.
Offer(s) ==
    /\ taskStream[s].pc = "offer"
    /\ taskStream' = [taskStream EXCEPT
          ![s].pc = IF taskStream[s].registered THEN "select" ELSE "register",
          ![s].writer = "busy",
          ![s].read = NothingRead,
          ![s].view = IF taskStream[s].writer = "ready" THEN taskStream[s].read ELSE @]
    /\ UNCHANGED <<systemVars, readErrors, viewer, dismissed, shown>>

Register(s) ==
    /\ taskStream[s].pc = "register"
    /\ taskStream' = [taskStream EXCEPT ![s].pc = "select", ![s].registered = TRUE]
    /\ UNCHANGED <<systemVars, readErrors, viewer, dismissed, shown>>

ReceiveSignal(s) ==
    /\ taskStream[s].pc = "select" /\ taskStream[s].signal
    /\ taskStream' = [taskStream EXCEPT ![s].pc = "upcoming", ![s].signal = FALSE]
    /\ UNCHANGED <<systemVars, readErrors, viewer, dismissed, shown>>

\* The loop without its timer.
NoPoll(s) == FALSE /\ UNCHANGED statusVars

\* time.After(3s) of the select.
Poll(s) ==
    /\ taskStream[s].pc = "select"
    /\ taskStream' = [taskStream EXCEPT ![s].pc = "upcoming"]
    /\ UNCHANGED <<systemVars, readErrors, viewer, dismissed, shown>>

\* The handler has written a snapshot, or just started, and receives again.
HandlerReceives(s) ==
    /\ taskStream[s].pc # "closed" /\ taskStream[s].writer = "busy"
    /\ taskStream' = [taskStream EXCEPT ![s].writer = "ready"]
    /\ UNCHANGED <<systemVars, readErrors, viewer, dismissed, shown>>

\* The client goes away or a write fails: both goroutines end.
CloseTasks(s) ==
    /\ taskStream[s].pc # "closed"
    /\ taskStream' = [taskStream EXCEPT ![s] = StreamClosed]
    /\ UNCHANGED <<systemVars, readErrors, viewer, dismissed, shown>>

\* NotifyUpdate: a full channel takes no second signal.
NotifyUpdate ==
    /\ announce
    /\ announce' = FALSE
    /\ taskStream' = [s \in TaskStream |->
                         [taskStream[s] EXCEPT !.signal = @ \/ taskStream[s].registered]]
    /\ UNCHANGED <<system, changes, readErrors, viewer, dismissed, shown>>

-----------------------------------------------------------------------------
(* SystemService.ActiveWarnings and DismissWarning *)

Warning(kind, subject, detail) == [id |-> <<kind, subject>>, detail |-> detail]

\* The hash without the detail.
FingerprintOfId(w) == {}

\* newWarning's hash of id, level, title and detail; an id fixes level and title.
Fingerprint(w) == w.detail

NonEmpty(set) == {x \in {set} : x # {}}

\* buildActiveWarnings, by the source each warning is read from.
Warnings == [
    health |-> {Warning("system-health", "*", d) : d \in NonEmpty(system.failing)},
    sync |->
        {Warning("hourly-backfill", p, {p}) : p \in StatusPair \ system.hourly} \cup
        {Warning("daily-backfill", p, {p}) : p \in system.hourly \ system.daily},
    failed |->
        {Warning(IF k[1] = "integrity_check" THEN "integrity-failure" ELSE "task-failure",
                 k, {TruncateText(system.row[k].error)}) :
            k \in {l \in TaskKey : system.row[l].status = "failed"}},
    tickers |-> {Warning("stale-ticker-feeds", "*", d) : d \in NonEmpty(system.stale)}]

AfterSource ==
    [health |-> "sync", sync |-> "failed", failed |-> "tickers", tickers |-> "dismissed"]

GetWarnings(v) ==
    /\ viewer[v].pc = "idle"
    /\ viewer' = [viewer EXCEPT ![v].pc = "health", ![v].built = {}]
    /\ UNCHANGED <<systemVars, readErrors, taskStream, dismissed, shown>>

ReadSource(v, source) ==
    /\ viewer[v].pc = source
    /\ viewer' = [viewer EXCEPT ![v].pc = AfterSource[source],
                                ![v].built = @ \cup Warnings[source]]
    /\ UNCHANGED <<systemVars, readErrors, taskStream, dismissed, shown>>

\* The tickers are read at best effort: without them their warning is left out.
TickersUnread(v) ==
    /\ viewer[v].pc = "tickers"
    /\ viewer' = [viewer EXCEPT ![v].pc = "dismissed"]
    /\ UNCHANGED <<systemVars, readErrors, taskStream, dismissed, shown>>

\* Any other failing read is a 500: the screen keeps what it has.
WarningsFail(v) ==
    /\ viewer[v].pc \in {"sync", "failed", "dismissed"}
    /\ viewer' = [viewer EXCEPT ![v].pc = "idle", ![v].built = {}]
    /\ UNCHANGED <<systemVars, readErrors, taskStream, dismissed, shown>>

IsDismissed(w) == \E d \in dismissed : d.id = w.id /\ d.fingerprint = Fingerprint(w)

ActiveWarnings(v) ==
    /\ viewer[v].pc = "dismissed"
    /\ LET hidden == {w \in viewer[v].built : IsDismissed(w)}
           list == viewer[v].built \ hidden
       IN  /\ viewer' = [viewer EXCEPT ![v] =
                            [pc |-> "idle", built |-> {}, screen |-> list, hidden |-> hidden]]
           /\ shown' = shown \cup list
    /\ UNCHANGED <<systemVars, readErrors, taskStream, dismissed>>

\* POST with the id and the fingerprint of a warning on the screen, however old
\* and while the next list may be on its way: the row of the id is overwritten.
DismissWarning(v, w) ==
    /\ w \in viewer[v].screen
    /\ dismissed' = {d \in dismissed : d.id # w.id}
                        \cup {[id |-> w.id, fingerprint |-> Fingerprint(w)]}
    /\ UNCHANGED <<systemVars, readErrors, taskStream, viewer, shown>>

-----------------------------------------------------------------------------
StatusInit ==
    /\ system = [row |-> [k \in TaskKey |->
                            IF k[1] = "integrity_check" THEN Row("running") ELSE NoRow],
                 hourly |-> {}, daily |-> {}, live |-> {}, failing |-> {}, stale |-> {}]
    /\ announce = FALSE /\ changes = 0 /\ readErrors = 0
    /\ taskStream = [s \in TaskStream |-> StreamClosed]
    /\ viewer = [v \in Viewer |->
                    [pc |-> "idle", built |-> {}, screen |-> {}, hidden |-> {}]]
    /\ dismissed = {} /\ shown = {}

Produce(s) ==
    \/ \E part \in {"upcoming", "recent", "sync"} : ReadPart(s, part)
    \/ Offer(s) \/ Register(s) \/ ReceiveSignal(s) \/ Poll(s)

TaskStreamNext ==
    \/ Change(TablesChange) \/ NotifyUpdate
    \/ \E s \in TaskStream : OpenTasks(s) \/ Produce(s) \/ HandlerReceives(s) \/ CloseTasks(s)

WarningsNext ==
    \/ Change(TablesChange \/ HealthChanges)
    \/ \E v \in Viewer :
          \/ GetWarnings(v) \/ TickersUnread(v) \/ WarningsFail(v) \/ ActiveWarnings(v)
          \/ \E source \in DOMAIN AfterSource : ReadSource(v, source)
          \/ \E w \in viewer[v].screen : DismissWarning(v, w)

StatusSpec == StatusInit /\ [][TaskStreamNext \/ WarningsNext]_statusVars

-----------------------------------------------------------------------------
(* Properties *)

\* Property: a warning left out of a response because it was dismissed has been
\* on a screen before with exactly this text: a dismissal, which may come late
\* and from an old list, never hides a failure nobody has seen.
HiddenWasShown == \A v \in Viewer : viewer[v].hidden \subseteq shown

\* Property: once the tables rest, an open stream comes to show them, although
\* the first snapshot precedes the registration, snapshots are dropped while the
\* handler writes, and other processes' changes are not announced.
TaskListsArrive ==
    \A s \in TaskStream :
        []<>(taskStream[s].pc = "closed" \/ taskStream[s].view = StreamSnapshot)
=============================================================================
