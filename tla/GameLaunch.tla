------------------------------ MODULE GameLaunch ------------------------------
(***************************************************************************)
(* The launches of one instance (xmcl-runtime/launch: LaunchService.ts and *)
(* LaunchHistoryStore.ts), from the spawned process to the exit that the   *)
(* launcher reports, with the records and the game logs that are kept and  *)
(* the saves that wait for the end of the game.                            *)
(*                                                                         *)
(* Launches are numbered in the order of startedAt.  The games and the     *)
(* file latest.log, which all games of the instance write, are external.   *)
(* A handler is cut at its awaits: everything between two of them is one   *)
(* action.  Failing disk operations and restarts of the launcher, which    *)
(* the games survive, are troubles.                                        *)
(***************************************************************************)
EXTENDS Integers, Sequences, FiniteSets

CONSTANTS
    MaxLaunches,   \* bound on the launches
    Kept,          \* MAX_LAUNCHES_PER_INSTANCE
    MaxTroubles,   \* bound on failing operations and restarts
    None

ASSUME BoundsAssumption == MaxLaunches \in Nat /\ Kept \in Nat \ {0} /\ MaxTroubles \in Nat

Launches == 1..MaxLaunches
Records == [state : {"running", "exited"}, ready : BOOLEAN]
Held == [record : Records, copied : BOOLEAN]

ASSUME NoneAssumption == None \notin Nat \union Records \union Held

Jobs == {"ready", "complete"}

\* At most one of each is under way for a launch.
JobQueues == {<<>>, <<"ready">>, <<"complete">>, <<"ready", "complete">>, <<"complete", "ready">>}

VARIABLES
    started,    \* how many games have been spawned
    game,       \* external: none, running or exited
    window,     \* the window of the game: not yet, seen or missed by the launcher
    latest,     \* external: the game that wrote latest.log last, and the launches by then
    tracked,    \* this.processes
    ambiguous,  \* gameLogAmbiguous of the process data
    step,       \* where launch() is
    doomed,     \* the records that the prune of this launch has yet to remove
    exit,       \* where the exit handler is
    log,        \* exit handler: latest.log passes for this game's log
    jobs,       \* LaunchHistoryStore.updates: the operations on a launch, in order
    held,       \* the record that an operation has read and will write
    failed,     \* launches of which an operation has failed or was cut off
    history,    \* disk: the record of a launch
    archive,    \* disk: the game whose log is kept as the log of a launch
    met,        \* pairs of launches that were tracked at the same time
    pending,    \* InstanceSavesService: a changed save waits for the end of the game
    troubles

worldVars == <<game, window, latest>>
processVars == <<tracked, ambiguous, met>>
beginVars == <<step, doomed>>
jobVars == <<jobs, held, failed>>
exitVars == <<exit, log>>
diskVars == <<history, archive>>
vars == <<started, worldVars, processVars, beginVars, exitVars, jobVars, diskVars, pending, troubles>>

Init ==
    /\ started = 0
    /\ game = [l \in Launches |-> "none"]
    /\ window = [l \in Launches |-> "no"]
    /\ latest = [of |-> None, age |-> 0]
    /\ tracked = {}
    /\ ambiguous = {}
    /\ step = [l \in Launches |-> "none"]
    /\ doomed = [l \in Launches |-> {}]
    /\ exit = [l \in Launches |-> "no"]
    /\ log = {}
    /\ jobs = [l \in Launches |-> <<>>]
    /\ held = [l \in Launches |-> [j \in Jobs |-> None]]
    /\ failed = {}
    /\ history = [l \in Launches |-> None]
    /\ archive = [l \in Launches |-> None]
    /\ met = {}
    /\ pending = FALSE
    /\ troubles = 0

Recorded == {l \in Launches : history[l] # None}
Newer(l) == {m \in Recorded : m > l}

Trouble == troubles < MaxTroubles /\ troubles' = troubles + 1
-----------------------------------------------------------------------------
(***************************************************************************)
(* launch()                                                                *)
(***************************************************************************)

\* Mutant: only the game that comes second is marked.
LaterAmbiguous(l) == IF tracked = {} THEN {} ELSE {l}

\* The games whose logs can no longer be told apart once l is tracked.
NowAmbiguous(l) == IF tracked = {} THEN {} ELSE {l} \union tracked

\* The process runs and is tracked; its watcher is made, but nobody listens
\* to it until the record has been begun.
Spawn ==
    LET l == started + 1 IN
    /\ l \in Launches
    /\ started' = l
    /\ game' = [game EXCEPT ![l] = "running"]
    /\ step' = [step EXCEPT ![l] = "write"]
    /\ tracked' = tracked \union {l}
    /\ ambiguous' = ambiguous \union NowAmbiguous(l)
    /\ met' = met \union ({l} \X tracked) \union (tracked \X {l})
    /\ UNCHANGED <<window, latest, doomed, exitVars, jobVars, diskVars, pending, troubles>>

\* begin: the manifest is written
BeginWrite(l) ==
    /\ step[l] = "write"
    /\ step' = [step EXCEPT ![l] = "list"]
    /\ history' = [history EXCEPT ![l] = [state |-> "running", ready |-> FALSE]]
    /\ UNCHANGED <<started, worldVars, processVars, doomed, exitVars, jobVars, archive, pending, troubles>>

\* begin: ... or it is not; launch() warns and goes on.
BeginFails(l) ==
    /\ Trouble
    /\ step[l] = "write"
    /\ step' = [step EXCEPT ![l] = "attach"]
    /\ UNCHANGED <<started, worldVars, processVars, doomed, exitVars, jobVars, diskVars, pending>>

\* Mutant: the oldest are kept, not the newest.
OldestKept == {l \in Recorded : Cardinality({m \in Recorded : m < l}) >= Kept}

\* list, sorted by startedAt, newest first, without the first Kept.
Outdated == {l \in Recorded : Cardinality(Newer(l)) >= Kept}

PruneList(l) ==
    /\ step[l] = "list"
    /\ step' = [step EXCEPT ![l] = "prune"]
    /\ doomed' = [doomed EXCEPT ![l] = Outdated]
    /\ UNCHANGED <<started, worldVars, processVars, exitVars, jobVars, diskVars, pending, troubles>>

\* prune: one of the parallel removals
PruneRemove(l, d) ==
    /\ d \in doomed[l]
    /\ doomed' = [doomed EXCEPT ![l] = @ \ {d}]
    /\ history' = [history EXCEPT ![d] = None]
    /\ archive' = [archive EXCEPT ![d] = None]
    /\ UNCHANGED <<started, worldVars, processVars, step, exitVars, jobVars, pending, troubles>>

\* A removal fails: begin rejects, while the other removals go on.
PruneFails(l, d) ==
    /\ Trouble
    /\ d \in doomed[l]
    /\ doomed' = [doomed EXCEPT ![l] = @ \ {d}]
    /\ step' = [step EXCEPT ![l] = IF @ = "prune" THEN "attach" ELSE @]
    /\ UNCHANGED <<started, worldVars, processVars, exitVars, jobVars, diskVars, pending>>

\* launch() goes on: it listens to the watcher and returns.
Attach(l) ==
    /\ \/ step[l] = "attach"
       \/ step[l] = "prune" /\ doomed[l] = {}
    /\ step' = [step EXCEPT ![l] = "attached"]
    /\ UNCHANGED <<started, worldVars, processVars, doomed, exitVars, jobVars, diskVars, pending, troubles>>

\* kill: the process is told to stop and forgotten at once.
Kill(l) ==
    /\ l \in tracked
    /\ tracked' = tracked \ {l}
    /\ UNCHANGED <<started, worldVars, ambiguous, met, beginVars, exitVars, jobVars, diskVars, pending, troubles>>
-----------------------------------------------------------------------------
(***************************************************************************)
(* Events of the game                                                      *)
(***************************************************************************)

\* The game writes latest.log.
GameLog(l) ==
    /\ game[l] = "running"
    /\ latest # [of |-> l, age |-> started]
    /\ latest' = [of |-> l, age |-> started]
    /\ UNCHANGED <<started, game, window, processVars, beginVars, exitVars, jobVars, diskVars, pending, troubles>>

\* minecraft-window-ready, once; the output may be read after the exit.
WindowReady(l) ==
    /\ step[l] \notin {"none", "dead"} /\ window[l] = "no"
    /\ IF step[l] = "attached"
       THEN /\ window' = [window EXCEPT ![l] = "seen"]
            /\ jobs' = [jobs EXCEPT ![l] = Append(@, "ready")]
       ELSE /\ window' = [window EXCEPT ![l] = "missed"]
            /\ jobs' = jobs
    /\ UNCHANGED <<started, game, latest, processVars, beginVars, exitVars, held, failed, diskVars, pending, troubles>>

\* Mutant: the exit of a game that was killed is passed over.
ExitOfTracked(l) == IF step[l] # "attached" THEN "lost" ELSE IF l \in tracked THEN "resolve" ELSE "reported"

\* Without a listener the event is lost; after a restart nobody waits for it.
ExitSeen(l) == IF step[l] = "attached" THEN "resolve" ELSE "lost"

\* minecraft-exit of the watcher: the handler starts, and forgets the process
\* before anything it does asynchronously.
GameExit(l) ==
    /\ game[l] = "running"
    /\ game' = [game EXCEPT ![l] = "exited"]
    /\ IF step[l] = "dead" THEN exit' = exit /\ tracked' = tracked
       ELSE /\ exit' = [exit EXCEPT ![l] = ExitSeen(l)]
            /\ tracked' = IF step[l] = "attached" THEN tracked \ {l} ELSE tracked
    /\ UNCHANGED <<started, window, latest, ambiguous, met, beginVars, log, jobVars, diskVars, pending, troubles>>

\* A save changes: read at once, or when the game of the instance has ended.
SaveChanged ==
    /\ tracked # {} /\ ~pending
    /\ pending' = TRUE
    /\ UNCHANGED <<started, worldVars, processVars, beginVars, exitVars, jobVars, diskVars, troubles>>
-----------------------------------------------------------------------------
(***************************************************************************)
(* The exit handler and the operations of the store                        *)
(***************************************************************************)

\* resolveLaunchLog: latest.log was written since the start.  Which writes
\* after the end are within its two seconds is left open, and stat may fail.
Resolve(l) ==
    /\ exit[l] = "resolve"
    /\ exit' = [exit EXCEPT ![l] = "completing"]
    /\ \/ log' = log
       \/ l \notin ambiguous /\ latest.age >= l /\ log' = log \union {l}
    /\ jobs' = [jobs EXCEPT ![l] = Append(@, "complete")]
    /\ UNCHANGED <<started, worldVars, processVars, beginVars, held, failed, diskVars, pending, troubles>>

\* Mutant: operations on one launch run side by side.
AnyTurn(l, j) == \E i \in 1..Len(jobs[l]) : jobs[l][i] = j

\* update: an operation waits for those that came before it, failed or not.
Turn(l, j) == jobs[l] # <<>> /\ Head(jobs[l]) = j

\* Mutant: the handler stops when complete finds no record.
AfterRecord(l, j) == IF j = "complete" /\ history[l] # None THEN "report" ELSE exit[l]

\* The handler goes on when complete is done, whatever came of it.
AfterJob(l, j) == IF j = "complete" THEN "report" ELSE exit[l]

\* The operation has ended, well or not.
Ended(l, j) ==
    /\ jobs' = [jobs EXCEPT ![l] = Tail(@)]
    /\ held' = [held EXCEPT ![l] = [@ EXCEPT ![j] = None]]
    /\ exit' = [exit EXCEPT ![l] = AfterJob(l, j)]

JobRead(l, j) ==
    /\ Turn(l, j)
    /\ held[l][j] = None
    /\ IF history[l] = None THEN Ended(l, j)
       ELSE /\ held' = [held EXCEPT ![l] =
                            [@ EXCEPT ![j] = [record |-> history[l], copied |-> j = "ready"]]]
            /\ UNCHANGED <<jobs, exit>>
    /\ UNCHANGED <<started, worldVars, processVars, beginVars, log, failed, diskVars, pending, troubles>>

\* complete copies the log into the folder of the record, which must be there.
JobCopy(l) ==
    LET h == held[l]["complete"] IN
    /\ h # None /\ ~h.copied
    /\ IF l \in log
       THEN history[l] # None /\ archive' = [archive EXCEPT ![l] = latest.of]
       ELSE archive' = archive
    /\ held' = [held EXCEPT ![l] = [@ EXCEPT !["complete"] = [h EXCEPT !.copied = TRUE]]]
    /\ UNCHANGED <<started, worldVars, processVars, beginVars, exitVars, jobs, failed, history, pending, troubles>>

\* Mutant: a state that the records do not have.
Crashed(j, r) == IF j = "ready" THEN [r EXCEPT !.ready = TRUE] ELSE [r EXCEPT !.state = "crashed"]

\* markReady and complete set their fields of the record that was read.
Changed(j, r) == IF j = "ready" THEN [r EXCEPT !.ready = TRUE] ELSE [r EXCEPT !.state = "exited"]

\* The manifest is written, in a folder that is made again if need be.
JobWrite(l, j) ==
    LET h == held[l][j] IN
    /\ h # None /\ h.copied
    /\ history' = [history EXCEPT ![l] = Changed(j, h.record)]
    /\ Ended(l, j)
    /\ UNCHANGED <<started, worldVars, processVars, beginVars, log, failed, archive, pending, troubles>>

\* A copy or a write fails, for want of the folder or for another reason.
JobFails(l, j) ==
    /\ held[l][j] # None
    /\ \/ history[l] = None /\ ~held[l][j].copied /\ troubles' = troubles
       \/ Trouble
    /\ failed' = failed \union {l}
    /\ Ended(l, j)
    /\ UNCHANGED <<started, worldVars, processVars, beginVars, log, diskVars, pending>>

\* minecraft-exit of the service: its listeners read the saves that waited.
Report(l) ==
    /\ exit[l] = "report"
    /\ exit' = [exit EXCEPT ![l] = "reported"]
    /\ pending' = FALSE
    /\ UNCHANGED <<started, worldVars, processVars, beginVars, log, jobVars, diskVars, troubles>>

\* The launcher ends and is started again; the games go on without it.
Restart ==
    /\ Trouble
    /\ tracked' = {}
    /\ step' = [l \in Launches |-> IF step[l] = "none" THEN "none" ELSE "dead"]
    /\ doomed' = [l \in Launches |-> {}]
    /\ exit' = [l \in Launches |-> IF exit[l] \in {"no", "reported"} THEN exit[l] ELSE "cut"]
    /\ jobs' = [l \in Launches |-> <<>>]
    /\ held' = [l \in Launches |-> [j \in Jobs |-> None]]
    /\ failed' = failed \union {l \in Launches : jobs[l] # <<>>}
    /\ pending' = FALSE
    /\ UNCHANGED <<started, worldVars, ambiguous, met, log, diskVars>>

Handler(l) ==
    \/ BeginWrite(l)
    \/ PruneList(l)
    \/ \E d \in doomed[l] : PruneRemove(l, d)
    \/ Attach(l)
    \/ Resolve(l)
    \/ \E j \in Jobs : JobRead(l, j)
    \/ JobCopy(l)
    \/ \E j \in Jobs : JobWrite(l, j)
    \/ \E j \in Jobs : JobFails(l, j)
    \/ Report(l)

Next ==
    \/ Spawn
    \/ \E l \in Launches :
        \/ Handler(l)
        \/ BeginFails(l)
        \/ \E d \in doomed[l] : PruneFails(l, d)
        \/ Kill(l)
        \/ GameLog(l)
        \/ WindowReady(l)
        \/ GameExit(l)
    \/ SaveChanged
    \/ Restart

\* The event loop runs every continuation in the end, and the disk answers.
Spec == Init /\ [][Next]_vars /\ \A l \in Launches : WF_vars(Handler(l))
-----------------------------------------------------------------------------
TypeOK ==
    /\ started \in 0..MaxLaunches
    /\ game \in [Launches -> {"none", "running", "exited"}]
    /\ window \in [Launches -> {"no", "seen", "missed"}]
    /\ latest \in [of : Launches \union {None}, age : 0..MaxLaunches]
    /\ tracked \in SUBSET (1..started)
    /\ ambiguous \in SUBSET (1..started)
    /\ step \in [Launches -> {"none", "write", "list", "prune", "attach", "attached", "dead"}]
    /\ doomed \in [Launches -> SUBSET Launches]
    /\ exit \in [Launches -> {"no", "lost", "resolve", "completing", "report", "reported", "cut"}]
    /\ log \in SUBSET Launches
    /\ jobs \in [Launches -> JobQueues]
    /\ held \in [Launches -> [Jobs -> Held \union {None}]]
    /\ failed \in SUBSET Launches
    /\ history \in [Launches -> Records \union {None}]
    /\ archive \in [Launches -> Launches \union {None}]
    /\ met \in SUBSET (Launches \X Launches)
    /\ pending \in BOOLEAN
    /\ troubles \in 0..MaxTroubles

\* The log kept for a launch is never that of a game that was tracked at the
\* same time (gameLogAmbiguous): whatever the order in which they start, write
\* latest.log, exit and are archived.  A game that was killed before the other
\* was launched, or launched after the other's exit, is not covered.
OwnGameLog ==
    \A l, m \in Launches : archive[l] = m => <<l, m>> \notin met

\* prune removes a record only if there are Kept newer ones on the disk, also
\* when the prunes of several launches and late rewrites of records overlap.
HistoryKept ==
    [][\A l \in Recorded : history'[l] = None => Cardinality(Newer(l)) >= Kept]_vars

\* Once the exit is reported and no operation is under way, the record, if
\* there is one, says that the game has ended, and that it was ready if its
\* window was seen, unless an operation failed: the operations of a launch do
\* not overwrite each other (LaunchHistoryStore.update).
RecordTrue ==
    \A l \in Launches :
        (exit[l] = "reported" /\ jobs[l] = <<>> /\ history[l] # None /\ l \notin failed) =>
            history[l] = [state |-> "exited", ready |-> window[l] = "seen"]

\* A save that waits for the end of the game does not wait in vain: a game
\* runs whose exit can still be reported, or it is being reported.  Only the
\* games whose exit came before the launcher listened can make it wait for ever.
SavesFlushed ==
    pending =>
        \E l \in Launches :
            \/ game[l] = "running" /\ step[l] \notin {"none", "dead"}
            \/ exit[l] \in {"lost", "resolve", "completing", "report"}

\* The exit of every game is reported, unless it came before the launcher
\* listened or the launcher was restarted.
ExitReported ==
    \A l \in Launches :
        game[l] = "exited" ~> (exit[l] \in {"reported", "lost"} \/ step[l] = "dead")
=============================================================================
