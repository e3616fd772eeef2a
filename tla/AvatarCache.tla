----------------------------- MODULE AvatarCache -----------------------------
(***************************************************************************)
(* Opponents' photos (services/opponent_avatar.py, routers/rooms.py).      *)
(* Viewers of one API process share a bounded cache and the downloads that *)
(* fill it.  A download waits for one of two slots, has five seconds in    *)
(* all, and outlives the viewer that started it; Telegram may answer,      *)
(* fail, hang, or ask for a pause.  Time is counted down: an entry, a      *)
(* window or a pause says how long it still lasts.                         *)
(***************************************************************************)
EXTENDS Integers, Sequences, FiniteSets, SequencesExt

CONSTANTS
    Player,         \* whose photo is shown
    Viewer,         \* who looks, one request each
    Task,           \* asyncio tasks
    NoPlayer, NoTask,
    Slots,          \* downloads at a time: Semaphore(2)
    MaxCache,       \* entries: 64
    Lifetimes,      \* of entries: photo 3600, no photo 300, failure 30
    FailureTime,    \* the one of a failure
    Pauses,         \* what a 429 of Telegram asks for
    LoadTime,       \* asyncio.timeout(5)
    Window,         \* 60 seconds
    LoadLimit,      \* downloads started in a window: 60
    ViewLimit,      \* requests of a viewer in a window: 30
    MaxViewers      \* viewers counted at a time: 4096

ASSUME LimitsArePositive ==
    /\ {Slots, MaxCache, LoadTime, Window, LoadLimit, ViewLimit, MaxViewers} \subseteq Nat \ {0}
    /\ FailureTime \in Lifetimes
    /\ Lifetimes \cup Pauses \subseteq Nat \ {0}
    /\ NoPlayer \notin Player /\ NoTask \notin Task

VARIABLES
    cache,      \* entries, the least recently used first
    inflight,   \* the task that loads a player's photo
    task,
    loads,      \* downloads started in the window
    views,      \* requests of each viewer in the window
    blocked,    \* the rest of the pause Telegram asked for
    viewer      \* where the request of each viewer is

vars == <<cache, inflight, task, loads, views, blocked, viewer>>

NoWork == [pc |-> "none", player |-> NoPlayer, left |-> 0]
Away == [pc |-> "away", player |-> NoPlayer, task |-> NoTask]

Init ==
    /\ cache = <<>>
    /\ inflight = [p \in Player |-> NoTask]
    /\ task = [t \in Task |-> NoWork]
    /\ loads = <<>>
    /\ views = [v \in Viewer |-> <<>>]
    /\ blocked = 0
    /\ viewer = [v \in Viewer |-> Away]

-----------------------------------------------------------------------------
\* check_viewer: not too many viewers, and not too many requests of this one.
Check(v, p) ==
    /\ viewer[v].pc = "away"
    /\ views[v] = <<>> => Cardinality({w \in Viewer : views[w] # <<>>}) < MaxViewers
    /\ Len(views[v]) < ViewLimit
    /\ views' = [views EXCEPT ![v] = Append(@, Window)]
    /\ viewer' = [viewer EXCEPT ![v] = [pc |-> "checked", player |-> p, task |-> NoTask]]
    /\ UNCHANGED <<cache, inflight, task, loads, blocked>>

\* The cache without the entry of p, if there is one.
Others(p) ==
    IF \E i \in DOMAIN cache : cache[i].player = p
    THEN RemoveAt(cache, CHOOSE i \in DOMAIN cache : cache[i].player = p)
    ELSE cache

Fresh(p) == \E i \in DOMAIN cache : cache[i].player = p /\ cache[i].left > 0

\* get finds a fresh entry, which becomes the most recently used one.
Hit(v) ==
    LET p == viewer[v].player IN
    /\ viewer[v].pc = "checked"
    /\ \E i \in DOMAIN cache :
          /\ cache[i].player = p /\ cache[i].left > 0
          /\ cache' = Append(Others(p), cache[i])
    /\ viewer' = [viewer EXCEPT ![v] = Away]
    /\ UNCHANGED <<inflight, task, loads, views, blocked>>

\* get finds the photo being loaded and waits for it, too.
Share(v) ==
    LET p == viewer[v].player IN
    /\ viewer[v].pc = "checked"
    /\ ~Fresh(p)
    /\ inflight[p] # NoTask
    /\ viewer' = [viewer EXCEPT ![v].pc = "waiting", ![v].task = inflight[p]]
    /\ UNCHANGED <<cache, inflight, task, loads, views, blocked>>

\* Mutant: the viewer looks only at the cache.
NotLoadedYet(p) == ~Fresh(p)

Missing(p) == ~Fresh(p) /\ inflight[p] = NoTask

\* get may not start a download now: a pause, or too many of them.
TurnAway(v) ==
    /\ viewer[v].pc = "checked"
    /\ Missing(viewer[v].player)
    /\ blocked > 0 \/ Len(loads) >= LoadLimit
    /\ viewer' = [viewer EXCEPT ![v] = Away]
    /\ UNCHANGED <<cache, inflight, task, loads, views, blocked>>

\* get starts a download of its own and waits for it.
Start(v, t) ==
    LET p == viewer[v].player IN
    /\ viewer[v].pc = "checked"
    /\ Missing(p)
    /\ blocked = 0 /\ Len(loads) < LoadLimit
    /\ task[t] = NoWork
    /\ loads' = Append(loads, Window)
    /\ task' = [task EXCEPT ![t] = [pc |-> "queued", player |-> p, left |-> LoadTime]]
    /\ inflight' = [inflight EXCEPT ![p] = t]
    /\ viewer' = [viewer EXCEPT ![v].pc = "waiting", ![v].task = t]
    /\ UNCHANGED <<cache, views, blocked>>

\* The viewer hangs up, or sits at a table without an opponent: the download it
\* started goes on (shield).
Leave(v) ==
    /\ viewer[v].pc # "away"
    /\ viewer' = [viewer EXCEPT ![v] = Away]
    /\ UNCHANGED <<cache, inflight, task, loads, views, blocked>>

-----------------------------------------------------------------------------
(***************************************************************************)
(* _load_cached.                                                           *)
(***************************************************************************)

\* A slot of the semaphore is free.
Acquire(t) ==
    /\ task[t].pc = "queued"
    /\ Cardinality({u \in Task : task[u].pc = "loading"}) < Slots
    /\ task' = [task EXCEPT ![t].pc = "loading"]
    /\ UNCHANGED <<cache, inflight, loads, views, blocked, viewer>>

\* The cache after an outcome for p, trimmed at the end that was used longest ago.
Remembered(p, lifetime) ==
    LET all == Append(Others(p), [player |-> p, left |-> lifetime])
    IN  IF Len(all) > MaxCache THEN SubSeq(all, 1 + Len(all) - MaxCache, Len(all)) ELSE all

\* The task has an outcome that is kept for so long; its callbacks are due.
Done(t, lifetime) ==
    /\ cache' = Remembered(task[t].player, lifetime)
    /\ task' = [task EXCEPT ![t].pc = "done"]
    /\ UNCHANGED <<inflight, loads, views, viewer>>

\* A photo, no photo, or a failure.
Download(t) ==
    /\ task[t].pc = "loading"
    /\ \E lifetime \in Lifetimes : Done(t, lifetime)
    /\ UNCHANGED blocked

\* Mutant: the last pause asked for counts.
LastPause(pause) == pause

\* Of several pauses the one that ends last counts.
Longer(pause) == IF pause > blocked THEN pause ELSE blocked

\* Telegram answers 429: no downloads for a while.
AskedToPause(t) ==
    /\ task[t].pc = "loading"
    /\ \E pause \in Pauses : /\ blocked' = Longer(pause)
                             /\ Done(t, pause)

\* Mutant: nothing ends a download that hangs.
NeverOverdue(t) == FALSE

\* Five seconds are over, whether they were spent waiting or loading.
Overdue(t) == task[t].pc \in {"queued", "loading"} /\ task[t].left = 0

TimeOut(t) ==
    /\ Overdue(t)
    /\ Done(t, FailureTime)
    /\ UNCHANGED blocked

\* The callbacks of a task: it is no longer in flight, and its viewers are answered.
Wake(t) ==
    /\ task[t].pc = "done"
    /\ inflight' = [inflight EXCEPT ![task[t].player] = NoTask]
    /\ task' = [task EXCEPT ![t] = NoWork]
    /\ viewer' = [v \in Viewer |-> IF viewer[v].pc = "waiting" /\ viewer[v].task = t
                                   THEN Away ELSE viewer[v]]
    /\ UNCHANGED <<cache, loads, views, blocked>>

\* aclose and a new process: all of this is in memory only.
Restart ==
    /\ vars # <<<<>>, [p \in Player |-> NoTask], [t \in Task |-> NoWork], <<>>,
                [v \in Viewer |-> <<>>], 0, [v \in Viewer |-> Away]>>
    /\ cache' = <<>> /\ loads' = <<>> /\ blocked' = 0
    /\ inflight' = [p \in Player |-> NoTask]
    /\ task' = [t \in Task |-> NoWork]
    /\ views' = [v \in Viewer |-> <<>>]
    /\ viewer' = [v \in Viewer |-> Away]

Shorter(n) == IF n > 0 THEN n - 1 ELSE 0

\* What has left the window is in front.  The code drops it when it next looks, and looks
\* before it counts.
Recent(window) ==
    LET gone == Cardinality({i \in DOMAIN window : window[i] = 1})
    IN  [i \in 1..(Len(window) - gone) |-> window[gone + i] - 1]

Tick ==
    /\ cache' = [i \in DOMAIN cache |-> [cache[i] EXCEPT !.left = Shorter(@)]]
    /\ task' = [t \in Task |-> [task[t] EXCEPT !.left = Shorter(@)]]
    /\ loads' = Recent(loads)
    /\ views' = [v \in Viewer |-> Recent(views[v])]
    /\ blocked' = Shorter(blocked)
    /\ UNCHANGED <<inflight, viewer>>

Get(v) == Hit(v) \/ Share(v) \/ TurnAway(v) \/ \E t \in Task : Start(v, t)

Next ==
    \/ \E v \in Viewer : (\E p \in Player : Check(v, p)) \/ Get(v) \/ Leave(v)
    \/ \E t \in Task : Acquire(t) \/ Download(t) \/ AskedToPause(t) \/ TimeOut(t) \/ Wake(t)
    \/ Restart
    \/ Tick

Spec == Init /\ [][Next]_vars

\* The event loop runs what is ready, timers go off, time passes.  Telegram need not
\* ever answer, and nobody has to look.
Fairness ==
    /\ WF_vars(Tick)
    /\ \A t \in Task : WF_vars(TimeOut(t)) /\ WF_vars(Wake(t))
    /\ \A v \in Viewer : WF_vars(Get(v))

FairSpec == Spec /\ Fairness

-----------------------------------------------------------------------------
Left == UNION {0..n : n \in Lifetimes \cup Pauses}

TypeOK ==
    /\ cache \in Seq([player : Player, left : Left])
    /\ inflight \in [Player -> Task \cup {NoTask}]
    /\ task \in [Task -> [pc : {"none", "queued", "loading", "done"},
                          player : Player \cup {NoPlayer}, left : 0..LoadTime]]
    /\ loads \in Seq(1..Window) /\ Len(loads) <= LoadLimit
    /\ views \in [Viewer -> Seq(1..Window)]
    /\ blocked \in Left
    /\ viewer \in [Viewer -> [pc : {"away", "checked", "waiting"},
                              player : Player \cup {NoPlayer}, task : Task \cup {NoTask}]]

\* Viewers of one photo share one download, whoever of them hangs up: a task is known
\* under its player until it has called back, nobody waits for a task that is gone, and
\* neither the downloads nor the memory exceed their limits.
LoadsAreShared ==
    /\ TypeOK
    /\ \A t \in Task : task[t].pc # "none" => inflight[task[t].player] = t
    /\ \A p \in Player : inflight[p] # NoTask => task[inflight[p]].player = p
    /\ \A v \in Viewer : viewer[v].pc = "waiting" => task[viewer[v].task].player = viewer[v].player
    /\ Cardinality({t \in Task : task[t].pc = "loading"}) <= Slots
    /\ Len(cache) <= MaxCache
    /\ \A i, j \in DOMAIN cache : cache[i].player = cache[j].player => i = j

\* A pause that Telegram asked for is kept to its end: no other answer shortens it, and
\* no viewer starts a download while it lasts.  Only a new process knows nothing of it.
PausesAreKept ==
    [][blocked > 0 =>
          \/ Restart
          \/ /\ blocked' >= blocked - 1
             /\ blocked' < blocked => Tick
             /\ \A t \in Task : task'[t].pc # "none" => task[t].pc # "none"]_vars

\* Every viewer is answered, even when Telegram never is heard of again, the slots are
\* taken, or the viewer that started the download has gone.
EveryViewerIsAnswered == \A v \in Viewer : viewer[v].pc # "away" ~> viewer[v].pc = "away"
=============================================================================
