----------------------------- MODULE WorkerStatus -----------------------------
(***************************************************************************)
(* The badge that says whether a worker listens on the pyats queue, with   *)
(* its cache.  Source: worker_status.py; every page of the plugin that     *)
(* starts a job calls get_worker_status.                                   *)
(*                                                                         *)
(* A request reads the cache, then asks Redis, then writes the cache; web  *)
(* processes do so side by side, each step at a later time if it must be.  *)
(* Time is in ticks, of which TTL make the 15 seconds.                     *)
(***************************************************************************)
EXTENDS Naturals

CONSTANTS
  Pages,       \* requests for a page, at a time
  NoEntry,     \* no cached status
  NoBadge,     \* no badge shown yet
  TTL,         \* _WORKER_STATUS_TTL
  MaxDelay,    \* the time a request takes at most
  MaxTime,     \* the time at which the model ends
  MaxWorkers   \* how many workers are registered at most

ASSUME StatusAssumption ==
  /\ TTL \in Nat \ {0}
  /\ {MaxDelay, MaxTime, MaxWorkers} \subseteq Nat

VARIABLES
  time,     \* now
  workers,  \* workers registered on the queue
  redis,    \* what Redis answers: all, the ping only, nothing
  cache,    \* whether the Django cache is up
  entry,    \* what is cached, and since when
  request,  \* the requests in progress
  badge,    \* the badge shown last, and how long ago it was true
  seen      \* for each status, when it was true last

statusVars == <<time, workers, redis, cache, entry, request, badge, seen>>

Entries == [online: BOOLEAN, at: Nat]
Idle == [pc |-> "idle", online |-> FALSE, at |-> 0]

StatusInit ==
  /\ time = TTL + MaxDelay
  /\ workers = 0
  /\ redis = "all"
  /\ cache = "up"
  /\ entry = NoEntry
  /\ request = [p \in Pages |-> Idle]
  /\ badge = NoBadge
  /\ seen = [online \in BOOLEAN |-> IF online THEN 0 ELSE time]
-----------------------------------------------------------------------------
(* The world around *)

\* _check_worker_status: no connection and a failing count are offline too.
CheckWorkerStatus(r, n) == r = "all" /\ n > 0

\* seen follows the true status.
Observe == seen' = [seen EXCEPT ![CheckWorkerStatus(redis', workers')] = time']

WorkersChange ==
  /\ workers' \in 0..MaxWorkers
  /\ UNCHANGED <<time, redis, cache, entry, request, badge>>
  /\ Observe

RedisChanges ==
  /\ redis' \in {"all", "ping", "nothing"}
  /\ UNCHANGED <<time, workers, cache, entry, request, badge>>
  /\ Observe

\* A cache that comes back may have lost its entry.
CacheChanges ==
  /\ cache' \in {"up", "down"}
  /\ entry' \in {entry, NoEntry}
  /\ UNCHANGED <<time, workers, redis, request, badge, seen>>

Tick ==
  /\ time < MaxTime
  /\ \A p \in Pages : request[p].pc # "idle" => time < request[p].at + MaxDelay
  /\ time' = time + 1
  /\ UNCHANGED <<workers, redis, cache, entry, request, badge>>
  /\ Observe
-----------------------------------------------------------------------------
(* get_worker_status *)

Show(online) == badge' = [online |-> online, age |-> time - seen[online]]

CachedForever == cache = "up" /\ entry # NoEntry

\* The cache answers, and its answer has not expired.
Cached == cache = "up" /\ entry # NoEntry /\ time < entry.at + TTL

ShowCached(p) ==
  /\ request[p].pc = "idle"
  /\ Cached
  /\ Show(entry.online)
  /\ UNCHANGED <<time, workers, redis, cache, entry, request, seen>>

\* A cache that is down raises, and the page with it: there is no badge.
CacheGetRaises(p) ==
  /\ request[p].pc = "idle"
  /\ cache = "down"
  /\ badge' = NoBadge
  /\ UNCHANGED <<time, workers, redis, cache, entry, request, seen>>

Check(p) ==
  /\ request[p].pc = "idle"
  /\ cache = "up"
  /\ ~Cached
  /\ request' = [request EXCEPT ![p] =
       [pc |-> "checked", online |-> CheckWorkerStatus(redis, workers), at |-> time]]
  /\ UNCHANGED <<time, workers, redis, cache, entry, badge, seen>>

\* The result is cached, unless that fails, and shown.
StoreAndShow(p) ==
  /\ request[p].pc = "checked"
  /\ entry' = IF cache = "up" THEN [online |-> request[p].online, at |-> time] ELSE entry
  /\ Show(request[p].online)
  /\ request' = [request EXCEPT ![p] = Idle]
  /\ UNCHANGED <<time, workers, redis, cache, seen>>

StatusNext ==
  \/ WorkersChange \/ RedisChanges \/ CacheChanges \/ Tick
  \/ \E p \in Pages : ShowCached(p) \/ CacheGetRaises(p) \/ Check(p) \/ StoreAndShow(p)
-----------------------------------------------------------------------------
(* Properties *)

\* What the badge says was true at most TTL ago, give or take the time of one
\* request, also when requests overtake each other on their way to the cache.
BadgeIsRecent == badge # NoBadge => badge.age <= TTL + MaxDelay
=============================================================================
