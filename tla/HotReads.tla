------------------------------ MODULE HotReads ------------------------------
(***************************************************************************)
(* The versioned cache of one scope in Redis, read and aged by requests of *)
(* several API processes, each behind its own circuit breaker.             *)
(*                                                                         *)
(* A read takes the scope's version and looks for an entry under it; when  *)
(* it finds none it reads the database, takes the version anew and stores  *)
(* what it read under that one. A write commits and bumps the version, or  *)
(* bumps first and commits when its request ends (void, return, the        *)
(* accounting routes). Every Redis command is awaited, so requests         *)
(* interleave at each of them, and a request may be cancelled there.       *)
(*                                                                         *)
(* Sources: common/scope_cache.py, core/redis_client.py,                   *)
(* core/dependencies.py, sales/routes.py, middleware/timeout.py.           *)
(***************************************************************************)
EXTENDS Integers, FiniteSets

CONSTANTS
  Task,      \* requests
  Proc,      \* API processes
  Threshold, \* consecutive failures that open a breaker
  MaxFaults  \* bound on Redis outages and cancelled requests

ASSUME HotReadsAssumption ==
  /\ IsFiniteSet(Task)
  /\ Threshold \in Nat \ {0}
  /\ MaxFaults \in Nat

VARIABLES
  db,      \* commits so far, which is also the value of the data
  settled, \* the value of the last commit whose bump succeeded too
  ver,     \* version of the scope
  cache,   \* entry under each version, None without one
  up,      \* Redis answers
  breaker, \* of each process: [fails, state, probe]
  task,    \* of each request: see Request
  early,   \* a version was bumped before its commit
  slow,    \* a value was stored under a version bumped since it was read
  leaked,  \* processes where a cancelled request held the probe
  faults

readsVars == <<db, settled, ver, cache, up, breaker, task, early, slow, leaked, faults>>

None    == -1
Version == 0 .. Cardinality(Task)
Value   == None .. Cardinality(Task)
Command == {"version", "entry", "again", "store", "bump", "bump first"}
Step    == {"ready", "fetch", "commit", "commit last", "done", "cancelled"} \cup Command

\* A request: the step it is at, its process, whether its command is on the
\* way and as the breaker's probe, the client it was given, the version and the
\* value it holds, the version when it read the database, and what was settled
\* when it began.
Request == [at : Step, home : Proc, sent : BOOLEAN, probing : BOOLEAN,
            client : BOOLEAN, ver : Version, val : Value, since : Version,
            floor : Value]

Closed == [fails |-> 0, state |-> "closed", probe |-> FALSE]

ReadsInit ==
  /\ db = 0 /\ settled = 0 /\ ver = 0
  /\ cache = [v \in Version |-> None]
  /\ up = TRUE
  /\ breaker = [p \in Proc |-> Closed]
  /\ task \in [Task -> [at : {"ready"}, home : Proc, sent : {FALSE},
                        probing : {FALSE}, client : {FALSE}, ver : {0},
                        val : {None}, since : {0}, floor : {0}]]
  /\ early = FALSE /\ slow = FALSE /\ leaked = {} /\ faults = 0

redisVars == <<ver, cache>>
ghosts    == <<early, slow, leaked>>

Of(t) == breaker[task[t].home]

\* The command is over, or was not sent, and the request goes on at a step.
On(r, step) == [r EXCEPT !.at = step, !.sent = FALSE, !.probing = FALSE]

-----------------------------------------------------------------------------
(* The breaker.                                                            *)

\* get_cache_redis hands out no client while the breaker is open.
HasClient(b) == b.state # "open"

\* _breaker_allows: closed, or half-open without a probe under way.
Allows(b) == b.state = "closed" \/ (b.state = "half-open" /\ ~b.probe)

\* _record_success.
Succeeded(b) == Closed

\* Mutation of Failed: the probe stays marked.
FailedProbing(b) ==
  LET n == IF b.fails < Threshold THEN b.fails + 1 ELSE b.fails IN
  [fails |-> n, state |-> IF n >= Threshold \/ b.state # "closed" THEN "open" ELSE "closed",
   probe |-> b.probe]

\* _record_failure; the count is kept up to the threshold.
Failed(b) ==
  LET n == IF b.fails < Threshold THEN b.fails + 1 ELSE b.fails IN
  [fails |-> n, state |-> IF n >= Threshold \/ b.state # "closed" THEN "open" ELSE "closed",
   probe |-> FALSE]

\* BREAKER_RESET_SECONDS pass: by then the commands that were on the way have
\* been answered or timed out, which takes two seconds.
Elapse(p) ==
  /\ breaker[p].state = "open"
  /\ \A t \in Task : task[t].home = p => ~task[t].sent
  /\ breaker' = [breaker EXCEPT ![p].state = "half-open"]
  /\ UNCHANGED <<db, settled, redisVars, up, task, ghosts, faults>>

-----------------------------------------------------------------------------
(* The requests.                                                           *)

\* A read, a write that bumps after its commit, a write that bumps before it.
\* Without a client a read goes to the database and a bump is skipped.
Serve(t, step) ==
  LET some == HasClient(Of(t)) IN
  /\ task[t].at = "ready"
  /\ task' = [task EXCEPT ![t].at = IF step = "version" /\ ~some THEN "fetch" ELSE step,
                          ![t].client = some, ![t].floor = settled]
  /\ UNCHANGED <<db, settled, redisVars, up, breaker, ghosts, faults>>

\* The database: a read takes the value, a write commits its own.
Fetch(t) ==
  LET r == task[t] IN
  /\ r.at = "fetch"
  /\ task' = [task EXCEPT ![t] =
       [r EXCEPT !.val = db, !.since = ver, !.at = IF r.client THEN "again" ELSE "done"]]
  /\ UNCHANGED <<db, settled, redisVars, up, breaker, ghosts, faults>>

CommitFirst(t) ==
  /\ task[t].at = "commit"
  /\ db' = db + 1
  /\ task' = [task EXCEPT ![t].at = IF HasClient(Of(t)) THEN "bump" ELSE "done"]
  /\ UNCHANGED <<settled, redisVars, up, breaker, ghosts, faults>>

CommitLast(t) ==
  /\ task[t].at = "commit last"
  /\ db' = db + 1
  /\ settled' = IF task[t].client THEN db' ELSE settled
  /\ task' = [task EXCEPT ![t].at = "done"]
  /\ UNCHANGED <<redisVars, up, breaker, ghosts, faults>>

\* A command passes the breaker, as its probe when it is half-open.
Send(t) ==
  LET r == task[t] IN
  /\ r.at \in Command /\ ~r.sent /\ Allows(Of(t))
  /\ task' = [task EXCEPT ![t].sent = TRUE, ![t].probing = Of(t).state = "half-open"]
  /\ breaker' = [breaker EXCEPT ![r.home].probe = @ \/ Of(t).state = "half-open"]
  /\ UNCHANGED <<db, settled, redisVars, up, ghosts, faults>>

\* Where a request goes when its command fails: to the database, or on without
\* the cache.
Without(r) ==
  IF r.at \in {"version", "entry"} THEN On(r, "fetch")
  ELSE IF r.at = "bump first" THEN [On(r, "commit last") EXCEPT !.client = FALSE]
  ELSE On(r, "done")

\* The breaker refuses a command.
Refuse(t) ==
  LET r == task[t] IN
  /\ r.at \in Command /\ ~r.sent /\ ~Allows(Of(t))
  /\ task' = [task EXCEPT ![t] = Without(r)]
  /\ UNCHANGED <<db, settled, redisVars, up, breaker, ghosts, faults>>

\* A command is not answered.
Error(t) ==
  LET r == task[t] IN
  /\ r.sent /\ ~up
  /\ breaker' = [breaker EXCEPT ![r.home] = Failed(@)]
  /\ task' = [task EXCEPT ![t] = Without(r)]
  /\ UNCHANGED <<db, settled, redisVars, up, ghosts, faults>>

\* A command of a step is answered, and its process's breaker hears of it.
Answered(t, step) ==
  /\ task[t].at = step /\ task[t].sent /\ up
  /\ breaker' = [breaker EXCEPT ![task[t].home] = Succeeded(@)]
  /\ UNCHANGED <<db, up, leaked, faults>>

GetVersion(t) ==
  /\ Answered(t, "version")
  /\ task' = [task EXCEPT ![t] = [On(@, "entry") EXCEPT !.ver = ver]]
  /\ UNCHANGED <<settled, redisVars, early, slow>>

GetEntry(t) ==
  LET found == cache[task[t].ver] IN
  /\ Answered(t, "entry")
  /\ task' = [task EXCEPT ![t] =
       IF found = None THEN On(@, "fetch") ELSE [On(@, "done") EXCEPT !.val = found]]
  /\ UNCHANGED <<settled, redisVars, early, slow>>

\* "re-read after a slow DB trip: a write can bump meanwhile."
GetVersionAgain(t) ==
  /\ Answered(t, "again")
  /\ task' = [task EXCEPT ![t] = [On(@, "store") EXCEPT !.ver = ver]]
  /\ slow' = (slow \/ ver # task[t].since)
  /\ UNCHANGED <<settled, redisVars, early>>

Store(t) ==
  /\ Answered(t, "store")
  /\ cache' = [cache EXCEPT ![task[t].ver] = task[t].val]
  /\ task' = [task EXCEPT ![t] = On(@, "done")]
  /\ UNCHANGED <<settled, ver, early, slow>>

\* Mutation of Bumped: the version is set, not incremented.
BumpedNever(v) == v

\* INCR.
Bumped(v) == v + 1

Bump(t) ==
  /\ Answered(t, "bump")
  /\ ver' = Bumped(ver)
  /\ settled' = db
  /\ task' = [task EXCEPT ![t] = On(@, "done")]
  /\ UNCHANGED <<cache, early, slow>>

BumpFirst(t) ==
  /\ Answered(t, "bump first")
  /\ ver' = Bumped(ver)
  /\ early' = TRUE
  /\ task' = [task EXCEPT ![t] = On(@, "commit last")]
  /\ UNCHANGED <<settled, cache, slow>>

\* The request is cancelled at a command (the client left, or the 30 seconds of
\* the timeout middleware are over): CancelledError passes both handlers of the
\* guard, so the breaker hears nothing.
Cancel(t) ==
  LET r == task[t] IN
  /\ r.sent /\ faults < MaxFaults
  /\ faults' = faults + 1
  /\ task' = [task EXCEPT ![t] = On(r, "cancelled")]
  /\ leaked' = IF r.probing THEN leaked \cup {r.home} ELSE leaked
  /\ UNCHANGED <<db, settled, redisVars, up, breaker, early, slow>>

\* An entry's TTL is over.
Expire(v) ==
  /\ cache[v] # None
  /\ cache' = [cache EXCEPT ![v] = None]
  /\ UNCHANGED <<db, settled, ver, up, breaker, task, ghosts, faults>>

Fall ==
  /\ up /\ faults < MaxFaults
  /\ up' = FALSE
  /\ faults' = faults + 1
  /\ UNCHANGED <<db, settled, redisVars, breaker, task, ghosts>>

Rise ==
  /\ ~up /\ up' = TRUE
  /\ UNCHANGED <<db, settled, redisVars, breaker, task, ghosts, faults>>

ReadsNext ==
  \/ \E t \in Task :
       \/ \E step \in {"version", "commit", "bump first"} : Serve(t, step)
       \/ Fetch(t) \/ CommitFirst(t) \/ CommitLast(t)
       \/ Send(t) \/ Refuse(t) \/ Error(t) \/ Cancel(t)
       \/ GetVersion(t) \/ GetEntry(t) \/ GetVersionAgain(t) \/ Store(t)
       \/ Bump(t) \/ BumpFirst(t)
  \/ \E p \in Proc : Elapse(p)
  \/ \E v \in Version : Expire(v)
  \/ Fall \/ Rise

ReadsSpec == ReadsInit /\ [][ReadsNext]_readsVars

-----------------------------------------------------------------------------
(* What readers and breakers may rely on.                                  *)

\* The kinds of values; a probe is marked only while its breaker is not closed.
ReadsTypeOK ==
  /\ db \in Version /\ settled \in Version /\ ver \in Version
  /\ cache \in [Version -> Value]
  /\ up \in BOOLEAN
  /\ breaker \in [Proc -> [fails : 0 .. Threshold, state : {"closed", "open", "half-open"},
                           probe : BOOLEAN]]
  /\ \A p \in Proc : breaker[p].probe => breaker[p].state = "half-open"
  /\ task \in [Task -> Request]
  /\ early \in BOOLEAN /\ slow \in BOOLEAN /\ leaked \subseteq Proc
  /\ faults \in 0 .. MaxFaults

\* A read returns at least what was settled when it began, unless some write
\* bumped the version before its commit or some read stored a value that a bump
\* had overtaken (scope_cache.py, scope_read; sales/routes.py, void_sale).
ReadsAreFresh ==
  early \/ slow \/
    \A t \in Task : task[t].at = "done" /\ task[t].val # None => task[t].val >= task[t].floor

\* A breaker that refuses everybody waits for a probe under way: none is marked
\* without one, unless its request was cancelled ("everyone else fails fast
\* until that probe succeeds or re-opens the breaker", redis_client.py).
ProbeIsUnderWay ==
  \A p \in Proc \ leaked :
    breaker[p].probe => \E t \in Task : task[t].home = p /\ task[t].probing
=============================================================================
