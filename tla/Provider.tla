------------------------------ MODULE Provider ------------------------------
(* A provider whose proxies or rules come from a vehicle: Fetcher
   (providers/fetcher.rs), ProxySetProvider and HealthCheck.

   Three kinds of callers bring new content: `initialize' once, the pull loop it
   spawns, and PUT /providers/proxies/:name.  Each takes the write lock of the
   Fetcher, reads the vehicle, stores file and hash, releases the lock and only
   then applies the content to the provider and its health check.  A request is
   dropped at any wait when its client goes away.

   Contents are numbered, and Bad does not parse.  A RuleProviderImpl
   is the same without the health check. *)
EXTENDS Naturals

CONSTANTS
    Requests,     \* API requests to update the provider
    MaxContent,   \* bound: contents the vehicle shows
    None, NotYet

Bad == 0
Contents == 0 .. MaxContent
Updaters == Requests \cup {"pull"}
Procs == Updaters \cup {"init"}

ASSUME ProviderAssumption ==
    /\ MaxContent \in Nat \ {0}
    /\ None \notin Nat /\ NotYet \notin Nat \cup {None}
    /\ {"init", "pull"} \cap Requests = {}

VARIABLES
    http, pulls,   \* an Http vehicle (or File); a non-zero interval
    remote,        \* what the vehicle shows, None when it cannot be read
    file,          \* the local copy of an Http vehicle
    hash,          \* the content whose md5 is in Inner
    writer,        \* who holds the write lock of the Fetcher's Inner
    stalled,       \* the read it waits for will never end
    pc,
    got,           \* the parsed content a caller is about to apply
    applying,      \* who holds the write lock of the provider's Inner
    served,        \* proxies of the provider
    checked,       \* proxies of its health check
    pending,       \* spawned checks that have not run yet
    kicked,        \* the list kick_off captured for the periodic check
    tested,        \* contents whose proxies were tested
    fresh,         \* history: who stored the newest content
    muddled        \* history: the newest content was dropped, or replaced by older

fetchVars == <<file, hash, writer, stalled, got, fresh>>
listVars == <<applying, served, checked, muddled>>
healthVars == <<pending, kicked, tested>>
vars == <<http, pulls, remote, pc, fetchVars, listVars, healthVars>>

\* A type invariant: a lock is held by a caller that is where it needs it.
TypeOK ==
    /\ http \in BOOLEAN /\ pulls \in BOOLEAN
    /\ remote \in Contents \cup {None} /\ file \in Contents \cup {None}
    /\ hash \in Contents \cup {None}
    /\ pc \in [Procs -> {"off", "idle", "fetch", "reread", "handle", "apply", "hc", "done"}]
    /\ writer \in Procs \cup {None} /\ applying \in Procs \cup {None}
    /\ \A p \in Procs : pc[p] \in {"fetch", "reread"} <=> writer = p
    /\ stalled \in BOOLEAN /\ (stalled => http /\ writer # None)
    /\ \A p \in Procs : pc[p] = "hc" <=> applying = p
    /\ got \in [Procs -> Contents \cup {None}]
    /\ served \in Contents \cup {None} /\ checked \in Contents \cup {None}
    /\ pending \in BOOLEAN /\ kicked \in Contents \cup {None, NotYet}
    /\ tested \subseteq Contents
    /\ fresh \in Procs \cup {None} /\ muddled \in BOOLEAN

\* The file at the vehicle's path, which is the vehicle itself if it is a File.
Local == IF http THEN file ELSE remote

Init ==
    /\ http \in BOOLEAN /\ pulls \in BOOLEAN
    /\ remote \in Contents \cup {None}
    /\ file \in Contents \cup {None} /\ (~http => file = None)
    /\ hash = None /\ writer = None /\ stalled = FALSE
    /\ pc = [p \in Procs |-> IF p = "pull" THEN "off" ELSE "idle"]
    /\ got = [p \in Procs |-> None]
    /\ applying = None /\ served = None /\ checked = None
    /\ pending = FALSE /\ kicked = NotYet /\ tested = {}
    /\ fresh = None /\ muddled = FALSE

Goto(p, l) == pc' = [pc EXCEPT ![p] = l]

----------------------------------------------------------------------------
(* Fetcher::initial *)

\* Takes the lock and the local file, if there is one that parses.
InitBegin ==
    /\ pc["init"] = "idle" /\ writer = None
    /\ \/ /\ Local = None
          /\ Goto("init", "fetch") /\ writer' = "init"
          /\ UNCHANGED <<hash, got, fresh>>
       \/ /\ Local = Bad
          /\ Goto("init", "reread") /\ writer' = "init"
          /\ UNCHANGED <<hash, got, fresh>>
       \/ /\ Local \notin {None, Bad}
          /\ hash' = Local /\ got' = [got EXCEPT !["init"] = Local] /\ fresh' = "init"
          /\ Goto("init", "handle")
          /\ UNCHANGED writer
    /\ UNCHANGED <<http, pulls, remote, file, stalled, listVars, healthVars>>

\* The vehicle is read.  After a local file that does not parse its content is
\* used but neither written nor hashed: the hash is that of the local file.
InitFetch ==
    /\ writer = "init" /\ ~stalled /\ remote \notin {None, Bad}
    /\ got' = [got EXCEPT !["init"] = remote] /\ fresh' = "init"
    /\ \/ pc["init"] = "fetch" /\ hash' = remote /\ file' = IF http THEN remote ELSE file
       \/ pc["init"] = "reread" /\ hash' = Bad /\ UNCHANGED file
    /\ writer' = None
    /\ Goto("init", "handle")
    /\ UNCHANGED <<http, pulls, remote, stalled, listVars, healthVars>>

\* initialize fails: the provider stays empty and the pull loop is not started.
InitFail ==
    /\ writer = "init" /\ ~stalled /\ remote \in {None, Bad}
    /\ writer' = None
    /\ Goto("init", "done")
    /\ UNCHANGED <<http, pulls, remote, file, hash, stalled, got, fresh, listVars, healthVars>>

\* pull_loop spawns its task,
InitSpawn ==
    /\ pc["init"] = "handle" /\ pulls /\ pc["pull"] = "off"
    /\ Goto("pull", "idle")
    /\ UNCHANGED <<http, pulls, remote, fetchVars, listVars, healthVars>>

\* and waits for the lock, which that task may hold, to store the handle.
InitHandle ==
    /\ pc["init"] = "handle"
    /\ pulls => pc["pull"] # "off" /\ writer = None
    /\ Goto("init", "apply")
    /\ UNCHANGED <<http, pulls, remote, fetchVars, listVars, healthVars>>

----------------------------------------------------------------------------
(* Fetcher::update_inner, called by the pull loop and by Provider::update *)

\* A request waits for the provider, which initialize holds to its end.
Lock(p) ==
    /\ pc[p] = "idle" /\ writer = None
    /\ p \in Requests => pc["init"] = "done"
    /\ writer' = p
    /\ Goto(p, "fetch")
    /\ UNCHANGED <<http, pulls, remote, file, hash, stalled, got, fresh, listVars, healthVars>>

After(p) == IF p = "pull" THEN "idle" ELSE "done"

\* Mutant: the pull loop ends when there is nothing to apply.
NothingNewStops(p) ==
    /\ pc[p] = "fetch" /\ p # "init" /\ ~stalled
    /\ remote \in {None, Bad, hash}
    /\ writer' = None
    /\ Goto(p, "done")
    /\ UNCHANGED <<http, pulls, remote, file, hash, stalled, got, fresh, listVars, healthVars>>

\* The vehicle cannot be read or parsed, or has not changed.
NothingNew(p) ==
    /\ pc[p] = "fetch" /\ p # "init" /\ ~stalled
    /\ remote \in {None, Bad, hash}
    /\ writer' = None
    /\ Goto(p, After(p))
    /\ UNCHANGED <<http, pulls, remote, file, hash, stalled, got, fresh, listVars, healthVars>>

\* Mutant: the new hash is not stored.
StoreNoHash(p) ==
    /\ pc[p] = "fetch" /\ p # "init" /\ ~stalled
    /\ remote \notin {None, Bad, hash}
    /\ file' = IF http THEN remote ELSE file
    /\ got' = [got EXCEPT ![p] = remote] /\ fresh' = p
    /\ writer' = None
    /\ Goto(p, "apply")
    /\ UNCHANGED <<http, pulls, remote, hash, stalled, listVars, healthVars>>

\* New content: file and hash are stored and the lock is released.
Store(p) ==
    /\ pc[p] = "fetch" /\ p # "init" /\ ~stalled
    /\ remote \notin {None, Bad, hash}
    /\ file' = IF http THEN remote ELSE file
    /\ hash' = remote
    /\ got' = [got EXCEPT ![p] = remote] /\ fresh' = p
    /\ writer' = None
    /\ Goto(p, "apply")
    /\ UNCHANGED <<http, pulls, remote, stalled, listVars, healthVars>>

----------------------------------------------------------------------------
(* The updater of ProxySetProvider::new, called by all of them *)

\* The newest content has been applied, or dropped, before p's.
Overtaken(p) == p # fresh /\ got[fresh] = None

Apply(p) ==
    /\ pc[p] = "apply" /\ applying = None
    /\ applying' = p
    /\ served' = got[p]
    /\ muddled' = (p # fresh /\ (muddled \/ Overtaken(p)))
    /\ Goto(p, "hc")
    /\ UNCHANGED <<http, pulls, remote, fetchVars, checked, healthVars>>

\* Mutant: nothing is tested after an update.
ApplyCheckQuiet(p) ==
    /\ pc[p] = "hc"
    /\ checked' = got[p]
    /\ got' = [got EXCEPT ![p] = None]
    /\ applying' = None
    /\ Goto(p, After(p))
    /\ UNCHANGED <<http, pulls, remote, file, hash, writer, stalled, fresh, served, muddled, healthVars>>

\* hc.update, then the spawn of one check.
ApplyCheck(p) ==
    /\ pc[p] = "hc"
    /\ checked' = got[p]
    /\ got' = [got EXCEPT ![p] = None]
    /\ pending' = TRUE
    /\ applying' = None
    /\ Goto(p, After(p))
    /\ UNCHANGED <<http, pulls, remote, file, hash, writer, stalled, fresh, served, muddled, kicked, tested>>

\* Mutant: the write lock outlives the request.
CancelHolds(p) ==
    /\ p \in Requests /\ pc[p] \in {"idle", "fetch", "apply", "hc"}
    /\ applying' = IF applying = p THEN None ELSE applying
    /\ got' = [got EXCEPT ![p] = None]
    /\ muddled' = (muddled \/ (p = fresh /\ got[p] # None))
    /\ Goto(p, "done")
    /\ UNCHANGED <<http, pulls, remote, file, hash, writer, stalled, fresh, served, checked, healthVars>>

\* The client of a request goes away: its locks are released where it stands.
Cancel(p) ==
    /\ p \in Requests /\ pc[p] \in {"idle", "fetch", "apply", "hc"}
    /\ writer' = IF writer = p THEN None ELSE writer
    /\ stalled' = (stalled /\ writer # p)
    /\ applying' = IF applying = p THEN None ELSE applying
    /\ got' = [got EXCEPT ![p] = None]
    /\ muddled' = (muddled \/ (p = fresh /\ got[p] # None))
    /\ Goto(p, "done")
    /\ UNCHANGED <<http, pulls, remote, file, hash, fresh, served, checked, healthVars>>

----------------------------------------------------------------------------
(* HealthCheck and the vehicle *)

\* kick_off, spawned by ProxySetProvider::new, clones the list once.
KickOff ==
    /\ kicked = NotYet
    /\ kicked' = checked
    /\ tested' = tested \cup ({checked} \ {None})
    /\ UNCHANGED <<http, pulls, remote, pc, fetchVars, listVars, pending>>

\* The check spawned by the updater reads the list when it runs.
Check ==
    /\ pending
    /\ pending' = FALSE
    /\ tested' = tested \cup {checked}
    /\ UNCHANGED <<http, pulls, remote, pc, fetchVars, listVars, kicked>>

\* The periodic check tests the list that was captured.
Periodic ==
    /\ kicked \in Contents
    /\ tested' = tested \cup {kicked}
    /\ UNCHANGED <<http, pulls, remote, pc, fetchVars, listVars, pending, kicked>>

\* GET /providers/proxies/:name/healthcheck tests the current list.
Healthcheck ==
    /\ checked # None
    /\ tested' = tested \cup {checked}
    /\ UNCHANGED <<http, pulls, remote, pc, fetchVars, listVars, pending, kicked>>

\* The server of an Http vehicle stops answering.  Nothing limits how long `read'
\* waits once it is connected, and the lock is held as long.
Stall ==
    /\ http /\ writer # None /\ ~stalled
    /\ stalled' = TRUE
    /\ UNCHANGED <<http, pulls, remote, pc, file, hash, writer, got, fresh, listVars, healthVars>>

\* What the vehicle shows changes.
Publish ==
    /\ remote' \in (Contents \cup {None}) \ {remote}
    /\ UNCHANGED <<http, pulls, pc, fetchVars, listVars, healthVars>>

Next ==
    \/ InitBegin
    \/ InitFetch
    \/ InitFail
    \/ InitSpawn
    \/ InitHandle
    \/ \E p \in Updaters : Lock(p)
    \/ \E p \in Updaters : NothingNew(p)
    \/ \E p \in Updaters : Store(p)
    \/ \E p \in Procs : Apply(p)
    \/ \E p \in Procs : ApplyCheck(p)
    \/ \E p \in Requests : Cancel(p)
    \/ KickOff
    \/ Check
    \/ Periodic
    \/ Healthcheck
    \/ Stall
    \/ Publish

Spec == Init /\ [][Next]_vars

\* The ticker of the pull loop fires again and again, the lock is granted in the
\* order it is asked for, and the executor runs what is ready, the end of a read
\* among it unless that has stalled.  That requests come, that servers answer or that
\* anything is published is not assumed.
Fairness ==
    /\ WF_vars(InitBegin) /\ WF_vars(InitFetch \/ InitFail)
    /\ WF_vars(InitSpawn) /\ SF_vars(InitHandle) /\ SF_vars(Lock("pull"))
    /\ \A p \in Updaters : WF_vars(NothingNew(p) \/ Store(p))
    /\ \A p \in Procs : WF_vars(Apply(p)) /\ WF_vars(ApplyCheck(p))
    /\ WF_vars(Check)

FairSpec == Spec /\ Fairness

----------------------------------------------------------------------------
(* Properties *)

Quiet == got = [p \in Procs |-> None]

\* Once every update has been applied, the provider and its health check hold the
\* content whose hash decides whether later content is new, unless older content
\* was applied after the newest or the newest was dropped before it was applied.
\* (A hash of a file that does not parse stands for no content.)
ServesHash ==
    Quiet /\ ~muddled => served = checked /\ (served = hash \/ hash = Bad)

\* A provider with an interval comes to serve what its vehicle keeps showing, from
\* any local file, after failed reads, unusable content and requests dropped at any
\* point.  Three things prevent it: a read that never ends keeps the lock; a failed
\* initialize starts no pull loop; and content that was lost, or overtaken by older,
\* after its hash was stored is not fetched again (any other content still is).
FollowsRemote ==
    \A v \in Contents \ {Bad} :
        (pulls /\ remote = v) ~>
            \/ served = v \/ remote # v
            \/ stalled
            \/ pc["init"] = "done" /\ pc["pull"] = "off"
            \/ muddled /\ hash = v

\* Every list of proxies the health check is given is tested, or replaced.
ListsTested ==
    \A v \in Contents : (checked = v) ~> (v \in tested \/ checked # v)
=============================================================================
