---------------------------- MODULE ServerModels ----------------------------
(***************************************************************************)
(* server_models: the router that runs one child server per model, limits  *)
(* how many run at once, and reloads its list of models from disk.         *)
(*                                                                         *)
(* One mutex guards the mapping; HTTP threads, one monitoring thread per   *)
(* child and its stopping thread take it in turns.  A step is what a       *)
(* thread does between two points at which another may take the mutex.     *)
(* Predicates of condition variables are guards: every change that makes   *)
(* one true is followed by notify_all.                                     *)
(* (tools/server/server-models.cpp)                                        *)
(*                                                                         *)
(* Abstracted: ports, arguments, aliases, events for SSE clients, exit     *)
(* codes (a failed model is UNLOADED), times of last use (the victim of an *)
(* eviction is any running model), presets with load-on-startup (Startup   *)
(* says what is loaded first; a reload adds none).                         *)
(***************************************************************************)
EXTENDS Naturals, FiniteSets

CONSTANTS
    Names,        \* model names
    Clients,      \* HTTP threads, one request each
    Requests,     \* [Clients -> sets of requests [op, name]]
    Versions,     \* presets a model can have on disk
    Cached,       \* names whose source is the cache: these can be removed
    Startup,      \* names loaded when the router starts
    OnDisk,       \* the models on disk when the router starts
    ModelsMax,    \* models_max; 0 is unlimited
    Editable,     \* names whose file is changed by hand ...
    MaxEdits,     \* ... and a bound on such changes
    Sleepers,     \* children that fall asleep when idle
    DownloadsCrash \* TRUE: a downloading child may die without a report

NONE == "none"
Ops  == {"ready", "load", "unload", "download", "remove", "reload"}

ASSUME RouterAssumption ==
    /\ NONE \notin Versions /\ Names \cap Clients = {} /\ NONE \notin Names \cup Clients
    /\ IsFiniteSet(Names)
    /\ Requests \in [Clients -> SUBSET [op : Ops, name : Names]]
    /\ OnDisk \in [Names -> Versions \cup {NONE}]
    /\ Startup \subseteq {n \in Names : OnDisk[n] # NONE}
    /\ ModelsMax \in Nat /\ MaxEdits \in Nat
    /\ ModelsMax > 0 => Cardinality(Startup) <= ModelsMax

VARIABLES
    status, owner, joinable, preset,   \* mapping: meta.status, subproc, th, meta.preset
    stopping_models, is_reloading, need_reload,
    held,                              \* who joins a thread without releasing the mutex
    aborted,                           \* a GGML_ASSERT has failed
    disk, edits,
    req, pc, ret, victim,              \* per HTTP thread
    snap, todo, targets, joins,        \* ... that reloads
    main, main_join,                   \* unload_all
    child, line, cmd, stopped,         \* per child: state, unread line, exit command, flag
    mon, stopper,                      \* per child: monitoring and stopping thread
    asked                              \* history: children somebody asked to stop

entries == <<status, owner, joinable, preset>>
flags   == <<is_reloading, need_reload>>
reload  == <<snap, todo, targets, joins>>
http    == <<req, pc, ret, victim, reload>>
shut    == <<main, main_join>>
files   == <<disk, edits>>
process == <<child, line, cmd, stopped>>
threads == <<mon, stopper>>
vars == <<entries, stopping_models, flags, held, aborted, files, http, shut,
          process, threads, asked>>

\* What most steps leave alone.
calm     == <<stopping_models, flags, held, aborted, files, shut>>
local    == <<req, ret, victim, reload>>
children == <<process, threads, asked>>

\* A child is named after the request, or the model at startup, it is for.
Procs == Clients \cup Startup
name(p) == IF p \in Clients THEN req[p].name ELSE p
downloads(p) == p \in Clients /\ req[p].op = "download"

Status == {"unloaded", "loading", "loaded", "sleeping", "downloading", "downloaded"}
\* Faulty variant: a sleeping model is not counted.
is_running_Awake(s) == s \in {"loading", "loaded"}
is_running(s) == s \in {"loading", "loaded", "sleeping"}
Running == {n \in Names : is_running(status[n])}

\* Faulty variant: one more than the limit.
Full_OffByOne == ModelsMax > 0 /\ Cardinality(Running) > ModelsMax
Full == ModelsMax > 0 /\ Cardinality(Running) >= ModelsMax

ClientSteps == {"meta", "lookup", "load", "lru", "lru_unload", "lru_wait",
    "load_locked", "join_old", "wait_loaded", "proxy", "proxy_lookup", "touch",
    "unload", "unload_wait", "exists", "remove", "remove_wait", "remove_join",
    "disk", "diff", "unload_each", "join", "erase", "end"}

TypeOK ==
    /\ status \in [Names -> Status \cup {NONE}]
    /\ owner \in [Names -> Procs \cup {NONE}]
    /\ joinable \in [Names -> BOOLEAN]
    /\ preset \in [Names -> Versions \cup {NONE}]
    /\ stopping_models \subseteq Names
    /\ is_reloading \in BOOLEAN /\ need_reload \in BOOLEAN
    /\ held \in Clients \cup {NONE} /\ aborted \in BOOLEAN
    /\ disk \in [Names -> Versions \cup {NONE}] /\ edits \in Nat
    /\ req \in [Clients -> [op : Ops, name : Names]]
    /\ pc \in [Clients -> ClientSteps] /\ ret \in [Clients -> ClientSteps]
    /\ victim \in [Clients -> Names \cup {NONE}]
    /\ snap \in [Clients -> [Names -> Versions \cup {NONE}]]
    /\ todo \in [Clients -> SUBSET Names] /\ targets \in [Clients -> SUBSET Names]
    /\ joins \in [Clients -> SUBSET Procs]
    /\ main \in {"serve", "join", "exit"} /\ main_join \subseteq Procs
    /\ child \in [Procs -> {NONE, "loading", "ready", "sleeping", "dead"}]
    /\ line \in [Procs -> {NONE, "loading", "ready", "sleeping", "done"}]
    /\ cmd \in [Procs -> BOOLEAN] /\ stopped \in [Procs -> BOOLEAN]
    /\ mon \in [Procs -> {NONE, "log", "request_exit", "reap", "done"}]
    /\ stopper \in [Procs -> {NONE, "wait", "poll", "done"}]
    /\ asked \subseteq Procs

Nothing == [n \in Names |-> NONE]

\* The handlers of the router begin with get_meta, has_model, remove or
\* load_models.
FirstStep(op) == CASE op = "download" -> "exists"
                   [] op = "remove"   -> "remove"
                   [] op = "reload"   -> "disk"
                   [] OTHER -> "meta"

\* The constructor: load_models finds an empty mapping, adds every model and
\* loads those of Startup.
Init ==
    /\ status = [n \in Names |-> IF n \in Startup THEN "loading"
                                 ELSE IF OnDisk[n] = NONE THEN NONE ELSE "unloaded"]
    /\ owner = [n \in Names |-> IF n \in Startup THEN n ELSE NONE]
    /\ joinable = [n \in Names |-> n \in Startup]
    /\ preset = OnDisk
    /\ stopping_models = {} /\ is_reloading = FALSE /\ need_reload = FALSE
    /\ held = NONE /\ aborted = FALSE
    /\ disk = OnDisk /\ edits = 0
    /\ req \in [Clients -> [op : Ops, name : Names]]
    /\ \A c \in Clients : req[c] \in Requests[c]
    /\ pc = [c \in Clients |-> FirstStep(req[c].op)] /\ ret = [c \in Clients |-> "end"]
    /\ victim = [c \in Clients |-> NONE] /\ snap = [c \in Clients |-> Nothing]
    /\ todo = [c \in Clients |-> {}] /\ targets = [c \in Clients |-> {}]
    /\ joins = [c \in Clients |-> {}]
    /\ main = "serve" /\ main_join = {}
    /\ child = [p \in Procs |-> IF p \in Startup THEN "loading" ELSE NONE]
    /\ line = [p \in Procs |-> NONE]
    /\ cmd = [p \in Procs |-> FALSE] /\ stopped = [p \in Procs |-> FALSE]
    /\ mon = [p \in Procs |-> IF p \in Startup THEN "log" ELSE NONE]
    /\ stopper = [p \in Procs |-> IF p \in Startup THEN "wait" ELSE NONE]
    /\ asked = {}

Alive    == ~aborted /\ main # "exit"
CanLock  == Alive /\ held = NONE
Goto(c, step) == pc' = [pc EXCEPT ![c] = step]

\* Where a request goes on after a return of load().
AfterLoad(c) == IF req[c].op = "ready" THEN "wait_loaded" ELSE "end"

-----------------------------------------------------------------------------
(* A request reads the meta data of its model.                             *)

\* get_meta: a pending reload is done first, by whoever comes.
ReloadFirst(c, from, back) ==
    /\ pc[c] = from /\ CanLock /\ need_reload
    /\ Goto(c, "disk")
    /\ ret' = [ret EXCEPT ![c] = back]
    /\ UNCHANGED <<entries, calm, children, req, victim, reload>>

\* What ensure_model_ready, POST /models/load and POST /models/unload do with
\* the copy that get_meta returns.
NextByStatus(op, s) ==
    CASE s = NONE -> "end"
      [] op = "ready"  -> IF s \in {"loaded", "sleeping"} THEN "proxy"
                          ELSE IF s = "unloaded" THEN "load" ELSE "wait_loaded"
      [] op = "load"   -> IF is_running(s) THEN "end" ELSE "load"
      [] op = "unload" -> IF is_running(s) \/ s = "downloading" THEN "unload" ELSE "end"
      [] OTHER -> "end"

Lookup(c) ==
    /\ \/ pc[c] = "meta" /\ ~need_reload
       \/ pc[c] = "lookup"
    /\ CanLock
    /\ Goto(c, NextByStatus(req[c].op, status[req[c].name]))
    /\ UNCHANGED <<entries, calm, children, local>>

\* ensure_model_ready waits until the model is no longer LOADING, or gone, and
\* gives up if it failed.
WaitLoaded(c) ==
    /\ pc[c] = "wait_loaded" /\ CanLock
    /\ status[req[c].name] # "loading"
    /\ \/ Goto(c, "proxy")
       \/ status[req[c].name] = "unloaded" /\ Goto(c, "end")
    /\ UNCHANGED <<entries, calm, children, local>>

\* proxy_request reads the meta data again and refuses if it is not running.
ProxyLookup(c) ==
    /\ \/ pc[c] = "proxy" /\ ~need_reload
       \/ pc[c] = "proxy_lookup"
    /\ CanLock
    /\ Goto(c, IF is_running(status[req[c].name]) THEN "touch" ELSE "end")
    /\ UNCHANGED <<entries, calm, children, local>>

\* mapping[n] on a name that is not there makes an empty entry.
Subscript(n) ==
    /\ status' = [status EXCEPT ![n] = IF @ = NONE THEN "unloaded" ELSE @]
    /\ UNCHANGED <<owner, joinable, preset>>

\* ... and notes the time of use, under the mutex taken again.
Touch(c) ==
    /\ pc[c] = "touch" /\ CanLock
    /\ Subscript(req[c].name)
    /\ Goto(c, "end")
    /\ UNCHANGED <<calm, children, local>>

-----------------------------------------------------------------------------
(* unload: three cases, by the status.                                     *)

CancelDownload(n) ==
    /\ status[n] = "downloading"
    /\ cmd' = [cmd EXCEPT ![owner[n]] = TRUE]
    /\ stopped' = [stopped EXCEPT ![owner[n]] = TRUE]
    /\ UNCHANGED <<child, line, stopping_models, asked>>

\* A loading child is killed, the others are left to the stopping thread.
StopModel(n) ==
    /\ is_running(status[n])
    /\ stopping_models' = stopping_models \cup {n}
    /\ asked' = asked \cup {owner[n]}
    /\ child' = [child EXCEPT ![owner[n]] = IF status[n] = "loading" THEN "dead" ELSE @]
    /\ UNCHANGED <<line, cmd, stopped>>

NothingToStop(n) ==
    /\ ~is_running(status[n]) /\ status[n] # "downloading"
    /\ UNCHANGED <<process, stopping_models, asked>>

unload(n) == CancelDownload(n) \/ StopModel(n) \/ NothingToStop(n)

\* The wait inside unload() for a cancelled download.
DownloadEnded(n) == status[n] # "downloading"

Unload(c) ==
    /\ pc[c] = "unload" /\ CanLock
    /\ unload(req[c].name)
    /\ Goto(c, "unload_wait")
    /\ UNCHANGED <<entries, flags, held, aborted, files, shut, threads, local>>

UnloadWait(c) ==
    /\ pc[c] = "unload_wait" /\ CanLock /\ DownloadEnded(req[c].name)
    /\ Goto(c, "end")
    /\ UNCHANGED <<entries, calm, children, local>>

-----------------------------------------------------------------------------
(* load.                                                                   *)

\* has_model of load(); POST /models refuses a name that exists.
HasModel(c) ==
    /\ pc[c] \in {"load", "exists"} /\ CanLock
    /\ Goto(c, IF pc[c] = "load"
               THEN IF status[req[c].name] = NONE THEN "end" ELSE "lru"
               ELSE IF status[req[c].name] = NONE THEN "load_locked" ELSE "end")
    /\ UNCHANGED <<entries, calm, children, local>>

\* unload_lru counts the running models and picks one; none is older than now
\* if all were used in this millisecond.
UnloadLru(c) ==
    /\ pc[c] = "lru" /\ CanLock
    /\ \/ /\ Full
          /\ \E v \in Running : victim' = [victim EXCEPT ![c] = v]
          /\ Goto(c, "lru_unload")
       \/ /\ Goto(c, "load_locked")
          /\ UNCHANGED victim
    /\ UNCHANGED <<entries, calm, children, req, ret, reload>>

LruUnload(c) ==
    /\ pc[c] = "lru_unload" /\ CanLock
    /\ unload(victim[c])
    /\ Goto(c, "lru_wait")
    /\ UNCHANGED <<entries, flags, held, aborted, files, shut, threads, local>>

\* ... and waits until mapping[victim] is UNLOADED, which it also is if it
\* has been erased: the subscript makes an entry.
LruWait(c) ==
    /\ pc[c] = "lru_wait" /\ CanLock
    /\ status[victim[c]] \in {"unloaded", NONE}
    /\ Subscript(victim[c])
    /\ victim' = [victim EXCEPT ![c] = NONE]
    /\ Goto(c, "load_locked")
    /\ UNCHANGED <<calm, children, req, ret, reload>>

\* load() under the mutex, when no reload is in progress.  It returns if the
\* model is not UNLOADED, throws at the limit or if no child can be started.
LoadRefused(c) ==
    /\ pc[c] = "load_locked" /\ CanLock /\ ~is_reloading
    /\ LET n == req[c].name  known == ~downloads(c)
           busy == known /\ status[n] \notin {"unloaded", NONE} IN
       /\ Goto(c, IF busy THEN AfterLoad(c) ELSE "end")
       /\ IF known THEN Subscript(n) ELSE UNCHANGED entries
    /\ UNCHANGED <<calm, children, local>>

\* mapping[name] = std::move(inst): the child of this request.
Install(c) ==
    LET n == req[c].name IN
    /\ status' = [status EXCEPT ![n] = IF downloads(c) THEN "downloading" ELSE "loading"]
    /\ owner' = [owner EXCEPT ![n] = c]
    /\ joinable' = [joinable EXCEPT ![n] = TRUE]
    /\ preset' = [preset EXCEPT ![n] = IF downloads(c) THEN NONE ELSE @]

\* A join of the entry's thread would block.
Unjoined(n) == joinable[n] /\ mon[owner[n]] # "done"

\* A child and its monitoring thread are started.  An old child that is still
\* alive is killed and its thread joined, with the mutex held.
LoadSpawn(c) ==
    /\ pc[c] = "load_locked" /\ CanLock /\ ~is_reloading /\ ~Full
    /\ downloads(c) \/ status[req[c].name] \in {"unloaded", NONE}
    /\ LET n == req[c].name IN
       /\ child' = [p \in Procs |-> IF p = c THEN "loading"
                        ELSE IF p = owner[n] /\ child[p] # NONE THEN "dead" ELSE child[p]]
       /\ mon' = [mon EXCEPT ![c] = "log"]
       /\ stopper' = [stopper EXCEPT ![c] = "wait"]
       /\ IF Unjoined(n)
          THEN /\ held' = c /\ Goto(c, "join_old")
               /\ UNCHANGED entries
          ELSE /\ Install(c) /\ Goto(c, AfterLoad(c))
               /\ UNCHANGED held
    /\ UNCHANGED <<stopping_models, flags, aborted, files, shut, line, cmd,
                   stopped, asked, local>>

JoinOld(c) ==
    /\ pc[c] = "join_old" /\ Alive /\ mon[owner[req[c].name]] = "done"
    /\ Install(c)
    /\ held' = NONE
    /\ Goto(c, AfterLoad(c))
    /\ UNCHANGED <<stopping_models, flags, aborted, files, shut, children,
                   local>>

-----------------------------------------------------------------------------
(* remove: DELETE /models.                                                 *)

Erase(n) ==
    /\ status' = [status EXCEPT ![n] = NONE]
    /\ owner' = [owner EXCEPT ![n] = NONE]
    /\ joinable' = [joinable EXCEPT ![n] = FALSE]
    /\ preset' = [preset EXCEPT ![n] = NONE]

Removable(n) == status[n] # NONE /\ (n \in Cached \/ preset[n] = NONE)

Remove(c) ==
    /\ pc[c] = "remove" /\ CanLock
    /\ IF Removable(req[c].name)
       THEN unload(req[c].name) /\ Goto(c, "remove_wait")
       ELSE UNCHANGED <<process, stopping_models, asked>> /\ Goto(c, "end")
    /\ UNCHANGED <<entries, flags, held, aborted, files, shut, threads, local>>

\* When the model is stopped, its thread is joined with the mutex held.
RemoveWait(c) ==
    /\ pc[c] = "remove_wait" /\ CanLock
    /\ LET n == req[c].name IN
       /\ status[n] \in {"unloaded", "downloaded", NONE}
       /\ IF Unjoined(n)
          THEN /\ held' = c /\ Goto(c, "remove_join")
               /\ UNCHANGED <<entries, disk>>
          ELSE /\ Erase(n) /\ disk' = [disk EXCEPT ![n] = NONE]
               /\ Goto(c, "end") /\ UNCHANGED held
    /\ UNCHANGED <<stopping_models, flags, aborted, edits, shut, children,
                   local>>

RemoveJoin(c) ==
    /\ pc[c] = "remove_join" /\ Alive /\ mon[owner[req[c].name]] = "done"
    /\ Erase(req[c].name)
    /\ disk' = [disk EXCEPT ![req[c].name] = NONE]
    /\ held' = NONE
    /\ Goto(c, "end")
    /\ UNCHANGED <<stopping_models, flags, aborted, edits, shut, children,
                   local>>

-----------------------------------------------------------------------------
(* load_models as a reload.                                                *)

\* Phase 1, without the mutex: the presets on disk.
ReadDisk(c) ==
    /\ pc[c] = "disk" /\ Alive
    /\ snap' = [snap EXCEPT ![c] = disk]
    /\ Goto(c, "diff")
    /\ UNCHANGED <<entries, calm, children, req, ret, victim, todo, targets,
                   joins>>

\* An empty mapping is filled as at the start.
FirstLoad(c) ==
    /\ pc[c] = "diff" /\ CanLock /\ \A n \in Names : status[n] = NONE
    /\ status' = [n \in Names |-> IF snap[c][n] = NONE THEN NONE ELSE "unloaded"]
    /\ preset' = snap[c]
    /\ need_reload' = FALSE
    /\ Goto(c, ret[c])
    /\ snap' = [snap EXCEPT ![c] = Nothing] /\ ret' = [ret EXCEPT ![c] = "end"]
    /\ UNCHANGED <<owner, joinable, stopping_models, is_reloading, held,
                   aborted, files, shut, children, req, victim, todo, targets,
                   joins>>

\* Running models that are gone from disk or have another preset are unloaded.
Diff(c) ==
    /\ pc[c] = "diff" /\ CanLock /\ \E n \in Names : status[n] # NONE
    /\ is_reloading' = TRUE /\ need_reload' = FALSE
    /\ targets' = [targets EXCEPT ![c] = {n \in Running : snap[c][n] # preset[n]}]
    /\ todo' = [todo EXCEPT ![c] = {n \in Running : snap[c][n] # preset[n]}]
    /\ Goto(c, "unload_each")
    /\ UNCHANGED <<entries, stopping_models, held, aborted, files, shut,
                   children, req, ret, victim, snap, joins>>

\* One unload() after the other; each takes the mutex on its own.
UnloadEach(c) ==
    /\ pc[c] = "unload_each" /\ CanLock
    /\ \E n \in todo[c] :
         /\ unload(n)
         /\ todo' = [todo EXCEPT ![c] = @ \ {n}]
    /\ UNCHANGED <<entries, flags, held, aborted, files, shut, threads, pc, req,
                   ret, victim, snap, targets, joins>>

\* Threads of targets, of finished downloads and of stopped models that are
\* gone from disk are taken out of the mapping, once no target is running.
ToJoin(c) ==
    {n \in Names : /\ joinable[n]
                   /\ \/ n \in targets[c]
                      \/ status[n] = "downloaded"
                      \/ /\ status[n] # "downloading" /\ snap[c][n] = NONE
                         /\ ~is_running(status[n])}

Collect(c) ==
    /\ pc[c] = "unload_each" /\ todo[c] = {} /\ CanLock
    /\ \A n \in targets[c] : ~is_running(status[n]) /\ DownloadEnded(n)
    /\ joins' = [joins EXCEPT ![c] = {owner[n] : n \in ToJoin(c)}]
    /\ joinable' = [n \in Names |-> joinable[n] /\ n \notin ToJoin(c)]
    /\ targets' = [targets EXCEPT ![c] = {}]
    /\ Goto(c, "join")
    /\ UNCHANGED <<status, owner, preset, calm, children, req, ret, victim,
                   snap, todo>>

\* They are joined without the mutex.
JoinThreads(c) ==
    /\ pc[c] = "join" /\ Alive /\ \A p \in joins[c] : mon[p] = "done"
    /\ joins' = [joins EXCEPT ![c] = {}]
    /\ Goto(c, "erase")
    /\ UNCHANGED <<entries, calm, children, req, ret, victim, snap, todo,
                   targets>>

\* Finished downloads and models gone from disk are erased; an erased entry
\* must not own a thread (GGML_ASSERT).
Obsolete(c) ==
    {n \in Names : \/ status[n] = "downloaded"
                   \/ status[n] \notin {NONE, "downloading"} /\ snap[c][n] = NONE}

EraseAborts(c) ==
    /\ pc[c] = "erase" /\ CanLock /\ \E n \in Obsolete(c) : joinable[n]
    /\ aborted' = TRUE
    /\ UNCHANGED <<entries, stopping_models, flags, held, files, http, shut,
                   children>>

\* The others that do not run get the new preset, new models are added.
EraseAndAdd(c) ==
    /\ pc[c] = "erase" /\ CanLock /\ \A n \in Obsolete(c) : ~joinable[n]
    /\ LET gone == Obsolete(c)
           new  == {n \in Names : snap[c][n] # NONE /\ (n \in gone \/ status[n] = NONE)}
       IN /\ status' = [n \in Names |-> IF n \in new THEN "unloaded"
                            ELSE IF n \in gone THEN NONE ELSE status[n]]
          /\ owner' = [n \in Names |-> IF n \in gone THEN NONE ELSE owner[n]]
          /\ preset' = [n \in Names |->
                IF n \in new THEN snap[c][n] ELSE IF n \in gone THEN NONE
                ELSE IF snap[c][n] # NONE /\ ~is_running(status[n])
                     THEN snap[c][n] ELSE preset[n]]
    /\ is_reloading' = FALSE
    /\ Goto(c, ret[c])
    /\ snap' = [snap EXCEPT ![c] = Nothing] /\ ret' = [ret EXCEPT ![c] = "end"]
    /\ UNCHANGED <<joinable, stopping_models, need_reload, held, aborted, files,
                   shut, children, req, victim, todo, targets, joins>>

\* The user changes the files.
EditDisk(n) ==
    /\ Alive /\ n \in Editable /\ edits < MaxEdits
    /\ edits' = edits + 1
    /\ \E v \in (Versions \cup {NONE}) \ {disk[n]} : disk' = [disk EXCEPT ![n] = v]
    /\ UNCHANGED <<entries, stopping_models, flags, held, aborted, http, shut,
                   children>>

-----------------------------------------------------------------------------
(* A child and the two threads that watch it.                              *)

others == <<stopping_models, flags, held, aborted, http, shut, asked>>

\* A child says that it has loaded, has fallen asleep, or loads again to wake
\* up; a line stays in the pipe until it is read.
Reports == {<<"loading", "ready">>, <<"ready", "sleeping">>, <<"sleeping", "loading">>}

ChildReports(p) ==
    /\ Alive /\ ~downloads(p) /\ line[p] = NONE
    /\ \E r \in Reports :
         /\ child[p] = r[1] /\ (r[2] = "sleeping" => p \in Sleepers)
         /\ child' = [child EXCEPT ![p] = r[2]]
         /\ line' = [line EXCEPT ![p] = r[2]]
    /\ UNCHANGED <<entries, others, files, threads, cmd, stopped>>

\* A download ends, well or not, or because it was told to exit, and reports.
DownloadEnds(p) ==
    /\ Alive /\ downloads(p) /\ child[p] = "loading"
    /\ child' = [child EXCEPT ![p] = "ready"]
    /\ line' = [line EXCEPT ![p] = "done"]
    /\ \/ \E v \in Versions : disk' = [disk EXCEPT ![name(p)] = v]
       \/ UNCHANGED disk
    /\ UNCHANGED <<entries, others, edits, threads, cmd, stopped>>

\* A child that serves, or has reported, obeys the exit command.
ChildExits(p) ==
    /\ Alive /\ cmd[p] /\ child[p] \in {"ready", "sleeping"}
    /\ child' = [child EXCEPT ![p] = "dead"]
    /\ UNCHANGED <<entries, others, files, threads, line, cmd, stopped>>

ChildCrashes(p) ==
    /\ Alive /\ child[p] \in {"loading", "ready", "sleeping"}
    /\ downloads(p) => DownloadsCrash
    /\ child' = [child EXCEPT ![p] = "dead"]
    /\ UNCHANGED <<entries, others, files, threads, line, cmd, stopped>>

\* handle_child_state: update_status of the entry with the child's name.
HandleState(p) ==
    /\ mon[p] = "log" /\ CanLock /\ line[p] \in {"loading", "ready", "sleeping"}
    /\ LET s == IF line[p] = "ready" THEN "loaded" ELSE line[p] IN
       status' = [status EXCEPT ![name(p)] = IF @ = NONE THEN NONE ELSE s]
    /\ line' = [line EXCEPT ![p] = NONE]
    /\ UNCHANGED <<owner, joinable, preset, others, files, threads, child, cmd,
                   stopped>>

\* ... and of a download: the entry waits for a reload, the child may exit.
HandleDone(p) ==
    /\ mon[p] = "log" /\ CanLock /\ line[p] = "done"
    /\ status' = [status EXCEPT ![name(p)] = IF @ = NONE THEN NONE ELSE "downloaded"]
    /\ need_reload' = (need_reload \/ status[name(p)] # NONE)
    /\ line' = [line EXCEPT ![p] = NONE]
    /\ mon' = [mon EXCEPT ![p] = "request_exit"]
    /\ UNCHANGED <<owner, joinable, preset, stopping_models, is_reloading, held,
                   aborted, files, http, shut, asked, stopper, child, cmd,
                   stopped>>

\* An entry made by a subscript has no subproc: the call is undefined.
RequestExit(p) ==
    /\ mon[p] = "request_exit" /\ CanLock
    /\ mon' = [mon EXCEPT ![p] = "log"]
    /\ LET q == owner[name(p)] IN
       /\ aborted' = (status[name(p)] # NONE /\ q = NONE)
       /\ cmd' = IF q = NONE THEN cmd ELSE [cmd EXCEPT ![q] = TRUE]
       /\ stopped' = IF q = NONE THEN stopped ELSE [stopped EXCEPT ![q] = TRUE]
    /\ UNCHANGED <<entries, stopping_models, flags, held, http, shut, asked,
                   files, stopper, child, line>>

\* End of the child's output: log_thread is joined, the stop flag is set and a
\* stop request for the name is forgotten ...
ChildGone(p) ==
    /\ mon[p] = "log" /\ CanLock /\ child[p] = "dead" /\ line[p] = NONE
    /\ stopped' = [stopped EXCEPT ![p] = TRUE]
    /\ stopping_models' = stopping_models \ {name(p)}
    /\ mon' = [mon EXCEPT ![p] = "reap"]
    /\ UNCHANGED <<entries, flags, held, aborted, http, shut, asked, files,
                   stopper, child, line, cmd>>

\* Faulty variant: only a model that was asked to stop is marked.
MarkUnloaded_IfAsked(p) ==
    /\ mon[p] = "reap" /\ stopper[p] = "done" /\ CanLock
    /\ status' = IF p \in asked THEN [status EXCEPT ![name(p)] = "unloaded"] ELSE status
    /\ mon' = [mon EXCEPT ![p] = "done"]
    /\ UNCHANGED <<owner, joinable, preset, others, files, stopper, process>>

\* ... and when the stopping thread has ended the model is UNLOADED.  The
\* entry of a download is left to the next reload.
MarkUnloaded(p) ==
    /\ mon[p] = "reap" /\ stopper[p] = "done"
    /\ IF downloads(p) THEN Alive /\ UNCHANGED status
       ELSE CanLock /\ status' = [status EXCEPT ![name(p)] =
                                    IF @ = NONE THEN NONE ELSE "unloaded"]
    /\ mon' = [mon EXCEPT ![p] = "done"]
    /\ UNCHANGED <<owner, joinable, preset, others, files, stopper, process>>

StopRequested(p) == name(p) \in stopping_models

\* The stopping thread waits on cv_stop and asks the child to exit, unless it
\* has exited ...
StopperAsks(p) ==
    /\ stopper[p] = "wait" /\ CanLock /\ (StopRequested(p) \/ stopped[p])
    /\ cmd' = [cmd EXCEPT ![p] = @ \/ ~stopped[p]]
    /\ stopper' = [stopper EXCEPT ![p] = IF stopped[p] THEN "done" ELSE "poll"]
    /\ UNCHANGED <<entries, others, files, mon, child, line, stopped>>

\* Faulty variant: the time-out is missing.
StopperEnds_Waits(p) ==
    /\ stopper[p] = "poll" /\ CanLock /\ (~StopRequested(p) \/ stopped[p])
    /\ stopper' = [stopper EXCEPT ![p] = "done"]
    /\ UNCHANGED <<entries, others, files, mon, process>>

\* ... and watches it until it has exited or, after stop_timeout, kills it.
StopperEnds(p) ==
    /\ stopper[p] = "poll" /\ CanLock
    /\ child' = [child EXCEPT ![p] =
                   IF ~StopRequested(p) \/ stopped[p] THEN @ ELSE "dead"]
    /\ stopper' = [stopper EXCEPT ![p] = "done"]
    /\ UNCHANGED <<entries, others, files, mon, line, cmd, stopped>>

-----------------------------------------------------------------------------
(* The end of the router: unload_all, after the HTTP threads.              *)

UnloadAll ==
    /\ main = "serve" /\ CanLock /\ \A c \in Clients : pc[c] = "end"
    /\ LET down == {owner[n] : n \in {n \in Names : status[n] = "downloading"}} IN
       stopped' = [p \in Procs |-> stopped[p] \/ p \in down]
    /\ stopping_models' = stopping_models \cup Running
    /\ asked' = asked \cup {owner[n] : n \in Running}
    /\ main_join' = {owner[n] : n \in {n \in Names : joinable[n]}}
    /\ joinable' = [n \in Names |-> FALSE]
    /\ main' = "join"
    /\ UNCHANGED <<status, owner, preset, flags, held, aborted, files, http,
                   child, line, cmd, threads>>

JoinAll ==
    /\ main = "join" /\ Alive /\ \A p \in main_join : mon[p] = "done"
    /\ main' = "exit" /\ main_join' = {}
    /\ UNCHANGED <<entries, stopping_models, flags, held, aborted, files, http,
                   children>>

-----------------------------------------------------------------------------
\* Where a request stands in load_models.
Reload(c) ==
    \/ ReadDisk(c) \/ FirstLoad(c) \/ Diff(c) \/ UnloadEach(c) \/ Collect(c)
    \/ JoinThreads(c) \/ EraseAborts(c) \/ EraseAndAdd(c)

Load(c) ==
    \/ HasModel(c) \/ UnloadLru(c) \/ LruUnload(c) \/ LruWait(c)
    \/ LoadRefused(c) \/ LoadSpawn(c) \/ JoinOld(c)

Client(c) ==
    \/ ReloadFirst(c, "meta", "lookup") \/ ReloadFirst(c, "proxy", "proxy_lookup")
    \/ Lookup(c) \/ WaitLoaded(c) \/ ProxyLookup(c) \/ Touch(c)
    \/ Unload(c) \/ UnloadWait(c) \/ Remove(c) \/ RemoveWait(c) \/ RemoveJoin(c)
    \/ Load(c) \/ Reload(c)

Monitor(p) ==
    HandleState(p) \/ HandleDone(p) \/ RequestExit(p) \/ ChildGone(p)
    \/ MarkUnloaded(p)

Stopper(p) == StopperAsks(p) \/ StopperEnds(p)

Child(p) == ChildReports(p) \/ DownloadEnds(p) \/ ChildExits(p) \/ ChildCrashes(p)

Next ==
    \/ \E c \in Clients : Client(c)
    \/ \E p \in Procs : Child(p) \/ Monitor(p) \/ Stopper(p)
    \/ \E n \in Names : EditDisk(n)
    \/ UnloadAll \/ JoinAll

Spec == Init /\ [][Next]_vars

\* Threads run, a child that loads or downloads comes to an end of it.  Nothing
\* says that a child obeys the exit command.
LoadingEnds(p) == child[p] = "loading" /\ Child(p)
DownloadExits(p) == downloads(p) /\ ChildExits(p)

Fairness ==
    /\ \A c \in Clients : WF_vars(Client(c))
    /\ \A p \in Procs : WF_vars(Monitor(p)) /\ WF_vars(Stopper(p))
                        /\ WF_vars(LoadingEnds(p)) /\ WF_vars(DownloadExits(p))
    /\ WF_vars(UnloadAll) /\ WF_vars(JoinAll)
FairSpec == Spec /\ Fairness

-----------------------------------------------------------------------------
(* Properties.                                                             *)

Live == {p \in Procs : ~downloads(p) /\ child[p] \notin {NONE, "dead"}}

\* However many requests load and evict at the same time, no more than
\* models_max children that serve a model are alive.
LimitOnProcesses == ModelsMax > 0 => Cardinality(Live) <= ModelsMax

\* No entry is left running without a thread that will mark it UNLOADED: it
\* would take a place for ever.  The variables keep their types.
NoGhost ==
    /\ TypeOK
    /\ \A n \in Running : owner[n] # NONE /\ mon[owner[n]] \notin {NONE, "done"}

\* The router knows every child that serves a model.
NoOrphan == \A p \in Live : owner[name(p)] = p /\ is_running(status[name(p)])

\* remove() joins with the mutex held: "thread no longer acquires this mutex".
NeedsMutex(p) ==
    \/ mon[p] \in {"log", "request_exit"}
    \/ mon[p] = "reap" /\ (~downloads(p) \/ stopper[p] # "done")
JoinsFreely(step) ==
    \A c \in Clients : pc[c] = step => ~NeedsMutex(owner[req[c].name])
RemovedThreadIsDone == JoinsFreely("remove_join")

\* The router is stuck for good.
Wedged == aborted \/ ~JoinsFreely("join_old") \/ ~JoinsFreely("remove_join")

\* An eviction or a removal waits for a model that has been loaded again.
Overtaken(c) ==
    \E n \in Running :
        /\ \/ pc[c] = "lru_wait" /\ n = victim[c]
           \/ pc[c] = "remove_wait" /\ n = req[c].name
        /\ owner[n] \notin asked

\* A finished download whose entry was erased before it was told to exit.
Forgotten(p) ==
    downloads(p) /\ child[p] = "ready" /\ mon[p] = "log" /\ line[p] = NONE /\ ~cmd[p]

\* Every request ends and then the router does, whether or not the children
\* obey, unless it is wedged, a download forgotten or a wait overtaken.
RouterEnds ==
    <>[](\/ main = "exit" \/ Wedged
         \/ \E c \in Clients : Overtaken(c) \/ Forgotten(c))
=============================================================================
