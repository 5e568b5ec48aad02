------------------------ MODULE ServerModels_proofs ------------------------
(***************************************************************************)
(* Proofs about the router: whatever its threads do, every child that      *)
(* serves a model is in the mapping and watched, and the children that     *)
(* serve are at most models_max.  And as long as no request is a download, *)
(* nobody joins a thread that still needs the mutex he holds.              *)
(***************************************************************************)
EXTENDS ServerModels, TLAPS, FiniteSetTheorems

ReloadSteps == {"disk", "diff", "unload_each", "join", "erase"}

\* Where a request has not started its child and may still do so.
BeforeLoad == {"meta", "lookup", "load", "lru", "lru_unload", "lru_wait",
               "load_locked", "exists"}

\* What an entry of the mapping says of its child: a running model is watched,
\* and as long as requests are served its thread is in the entry.
EntryOK(n) ==
  /\ owner[n] # NONE => name(owner[n]) = n /\ mon[owner[n]] # NONE
  /\ joinable[n] => owner[n] # NONE
  /\ status[n] = NONE => owner[n] = NONE
  /\ status[n] = "unloaded" => owner[n] = NONE \/ mon[owner[n]] = "done"
  /\ is_running(status[n]) =>
       owner[n] # NONE /\ ~downloads(owner[n]) /\ mon[owner[n]] \in {"log", "reap"}
  /\ status[n] \in {"downloading", "downloaded"} => owner[n] # NONE /\ downloads(owner[n])
  /\ main = "serve" /\ (is_running(status[n]) \/ status[n] = "downloading") => joinable[n]

\* What a child says of the mapping: as long as the child of a model is watched,
\* the entry is its own; a download that has something to say finds its entry.
ServesOwn(p) ==
  /\ mon[p] # "request_exit" /\ line[p] # "done"
  /\ mon[p] \in {"log", "reap"} => owner[name(p)] = p /\ is_running(status[name(p)])
  /\ child[p] \notin {NONE, "dead"} => mon[p] = "log"

DownloadsOwn(p) ==
  /\ line[p] \in {NONE, "done"}
  /\ line[p] = "done" => child[p] # "loading"
  /\ child[p] = "loading" \/ line[p] = "done" =>
       /\ mon[p] = "log"
       /\ \/ pc[p] = "join_old"
          \/ owner[name(p)] = p /\ status[name(p)] = "downloading"

ProcOK(p) ==
  /\ mon[p] = NONE => child[p] = NONE /\ line[p] = NONE /\ stopper[p] = NONE
  /\ ~downloads(p) => ServesOwn(p)
  /\ downloads(p) => DownloadsOwn(p)

\* Where a request is: it starts one child at most, and only a download waits
\* for the thread of an older child.
ClientOK(c) ==
  /\ ret[c] \in {"end", "lookup", "proxy_lookup"}
  /\ ret[c] # "end" => pc[c] \in ReloadSteps
  /\ pc[c] \in BeforeLoad \/ ret[c] = "lookup" => mon[c] = NONE
  /\ pc[c] = "join_old" => held = c /\ downloads(c) /\ mon[c] # NONE
  /\ pc[c] = "remove_join" =>
       held = c /\ status[req[c].name] \in {"unloaded", "downloaded", NONE}
  /\ pc[c] \in {"lru_unload", "lru_wait"} => victim[c] \in Names
  /\ main # "serve" => pc[c] = "end"

Entries   == \A n \in Names : EntryOK(n)
Processes == \A p \in Procs : ProcOK(p)
Requested == \A c \in Clients : ClientOK(c)
Limit     == ModelsMax > 0 => Cardinality(Running) <= ModelsMax

RouterInv == TypeOK /\ Entries /\ Processes /\ Requested /\ Limit

-----------------------------------------------------------------------------
(* What a step leaves alone.                                               *)

LEMMA ProcsAre ==
  /\ Clients \subseteq Procs /\ Startup \subseteq Procs /\ NONE \notin Procs
  /\ Startup \subseteq Names /\ Clients \cap Startup = {}
  /\ \A p \in Procs : p \in Clients \/ p \in Startup
BY RouterAssumption DEF RouterAssumption, Procs

LEMMA NamesAre ==
  ASSUME TypeOK
  PROVE  \A p \in Procs : name(p) \in Names
BY ProcsAre DEF TypeOK, name

LEMMA NamesKept ==
  ASSUME req' = req, NEW p
  PROVE  name(p)' = name(p) /\ (downloads(p)' <=> downloads(p))
BY DEF name, downloads

LEMMA EntryKept ==
  ASSUME NEW n \in Names, EntryOK(n), req' = req, main' = main \/ main = "serve",
         status'[n] = status[n], owner'[n] = owner[n], joinable'[n] = joinable[n],
         owner[n] # NONE => mon'[owner[n]] = mon[owner[n]]
  PROVE  EntryOK(n)'
BY NamesKept DEF EntryOK, name, downloads

\* Of an entry that is not its own a process says nothing.
LEMMA ProcKept ==
  ASSUME TypeOK, NEW p \in Procs, ProcOK(p), req' = req,
         mon'[p] = mon[p], line'[p] = line[p],
         child'[p] = child[p] \/ (mon[p] # NONE /\ child'[p] = "dead"),
         stopper'[p] = stopper[p] \/ mon[p] # NONE,
         owner[name(p)] = p => /\ owner'[name(p)] = p
                               /\ status'[name(p)] = status[name(p)],
         downloads(p) /\ pc[p] = "join_old" => pc'[p] = "join_old"
  PROVE  ProcOK(p)'
<1>1. name(p)' = name(p) /\ (downloads(p)' <=> downloads(p))
  BY NamesKept
<1> QED BY <1>1 DEF ProcOK, ServesOwn, DownloadsOwn

LEMMA ClientKept ==
  ASSUME NEW c \in Clients, ClientOK(c), req' = req,
         pc'[c] = pc[c], ret'[c] = ret[c], victim'[c] = victim[c],
         mon[c] = NONE <=> mon'[c] = NONE,
         pc[c] \in {"join_old", "remove_join"} =>
           held' = held /\ status'[req[c].name] = status[req[c].name],
         main' = main \/ pc[c] = "end"
  PROVE  ClientOK(c)'
BY NamesKept DEF ClientOK, downloads

LEMMA LimitKept ==
  ASSUME Limit, \A n \in Names : is_running(status'[n]) => is_running(status[n])
  PROVE  Limit'
<1>1. Running' \in SUBSET Running /\ IsFiniteSet(Running)
  BY RouterAssumption, FS_Subset DEF RouterAssumption, Running
<1>2. /\ Cardinality(Running') \in Nat /\ Cardinality(Running) \in Nat
      /\ Cardinality(Running') <= Cardinality(Running)
  BY <1>1, FS_Subset, FS_CardinalityType
<1> QED BY <1>2, RouterAssumption DEF Limit, RouterAssumption

-----------------------------------------------------------------------------
(* The router starts.                                                      *)

LEMMA InitTypes == Init => TypeOK
<1> SUFFICES ASSUME Init PROVE TypeOK
  OBVIOUS
<1>1. /\ status \in [Names -> Status \cup {NONE}]
      /\ owner \in [Names -> Procs \cup {NONE}]
      /\ joinable \in [Names -> BOOLEAN]
      /\ preset \in [Names -> Versions \cup {NONE}]
      /\ disk \in [Names -> Versions \cup {NONE}]
  BY ProcsAre, RouterAssumption DEF Init, RouterAssumption, Status
<1>2. /\ req \in [Clients -> [op : Ops, name : Names]]
      /\ pc \in [Clients -> ClientSteps] /\ ret \in [Clients -> ClientSteps]
  <2>1. req \in [Clients -> [op : Ops, name : Names]]
    BY DEF Init
  <2> QED BY <2>1 DEF Init, FirstStep, ClientSteps
<1>3. /\ snap \in [Clients -> [Names -> Versions \cup {NONE}]]
      /\ victim \in [Clients -> Names \cup {NONE}]
      /\ todo \in [Clients -> SUBSET Names] /\ targets \in [Clients -> SUBSET Names]
      /\ joins \in [Clients -> SUBSET Procs]
  BY DEF Init, Nothing
<1>4. /\ child \in [Procs -> {NONE, "loading", "ready", "sleeping", "dead"}]
      /\ line \in [Procs -> {NONE, "loading", "ready", "sleeping", "done"}]
      /\ cmd \in [Procs -> BOOLEAN] /\ stopped \in [Procs -> BOOLEAN]
      /\ mon \in [Procs -> {NONE, "log", "request_exit", "reap", "done"}]
      /\ stopper \in [Procs -> {NONE, "wait", "poll", "done"}]
  BY DEF Init
<1> QED BY <1>1, <1>2, <1>3, <1>4 DEF Init, TypeOK

LEMMA InitInv == Init => RouterInv
<1> SUFFICES ASSUME Init PROVE RouterInv
  OBVIOUS
<1>1. TypeOK
  BY InitTypes
<1>2. \A p \in Startup : name(p) = p /\ ~downloads(p)
  BY ProcsAre DEF name, downloads
<1>3. ASSUME NEW n \in Names PROVE EntryOK(n)
  <2>1. CASE n \in Startup
    BY <1>2, <2>1, ProcsAre DEF Init, EntryOK, NONE
  <2>2. CASE n \notin Startup
    <3>1. owner[n] = NONE /\ ~joinable[n] /\ status[n] \in {NONE, "unloaded"}
      BY <2>2 DEF Init
    <3> QED BY <3>1 DEF EntryOK, is_running, NONE
  <2> QED BY <2>1, <2>2
<1>4. ASSUME NEW p \in Procs PROVE ProcOK(p)
  <2>1. CASE p \in Startup
    <3>1. /\ owner[p] = p /\ status[p] = "loading" /\ mon[p] = "log" /\ child[p] = "loading"
          /\ line[p] = NONE
      BY <2>1, ProcsAre DEF Init
    <3> QED BY <1>2, <2>1, <3>1 DEF ProcOK, ServesOwn, is_running, NONE
  <2>2. CASE p \notin Startup
    <3>1. mon[p] = NONE /\ child[p] = NONE /\ line[p] = NONE /\ stopper[p] = NONE
      BY <2>2 DEF Init
    <3> QED BY <3>1 DEF ProcOK, ServesOwn, DownloadsOwn, NONE
  <2> QED BY <2>1, <2>2
<1>5. ASSUME NEW c \in Clients PROVE ClientOK(c)
  <2>1. /\ mon[c] = NONE /\ ret[c] = "end" /\ main = "serve"
        /\ pc[c] \in {"exists", "remove", "disk", "meta"}
    BY ProcsAre DEF Init, FirstStep
  <2> QED BY <2>1 DEF ClientOK
<1>6. Limit
  <2>1. Running = Startup
    BY ProcsAre DEF Init, Running, is_running, NONE
  <2> QED BY <2>1, RouterAssumption DEF Limit, RouterAssumption
<1> QED BY <1>1, <1>3, <1>4, <1>5, <1>6 DEF RouterInv, Entries, Processes, Requested

-----------------------------------------------------------------------------
(* Steps that move a request and change no entry.                          *)

\* A child may die in such a step, but only one that was started.
MayDie == \A p \in Procs : child'[p] = child[p] \/ (mon[p] # NONE /\ child'[p] = "dead")

LEMMA Moves ==
  ASSUME RouterInv, TypeOK', MayDie, NEW c \in Clients,
         UNCHANGED <<status, owner, joinable, mon, line, stopper, req, main, held>>,
         \A d \in Clients : d # c => pc'[d] = pc[d] /\ ret'[d] = ret[d] /\ victim'[d] = victim[d],
         pc[c] # "join_old", ClientOK(c)'
  PROVE  RouterInv'
<1> USE DEF RouterInv
<1>1. Entries'
  BY EntryKept DEF Entries
<1>2. Processes'
  <2> SUFFICES ASSUME NEW p \in Procs PROVE ProcOK(p)'
    BY DEF Processes, Procs
  <2>1. downloads(p) /\ pc[p] = "join_old" => pc'[p] = "join_old"
    BY DEF downloads
  <2> QED BY <2>1, ProcKept DEF Processes, MayDie
<1>3. Requested'
  <2> SUFFICES ASSUME NEW d \in Clients, d # c PROVE ClientOK(d)'
    BY DEF Requested
  <2> QED BY ClientKept DEF Requested
<1>4. Limit'
  BY LimitKept
<1> QED BY <1>1, <1>2, <1>3, <1>4

\* Where a request may go on from where it is.
LEMMA Walks ==
  ASSUME RouterInv, NEW c \in Clients, UNCHANGED <<mon, req, main>>,
         pc[c] # "end", pc'[c] \notin {"join_old", "remove_join"},
         pc'[c] \in BeforeLoad => pc[c] \in BeforeLoad, ret' = ret,
         pc[c] \in ReloadSteps => pc'[c] \in ReloadSteps,
         pc'[c] \in {"lru_unload", "lru_wait"} => victim'[c] \in Names
  PROVE  ClientOK(c)'
BY DEF RouterInv, Requested, ClientOK

LEMMA ReloadFirstStep ==
  ASSUME RouterInv, NEW c \in Clients,
         NEW from \in {"meta", "proxy"}, NEW back \in {"lookup", "proxy_lookup"},
         from = "proxy" => back = "proxy_lookup", ReloadFirst(c, from, back)
  PROVE  RouterInv'
<1> USE DEF RouterInv
<1>1. /\ pc[c] = from /\ pc' = [pc EXCEPT ![c] = "disk"] /\ ret' = [ret EXCEPT ![c] = back]
      /\ UNCHANGED <<entries, calm, children, req, victim, reload>>
  BY DEF ReloadFirst, Goto
<1>2. UNCHANGED <<status, owner, joinable, preset, stopping_models, is_reloading, need_reload,
         held, aborted, disk, edits, req, victim, snap, todo, targets, joins, main, main_join,
         child, line, cmd, stopped, mon, stopper, asked>>
  BY <1>1 DEF entries, calm, flags, files, shut, children, process, threads, reload
<1>3. TypeOK'
  BY <1>1, <1>2 DEF TypeOK, ClientSteps, Procs
<1>4. ClientOK(c)'
  BY <1>1, <1>2 DEF TypeOK, Requested, ClientOK, ReloadSteps, BeforeLoad
<1>5. \A d \in Clients : d # c => pc'[d] = pc[d] /\ ret'[d] = ret[d] /\ victim'[d] = victim[d]
  BY <1>1 DEF TypeOK
<1> QED BY <1>1, <1>2, <1>3, <1>4, <1>5, Moves DEF MayDie

\* Steps that read the mapping and go on.
Reads(c) ==
  \/ Lookup(c) \/ WaitLoaded(c) \/ ProxyLookup(c) \/ UnloadWait(c) \/ HasModel(c)
  \/ UnloadLru(c) \/ ReadDisk(c) \/ Diff(c) \/ JoinThreads(c)

LEMMA ReadsChange ==
  ASSUME NEW c \in Clients, Reads(c)
  PROVE  UNCHANGED <<status, owner, joinable, preset, stopping_models, held, aborted,
           disk, edits, req, ret, main, main_join, child, line, cmd, stopped, mon,
           stopper, asked>>
BY DEF Reads, Lookup, WaitLoaded, ProxyLookup, UnloadWait, HasModel, UnloadLru, ReadDisk, Diff,
       JoinThreads, entries, calm, flags, files, shut, local, children, process, threads,
       reload

LEMMA ReadsTypes ==
  ASSUME TypeOK, NEW c \in Clients, Reads(c)
  PROVE  TypeOK'
<1> USE DEF Goto
<1>1. UNCHANGED <<status, owner, joinable, preset, stopping_models, held, aborted,
           disk, edits, req, ret, main, main_join, child, line, cmd, stopped, mon,
           stopper, asked>>
  BY ReadsChange
<1>2. pc' \in [Clients -> ClientSteps]
  <2>1. \A op, s : NextByStatus(op, s) \in ClientSteps
    BY DEF NextByStatus, ClientSteps
  <2> QED BY <2>1 DEF TypeOK, ClientSteps, Reads, Lookup, WaitLoaded, ProxyLookup, UnloadWait,
                      HasModel, UnloadLru, ReadDisk, Diff, JoinThreads
<1>3. /\ snap' \in [Clients -> [Names -> Versions \cup {NONE}]]
      /\ victim' \in [Clients -> Names \cup {NONE}]
      /\ todo' \in [Clients -> SUBSET Names] /\ targets' \in [Clients -> SUBSET Names]
      /\ joins' \in [Clients -> SUBSET Procs]
      /\ is_reloading' \in BOOLEAN /\ need_reload' \in BOOLEAN
  <2> USE DEF local, reload, calm, flags
  <2>1. CASE ReadDisk(c)
    BY <2>1 DEF ReadDisk, TypeOK
  <2>2. CASE UnloadLru(c)
    <3>1. \/ \E v \in Names : victim' = [victim EXCEPT ![c] = v]
          \/ victim' = victim
      BY <2>2 DEF UnloadLru, Running
    <3>2. victim' \in [Clients -> Names \cup {NONE}]
      BY <3>1 DEF TypeOK
    <3> QED BY <2>2, <3>2 DEF UnloadLru, TypeOK
  <2>3. CASE Diff(c)
    BY <2>3 DEF Diff, TypeOK, Running
  <2>4. CASE JoinThreads(c)
    BY <2>4 DEF JoinThreads, TypeOK
  <2>5. CASE UNCHANGED <<local, flags>>
    BY <2>5 DEF TypeOK
  <2>6. Lookup(c) \/ WaitLoaded(c) \/ ProxyLookup(c) \/ UnloadWait(c) \/ HasModel(c)
          => UNCHANGED <<local, flags>>
    BY DEF Lookup, WaitLoaded, ProxyLookup, UnloadWait, HasModel
  <2> QED BY <2>1, <2>2, <2>3, <2>4, <2>5, <2>6 DEF Reads
<1> QED BY <1>1, <1>2, <1>3 DEF TypeOK, Procs

LEMMA ReadsStep ==
  ASSUME RouterInv, NEW c \in Clients, Reads(c)
  PROVE  RouterInv'
<1> USE DEF RouterInv
<1>1. /\ TypeOK'
      /\ UNCHANGED <<status, owner, joinable, preset, stopping_models, held, aborted,
           disk, edits, req, ret, main, main_join, child, line, cmd, stopped, mon,
           stopper, asked>>
  BY ReadsTypes, ReadsChange
<1>2. \E s : pc' = [pc EXCEPT ![c] = s]
  BY DEF Reads, Lookup, WaitLoaded, ProxyLookup, UnloadWait, HasModel, UnloadLru, ReadDisk,
         Diff, JoinThreads, Goto
<1>3. /\ pc[c] # "end" /\ pc[c] # "join_old" /\ pc'[c] \notin {"join_old", "remove_join"}
      /\ pc'[c] \in BeforeLoad => pc[c] \in BeforeLoad
      /\ pc[c] \in ReloadSteps => pc'[c] \in ReloadSteps
  <2> USE DEF Goto, TypeOK, BeforeLoad, ReloadSteps
  <2>1. CASE Lookup(c)
    <3>1. \A op, s : NextByStatus(op, s) \in {"end", "proxy", "load", "wait_loaded", "unload"}
      BY DEF NextByStatus
    <3> QED BY <2>1, <3>1 DEF Lookup
  <2>2. CASE ~Lookup(c)
    BY <2>2 DEF Reads, WaitLoaded, ProxyLookup, UnloadWait, HasModel, UnloadLru, ReadDisk, Diff,
                JoinThreads
  <2> QED BY <2>1, <2>2
<1>4. /\ pc'[c] \in {"lru_unload", "lru_wait"} => victim'[c] \in Names
      /\ \A d \in Clients : d # c => victim'[d] = victim[d]
  <2>1. CASE UnloadLru(c)
    BY <2>1 DEF UnloadLru, TypeOK, Goto, Running
  <2>2. CASE ~UnloadLru(c)
    <3>1. victim' = victim
      BY <2>2 DEF Reads, Lookup, WaitLoaded, ProxyLookup, UnloadWait, HasModel, ReadDisk,
                  Diff, JoinThreads, local
    <3>2. pc'[c] \notin {"lru_unload", "lru_wait"}
      <4>1. \A op, s : NextByStatus(op, s) \in {"end", "proxy", "load", "wait_loaded", "unload"}
        BY DEF NextByStatus
      <4>2. pc \in [Clients -> ClientSteps]
        BY DEF TypeOK
      <4>3. CASE Lookup(c)
        BY <4>1, <4>2, <4>3 DEF Lookup, Goto
      <4> QED BY <2>2, <4>2, <4>3 DEF Reads, WaitLoaded, ProxyLookup, UnloadWait, HasModel,
                   ReadDisk, Diff, JoinThreads, Goto
    <3> QED BY <3>1, <3>2
  <2> QED BY <2>1, <2>2
<1>5. ClientOK(c)'
  BY <1>1, <1>3, <1>4, Walks
<1>6. \A d \in Clients : d # c => pc'[d] = pc[d] /\ ret'[d] = ret[d] /\ victim'[d] = victim[d]
  BY <1>1, <1>2, <1>4 DEF TypeOK
<1> QED BY <1>1, <1>3, <1>5, <1>6, Moves DEF MayDie

-----------------------------------------------------------------------------
(* Steps that ask a model to stop.                                         *)

LEMMA UnloadDoes ==
  ASSUME RouterInv, NEW n \in Names, unload(n)
  PROVE  /\ child' \in [Procs -> {NONE, "loading", "ready", "sleeping", "dead"}]
         /\ cmd' \in [Procs -> BOOLEAN] /\ stopped' \in [Procs -> BOOLEAN]
         /\ stopping_models' \subseteq Names /\ asked' \subseteq Procs
         /\ line' = line /\ MayDie
<1> USE DEF RouterInv
<1>1. /\ owner[n] \in Procs \cup {NONE}
      /\ is_running(status[n]) => owner[n] \in Procs /\ mon[owner[n]] # NONE
  BY DEF TypeOK, Entries, EntryOK
<1>2. CASE CancelDownload(n)
  BY <1>1, <1>2 DEF CancelDownload, TypeOK, MayDie
<1>3. CASE StopModel(n)
  BY <1>1, <1>3 DEF StopModel, TypeOK, MayDie
<1>4. CASE NothingToStop(n)
  BY <1>4 DEF NothingToStop, TypeOK, MayDie, process
<1> QED BY <1>2, <1>3, <1>4 DEF unload

\* What the requests do that call unload.
LEMMA Stops ==
  ASSUME RouterInv, NEW c \in Clients, NEW n \in Names, unload(n), NEW s \in ClientSteps,
         pc' = [pc EXCEPT ![c] = s], todo' \in [Clients -> SUBSET Names],
         UNCHANGED <<entries, flags, held, aborted, files, shut, threads, req, ret, victim,
                     snap, targets, joins>>,
         pc[c] \notin {"end", "join_old"}, s \notin BeforeLoad \ {"lru_wait"},
         s \notin {"lru_unload", "join_old", "remove_join"},
         s = "lru_wait" => pc[c] = "lru_unload",
         pc[c] \in ReloadSteps => s \in ReloadSteps
  PROVE  RouterInv'
<1> USE DEF RouterInv
<1>1. UNCHANGED <<status, owner, joinable, preset, is_reloading, need_reload, held, aborted,
         disk, edits, main, main_join, mon, stopper, req, ret, victim, snap, targets, joins>>
  BY DEF entries, flags, files, shut, threads
<1>2. /\ child' \in [Procs -> {NONE, "loading", "ready", "sleeping", "dead"}]
      /\ cmd' \in [Procs -> BOOLEAN] /\ stopped' \in [Procs -> BOOLEAN]
      /\ stopping_models' \subseteq Names /\ asked' \subseteq Procs
      /\ line' = line /\ MayDie
  BY UnloadDoes
<1>3. /\ pc' \in [Clients -> ClientSteps] /\ pc'[c] = s
      /\ \A d \in Clients : d # c => pc'[d] = pc[d] /\ ret'[d] = ret[d] /\ victim'[d] = victim[d]
  BY <1>1 DEF TypeOK
<1>4. TypeOK'
  BY <1>1, <1>2, <1>3 DEF TypeOK, Procs
<1>5. ClientOK(c)'
  <2>1. s \in {"lru_unload", "lru_wait"} => victim[c] \in Names
    BY DEF Requested, ClientOK
  <2> QED BY <1>1, <1>3, <2>1, Walks DEF BeforeLoad
<1> QED BY <1>1, <1>2, <1>3, <1>4, <1>5, Moves

LEMMA UnloadStep ==
  ASSUME RouterInv, NEW c \in Clients, Unload(c) \/ LruUnload(c) \/ UnloadEach(c)
  PROVE  RouterInv'
<1>0. req[c].name \in Names /\ pc \in [Clients -> ClientSteps]
      /\ todo \in [Clients -> SUBSET Names]
  BY DEF RouterInv, TypeOK
<1>1. CASE Unload(c)
  BY <1>0, <1>1, Stops DEF Unload, Goto, ClientSteps, BeforeLoad, ReloadSteps, local, reload
<1>2. CASE LruUnload(c)
  <2>1. victim[c] \in Names
    BY <1>2 DEF LruUnload, RouterInv, Requested, ClientOK
  <2> QED BY <1>0, <1>2, <2>1, Stops
          DEF LruUnload, Goto, ClientSteps, BeforeLoad, ReloadSteps, local, reload
<1>3. CASE UnloadEach(c)
  <2>1. PICK n \in todo[c] : unload(n) /\ todo' = [todo EXCEPT ![c] = @ \ {n}]
    BY <1>3 DEF UnloadEach
  <2>2. n \in Names /\ todo' \in [Clients -> SUBSET Names]
    BY <1>0, <2>1
  <2>3. pc[c] = "unload_each" /\ pc' = [pc EXCEPT ![c] = "unload_each"]
    BY <1>0, <1>3 DEF UnloadEach
  <2> QED BY <1>3, <2>1, <2>2, <2>3, Stops DEF UnloadEach, ClientSteps, BeforeLoad, ReloadSteps
<1> QED BY <1>1, <1>2, <1>3

LEMMA RemoveStep ==
  ASSUME RouterInv, NEW c \in Clients, Remove(c)
  PROVE  RouterInv'
<1>0. req[c].name \in Names /\ pc \in [Clients -> ClientSteps]
      /\ todo \in [Clients -> SUBSET Names]
  BY DEF RouterInv, TypeOK
<1>1. CASE Removable(req[c].name)
  BY <1>0, <1>1, Stops DEF Remove, Goto, ClientSteps, BeforeLoad, ReloadSteps, local, reload
<1>2. CASE ~Removable(req[c].name)
  <2> USE DEF RouterInv
  <2>1. /\ pc[c] = "remove" /\ pc' = [pc EXCEPT ![c] = "end"]
        /\ UNCHANGED <<status, owner, joinable, preset, is_reloading, need_reload, held, aborted,
             disk, edits, main, main_join, mon, stopper, req, ret, victim, snap, todo, targets,
             joins, stopping_models, asked, child, line, cmd, stopped>>
    BY <1>2 DEF Remove, Goto, entries, flags, files, shut, threads, local, reload, process
  <2>2. TypeOK'
    BY <2>1 DEF TypeOK, ClientSteps, Procs
  <2>3. ClientOK(c)'
    BY <1>0, <2>1, Walks DEF BeforeLoad, ReloadSteps
  <2> QED BY <1>0, <2>1, <2>2, <2>3, Moves DEF MayDie
<1> QED BY <1>1, <1>2

-----------------------------------------------------------------------------
(* Steps that change an entry.                                             *)

LEMMA NobodyHolds ==
  ASSUME RouterInv, held = NONE
  PROVE  \A c \in Clients : pc[c] \notin {"join_old", "remove_join"}
BY ProcsAre DEF RouterInv, Requested, ClientOK

LEMMA OwnEntry ==
  ASSUME RouterInv, NEW p \in Procs, owner[name(p)] = p
  PROVE  status[name(p)] # NONE /\ mon[p] # NONE
BY ProcsAre, NamesAre DEF RouterInv, Entries, EntryOK

\* What the requests do that use a subscript and go on.
LEMMA Subscripts ==
  ASSUME RouterInv, NEW c \in Clients, NEW n \in Names, Subscript(n) \/ UNCHANGED entries,
         CanLock, NEW s \in {"load_locked", "wait_loaded", "end"},
         pc' = [pc EXCEPT ![c] = s], pc[c] \in {"touch", "lru_wait", "load_locked"},
         s = "load_locked" => pc[c] = "lru_wait",
         victim' \in [Clients -> Names \cup {NONE}],
         \A d \in Clients : d # c => victim'[d] = victim[d],
         UNCHANGED <<calm, children, req, ret, reload>>
  PROVE  RouterInv'
<1> USE DEF RouterInv
<1>1. UNCHANGED <<stopping_models, is_reloading, need_reload, held, aborted, disk, edits, main,
         main_join, child, line, cmd, stopped, mon, stopper, asked, req, ret, snap, todo,
         targets, joins>>
  BY DEF calm, flags, files, shut, children, process, threads, reload
<1>2. /\ status' = [status EXCEPT ![n] = IF @ = NONE THEN "unloaded" ELSE @] \/ status' = status
      /\ UNCHANGED <<owner, joinable, preset>>
  BY DEF Subscript, entries
<1>3. TypeOK'
  <2>1. status' \in [Names -> Status \cup {NONE}] /\ pc' \in [Clients -> ClientSteps]
    BY <1>2 DEF TypeOK, Status, ClientSteps
  <2> QED BY <1>1, <1>2, <2>1 DEF TypeOK, Procs
<1>4. ASSUME NEW m \in Names PROVE EntryOK(m)'
  <2>1. CASE status'[m] = status[m]
    BY <1>1, <1>2, <2>1, EntryKept DEF Entries
  <2>2. CASE status'[m] # status[m]
    <3>1. /\ status[m] = NONE /\ status'[m] = "unloaded" /\ owner[m] = NONE /\ ~joinable[m]
      BY <1>2, <2>2 DEF TypeOK, Entries, EntryOK
    <3> QED BY <1>1, <1>2, <3>1 DEF EntryOK, is_running, NONE
  <2> QED BY <2>1, <2>2
<1>5. ASSUME NEW p \in Procs PROVE ProcOK(p)'
  <2>1. owner[name(p)] = p => status'[name(p)] = status[name(p)]
    <3>1. name(p) \in Names
      BY NamesAre
    <3> QED BY <1>2, <3>1, OwnEntry DEF TypeOK
  <2>2. downloads(p) /\ pc[p] = "join_old" => pc'[p] = "join_old"
    BY NobodyHolds DEF CanLock, downloads
  <2> QED BY <1>1, <1>2, <2>1, <2>2, ProcKept DEF Processes
<1>6. ASSUME NEW d \in Clients, d # c PROVE ClientOK(d)'
  <2>1. pc'[d] = pc[d]
    BY <1>6 DEF TypeOK
  <2> QED BY <1>1, <1>6, <2>1, NobodyHolds, ClientKept DEF Requested, CanLock
<1>7. ClientOK(c)'
  <2>1. pc'[c] = s
    BY DEF TypeOK
  <2> QED BY <1>1, <2>1, Walks DEF BeforeLoad, ReloadSteps
<1>8. Limit'
  BY <1>2, LimitKept DEF TypeOK, is_running, NONE
<1> QED BY <1>3, <1>4, <1>5, <1>6, <1>7, <1>8 DEF Entries, Processes, Requested, Procs

LEMMA SubscriptStep ==
  ASSUME RouterInv, NEW c \in Clients, Touch(c) \/ LruWait(c) \/ LoadRefused(c)
  PROVE  RouterInv'
<1>0. /\ req[c].name \in Names /\ victim \in [Clients -> Names \cup {NONE}]
      /\ pc[c] = "lru_wait" => victim[c] \in Names
  BY DEF RouterInv, TypeOK, Requested, ClientOK
<1>1. CASE Touch(c)
  BY <1>0, <1>1, Subscripts DEF Touch, Goto, local
<1>2. CASE LruWait(c)
  <2>1. victim' = [victim EXCEPT ![c] = NONE]
    BY <1>2 DEF LruWait
  <2>2. /\ victim' \in [Clients -> Names \cup {NONE}]
        /\ \A d \in Clients : d # c => victim'[d] = victim[d]
    BY <1>0, <2>1
  <2> QED BY <1>0, <1>2, <2>2, Subscripts DEF LruWait, Goto
<1>3. CASE LoadRefused(c)
  <2>1. PICK s \in {"wait_loaded", "end"} : pc' = [pc EXCEPT ![c] = s]
    BY <1>3 DEF LoadRefused, Goto, AfterLoad
  <2>2. /\ pc[c] = "load_locked" /\ CanLock
        /\ Subscript(req[c].name) \/ UNCHANGED entries
        /\ UNCHANGED <<calm, children, req, ret, victim, reload>>
    BY <1>3 DEF LoadRefused, local
  <2> QED BY <1>0, <2>1, <2>2, Subscripts
<1> QED BY <1>1, <1>2, <1>3

-----------------------------------------------------------------------------
(* A child is started and put in the mapping.                              *)

\* What a child says of the mapping no longer depends on its entry.
Silent(p) ==
  IF downloads(p) THEN child[p] # "loading" /\ line[p] # "done"
                  ELSE mon[p] \notin {"log", "reap"}

LEMMA SilentKept ==
  ASSUME NEW p \in Procs, ProcOK(p), Silent(p), req' = req,
         mon'[p] = mon[p], line'[p] = line[p], stopper'[p] = stopper[p],
         child'[p] = child[p] \/ (child[p] # NONE /\ child'[p] = "dead")
  PROVE  ProcOK(p)'
BY NamesKept DEF ProcOK, ServesOwn, DownloadsOwn, Silent, name, downloads, NONE

\* An entry whose thread need not be joined is nobody's any more.
LEMMA Overwritten ==
  ASSUME RouterInv, NEW p \in Procs, owner[name(p)] = p,
         downloads(p) => pc[p] # "join_old",
         mon[p] = "done" \/ (main = "serve" /\ ~Unjoined(name(p)))
  PROVE  Silent(p)
<1>1. name(p) \in Names /\ ProcOK(p) /\ EntryOK(name(p))
  BY NamesAre DEF RouterInv, Processes, Entries
<1>2. is_running(status[name(p)]) \/ status[name(p)] = "downloading" => mon[p] = "done"
  BY <1>1 DEF EntryOK, Unjoined
<1> QED BY <1>1, <1>2 DEF ProcOK, ServesOwn, DownloadsOwn, Silent

LEMMA InstallTypes ==
  ASSUME TypeOK, NEW c \in Clients, Install(c)
  PROVE  /\ status' \in [Names -> Status \cup {NONE}]
         /\ owner' \in [Names -> Procs \cup {NONE}]
         /\ joinable' \in [Names -> BOOLEAN]
         /\ preset' \in [Names -> Versions \cup {NONE}]
BY ProcsAre DEF TypeOK, Install, Status

LEMMA InstallIs ==
  ASSUME TypeOK, NEW c \in Clients, Install(c)
  PROVE  LET n == req[c].name IN
         /\ n \in Names
         /\ status'[n] = (IF downloads(c) THEN "downloading" ELSE "loading")
         /\ owner'[n] = c /\ joinable'[n]
         /\ \A m \in Names : m # n => /\ status'[m] = status[m] /\ owner'[m] = owner[m]
                                     /\ joinable'[m] = joinable[m]
BY DEF TypeOK, Install

\* How many run when the model n may be added.
LEMMA OneMore ==
  ASSUME Limit, ~Full, NEW n \in Names,
         \A m \in Names : is_running(status'[m]) => m = n \/ is_running(status[m])
  PROVE  Limit'
<1>1. IsFiniteSet(Running) /\ Cardinality(Running) \in Nat
  BY RouterAssumption, FS_Subset, FS_CardinalityType DEF RouterAssumption, Running
<1>2. /\ IsFiniteSet(Running \cup {n})
      /\ Cardinality(Running \cup {n}) = Cardinality(Running)
         \/ Cardinality(Running \cup {n}) = Cardinality(Running) + 1
  BY <1>1, FS_AddElement
<1>3. Running' \in SUBSET (Running \cup {n})
  BY DEF Running
<1>4. Cardinality(Running') \in Nat /\ Cardinality(Running') <= Cardinality(Running \cup {n})
  BY <1>2, <1>3, FS_Subset, FS_CardinalityType
<1>5. ModelsMax > 0 => Cardinality(Running) < ModelsMax
  BY <1>1, RouterAssumption DEF Full, RouterAssumption
<1> QED BY <1>1, <1>2, <1>4, <1>5, RouterAssumption DEF Limit, RouterAssumption

LEMMA LoadSpawnIs ==
  ASSUME RouterInv, NEW c \in Clients, LoadSpawn(c)
  PROVE  /\ pc[c] = "load_locked" /\ held = NONE /\ main = "serve" /\ ~Full
         /\ mon[c] = NONE /\ child[c] = NONE /\ line[c] = NONE /\ ret[c] = "end"
         /\ req[c].name \in Names
         /\ downloads(c) \/ status[req[c].name] \in {"unloaded", NONE}
         /\ mon' = [mon EXCEPT ![c] = "log"] /\ stopper' = [stopper EXCEPT ![c] = "wait"]
         /\ child'[c] = "loading"
         /\ \A p \in Procs : p # c =>
              child'[p] = child[p] \/ (child[p] # NONE /\ child'[p] = "dead")
         /\ child' \in [Procs -> {NONE, "loading", "ready", "sleeping", "dead"}]
         /\ UNCHANGED <<stopping_models, is_reloading, need_reload, aborted, disk, edits, main,
              main_join, line, cmd, stopped, asked, req, ret, victim, snap, todo, targets,
              joins>>
<1> USE DEF RouterInv
<1>1. /\ pc[c] = "load_locked" /\ CanLock /\ ~Full
      /\ downloads(c) \/ status[req[c].name] \in {"unloaded", NONE}
      /\ mon' = [mon EXCEPT ![c] = "log"] /\ stopper' = [stopper EXCEPT ![c] = "wait"]
      /\ child' = [p \in Procs |-> IF p = c THEN "loading"
                     ELSE IF p = owner[req[c].name] /\ child[p] # NONE THEN "dead" ELSE child[p]]
  BY DEF LoadSpawn
<1>2. UNCHANGED <<stopping_models, is_reloading, need_reload, aborted, disk, edits, main,
              main_join, line, cmd, stopped, asked, req, ret, victim, snap, todo, targets,
              joins>>
  BY DEF LoadSpawn, flags, files, shut, local, reload
<1>3. mon[c] = NONE /\ ret[c] = "end" /\ main = "serve" /\ ProcOK(c)
  BY <1>1, ProcsAre DEF Requested, ClientOK, BeforeLoad, ReloadSteps, Processes
<1>4. child[c] = NONE /\ line[c] = NONE
  BY <1>3 DEF ProcOK
<1>5. /\ child'[c] = "loading"
      /\ \A p \in Procs : p # c =>
           child'[p] = child[p] \/ (child[p] # NONE /\ child'[p] = "dead")
      /\ child' \in [Procs -> {NONE, "loading", "ready", "sleeping", "dead"}]
  BY <1>1, ProcsAre DEF TypeOK
<1>6. req[c].name \in Names
  BY DEF TypeOK
<1> QED BY <1>1, <1>2, <1>3, <1>4, <1>5, <1>6 DEF CanLock

LEMMA SpawnTypes ==
  ASSUME RouterInv, NEW c \in Clients, LoadSpawn(c)
  PROVE  TypeOK'
<1>1. TypeOK
  BY DEF RouterInv
<1>2. /\ mon' \in [Procs -> {NONE, "log", "request_exit", "reap", "done"}]
      /\ stopper' \in [Procs -> {NONE, "wait", "poll", "done"}]
      /\ child' \in [Procs -> {NONE, "loading", "ready", "sleeping", "dead"}]
  <2>1. /\ mon' = [mon EXCEPT ![c] = "log"] /\ stopper' = [stopper EXCEPT ![c] = "wait"]
        /\ child' \in [Procs -> {NONE, "loading", "ready", "sleeping", "dead"}]
    BY LoadSpawnIs
  <2> QED BY <1>1, <2>1 DEF TypeOK
<1>3. /\ status' \in [Names -> Status \cup {NONE}]
      /\ owner' \in [Names -> Procs \cup {NONE}]
      /\ joinable' \in [Names -> BOOLEAN]
      /\ preset' \in [Names -> Versions \cup {NONE}]
  <2>1. CASE Install(c)
    BY <1>1, <2>1, InstallTypes
  <2>2. CASE UNCHANGED entries
    BY <1>1, <2>2 DEF TypeOK, entries
  <2> QED BY <2>1, <2>2 DEF LoadSpawn
<1>4. pc' \in [Clients -> ClientSteps] /\ held' \in Clients \cup {NONE}
  BY <1>1 DEF TypeOK, LoadSpawn, Goto, ClientSteps, AfterLoad
<1> QED BY <1>1, <1>2, <1>3, <1>4, LoadSpawnIs DEF TypeOK, Procs

\* The new child takes the entry at once: its place was nobody's any more.
LEMMA SpawnInstalls ==
  ASSUME RouterInv, NEW c \in Clients, LoadSpawn(c), Install(c), ~Unjoined(req[c].name),
         pc' = [pc EXCEPT ![c] = AfterLoad(c)], held' = held
  PROVE  RouterInv'
<1> DEFINE n == req[c].name
<1> USE DEF RouterInv
<1>1. /\ pc[c] = "load_locked" /\ held = NONE /\ main = "serve" /\ ~Full
      /\ mon[c] = NONE /\ child[c] = NONE /\ line[c] = NONE /\ ret[c] = "end" /\ n \in Names
      /\ downloads(c) \/ status[n] \in {"unloaded", NONE}
      /\ mon' = [mon EXCEPT ![c] = "log"] /\ stopper' = [stopper EXCEPT ![c] = "wait"]
      /\ child'[c] = "loading"
      /\ \A p \in Procs : p # c =>
           child'[p] = child[p] \/ (child[p] # NONE /\ child'[p] = "dead")
      /\ UNCHANGED <<main, line, req, ret, victim>>
  BY LoadSpawnIs
<1>2. /\ status'[n] = (IF downloads(c) THEN "downloading" ELSE "loading")
      /\ owner'[n] = c /\ joinable'[n]
      /\ \A m \in Names : m # n => /\ status'[m] = status[m] /\ owner'[m] = owner[m]
                                   /\ joinable'[m] = joinable[m]
  BY InstallIs
<1>3. /\ c \in Procs /\ c # NONE /\ name(c) = n /\ TypeOK'
      /\ mon'[c] = "log" /\ \A p \in Procs : p # c => mon'[p] = mon[p] /\ stopper'[p] = stopper[p]
      /\ pc'[c] \in {"wait_loaded", "end"} /\ \A d \in Clients : d # c => pc'[d] = pc[d]
  BY <1>1, ProcsAre, SpawnTypes DEF name, TypeOK, AfterLoad
<1> HIDE DEF n
<1>4. ASSUME NEW m \in Names PROVE EntryOK(m)'
  <2>1. CASE m = n
    BY <1>1, <1>2, <1>3, <2>1, NamesKept DEF EntryOK, is_running, NONE, name, downloads
  <2>2. CASE m # n
    <3>1. owner[m] # NONE => owner[m] \in Procs /\ owner[m] # c
      BY <1>1 DEF Entries, EntryOK, TypeOK
    <3> QED BY <1>1, <1>2, <1>3, <2>2, <3>1, EntryKept DEF Entries
  <2> QED BY <2>1, <2>2
<1>5. ASSUME NEW p \in Procs PROVE ProcOK(p)'
  <2>1. CASE p = c
    BY <1>1, <1>2, <1>3, <2>1, NamesKept
       DEF ProcOK, ServesOwn, DownloadsOwn, is_running, NONE, name, downloads
  <2>2. CASE p # c /\ owner[name(p)] = p /\ name(p) = n
    <3>1. Silent(p)
      BY <1>1, <2>2, NobodyHolds, Overwritten DEF n, downloads
    <3> QED BY <1>1, <1>3, <2>2, <3>1, SilentKept DEF Processes
  <2>3. CASE p # c /\ ~(owner[name(p)] = p /\ name(p) = n)
    <3>1. owner[name(p)] = p => owner'[name(p)] = p /\ status'[name(p)] = status[name(p)]
      BY <1>2, <2>3, NamesAre
    <3>2. downloads(p) => pc[p] # "join_old"
      BY <1>1, NobodyHolds DEF downloads
    <3>3. child[p] # NONE => mon[p] # NONE
      BY DEF Processes, ProcOK
    <3> QED BY <1>1, <1>3, <2>3, <3>1, <3>2, <3>3, ProcKept DEF Processes
  <2> QED BY <2>1, <2>2, <2>3
<1>6. ASSUME NEW d \in Clients PROVE ClientOK(d)'
  <2>1. CASE d = c
    BY <1>1, <1>3, <2>1 DEF ClientOK, BeforeLoad, ReloadSteps, Requested
  <2>2. CASE d # c
    BY <1>1, <1>3, <2>2, ProcsAre, NobodyHolds, ClientKept DEF Requested
  <2> QED BY <2>1, <2>2
<1>7. Limit'
  <2>1. \A m \in Names : is_running(status'[m]) => m = n \/ is_running(status[m])
    BY <1>2
  <2> QED BY <1>1, <2>1, OneMore
<1> QED BY <1>3, <1>4, <1>5, <1>6, <1>7 DEF Entries, Processes, Requested, Procs

\* The thread of the old child is joined first: only a download gets here.
LEMMA SpawnJoins ==
  ASSUME RouterInv, NEW c \in Clients, LoadSpawn(c), UNCHANGED entries, Unjoined(req[c].name),
         pc' = [pc EXCEPT ![c] = "join_old"], held' = c
  PROVE  RouterInv'
<1> DEFINE n == req[c].name
<1> USE DEF RouterInv
<1>1. /\ pc[c] = "load_locked" /\ held = NONE /\ main = "serve"
      /\ mon[c] = NONE /\ child[c] = NONE /\ line[c] = NONE /\ ret[c] = "end" /\ n \in Names
      /\ downloads(c) \/ status[n] \in {"unloaded", NONE}
      /\ mon' = [mon EXCEPT ![c] = "log"] /\ stopper' = [stopper EXCEPT ![c] = "wait"]
      /\ child'[c] = "loading"
      /\ \A p \in Procs : p # c =>
           child'[p] = child[p] \/ (child[p] # NONE /\ child'[p] = "dead")
      /\ UNCHANGED <<main, line, req, ret, victim>>
  BY LoadSpawnIs
<1>2. UNCHANGED <<status, owner, joinable>>
  BY DEF entries
<1>3. /\ c \in Procs /\ c # NONE /\ name(c) = n /\ TypeOK'
      /\ mon'[c] = "log" /\ \A p \in Procs : p # c => mon'[p] = mon[p] /\ stopper'[p] = stopper[p]
      /\ pc'[c] = "join_old" /\ \A d \in Clients : d # c => pc'[d] = pc[d]
  BY <1>1, ProcsAre, SpawnTypes DEF name, TypeOK
<1>4. downloads(c)
  BY <1>1, ProcsAre DEF Unjoined, Entries, EntryOK
<1> HIDE DEF n
<1>5. ASSUME NEW m \in Names PROVE EntryOK(m)'
  <2>1. owner[m] # NONE => owner[m] \in Procs /\ owner[m] # c
    BY <1>1 DEF Entries, EntryOK, TypeOK
  <2> QED BY <1>1, <1>2, <1>3, <2>1, EntryKept DEF Entries
<1>6. ASSUME NEW p \in Procs PROVE ProcOK(p)'
  <2>1. CASE p = c
    BY <1>1, <1>3, <1>4, <2>1, NamesKept DEF ProcOK, ServesOwn, DownloadsOwn, NONE
  <2>2. CASE p # c
    <3>1. downloads(p) => pc[p] # "join_old"
      BY <1>1, NobodyHolds DEF downloads
    <3>2. child[p] # NONE => mon[p] # NONE
      BY DEF Processes, ProcOK
    <3> QED BY <1>1, <1>2, <1>3, <2>2, <3>1, <3>2, ProcKept DEF Processes
  <2> QED BY <2>1, <2>2
<1>7. ASSUME NEW d \in Clients PROVE ClientOK(d)'
  <2>1. CASE d = c
    BY <1>1, <1>3, <1>4, <2>1, NamesKept DEF ClientOK, BeforeLoad, ReloadSteps, Requested, NONE
  <2>2. CASE d # c
    BY <1>1, <1>3, <2>2, ProcsAre, NobodyHolds, ClientKept DEF Requested
  <2> QED BY <2>1, <2>2
<1>8. Limit'
  BY <1>2, LimitKept
<1> QED BY <1>3, <1>5, <1>6, <1>7, <1>8 DEF Entries, Processes, Requested, Procs

LEMMA LoadSpawnStep ==
  ASSUME RouterInv, NEW c \in Clients, LoadSpawn(c)
  PROVE  RouterInv'
BY SpawnInstalls, SpawnJoins DEF LoadSpawn, Goto

LEMMA JoinOldStep ==
  ASSUME RouterInv, NEW c \in Clients, JoinOld(c)
  PROVE  RouterInv'
<1> DEFINE n == req[c].name
<1> USE DEF RouterInv
<1>1. /\ pc[c] = "join_old" /\ mon[owner[n]] = "done" /\ Install(c)
      /\ held' = NONE /\ pc' = [pc EXCEPT ![c] = AfterLoad(c)]
      /\ UNCHANGED <<stopping_models, is_reloading, need_reload, aborted, disk, edits, main,
           main_join, child, line, cmd, stopped, mon, stopper, asked, req, ret, victim, snap,
           todo, targets, joins>>
  BY DEF JoinOld, Goto, flags, files, shut, children, process, threads, local, reload
<1>2. /\ held = c /\ downloads(c) /\ mon[c] # NONE /\ main = "serve" /\ ret[c] = "end"
      /\ n \in Names
  BY <1>1 DEF Requested, ClientOK, ReloadSteps, TypeOK
<1>3. /\ status'[n] = "downloading" /\ owner'[n] = c /\ joinable'[n]
      /\ \A m \in Names : m # n => /\ status'[m] = status[m] /\ owner'[m] = owner[m]
                                   /\ joinable'[m] = joinable[m]
  BY <1>1, <1>2, InstallIs
<1>4. /\ c \in Procs /\ c # NONE /\ name(c) = n
      /\ pc'[c] = "end" /\ \A d \in Clients : d # c => pc'[d] = pc[d]
      /\ pc' \in [Clients -> ClientSteps]
  BY <1>1, <1>2, ProcsAre DEF name, TypeOK, AfterLoad, downloads, ClientSteps
<1>5. TypeOK'
  BY <1>1, <1>4, InstallTypes DEF TypeOK, Procs
<1>6. \A d \in Clients : d # c => pc[d] \notin {"join_old", "remove_join"}
  BY <1>2 DEF Requested, ClientOK
<1> HIDE DEF n
<1>7. ASSUME NEW m \in Names PROVE EntryOK(m)'
  <2>1. CASE m = n
    BY <1>1, <1>2, <1>3, <1>4, <2>1, NamesKept DEF EntryOK, is_running, NONE, name, downloads
  <2>2. CASE m # n
    BY <1>1, <1>3, <2>2, EntryKept DEF Entries
  <2> QED BY <2>1, <2>2
<1>8. ASSUME NEW p \in Procs PROVE ProcOK(p)'
  <2>1. CASE p = c
    BY <1>1, <1>2, <1>3, <1>4, <2>1, NamesKept
       DEF Processes, ProcOK, ServesOwn, DownloadsOwn, name, downloads
  <2>2. CASE p # c /\ owner[name(p)] = p /\ name(p) = n
    <3>1. Silent(p)
      BY <1>1, <1>6, <2>2, Overwritten DEF n, downloads
    <3> QED BY <1>1, <2>2, <3>1, SilentKept DEF Processes
  <2>3. CASE p # c /\ ~(owner[name(p)] = p /\ name(p) = n)
    <3>1. owner[name(p)] = p => owner'[name(p)] = p /\ status'[name(p)] = status[name(p)]
      BY <1>3, <2>3, NamesAre
    <3>2. downloads(p) => pc[p] # "join_old"
      BY <1>6, <2>3 DEF downloads
    <3> QED BY <1>1, <2>3, <3>1, <3>2, ProcKept DEF Processes
  <2> QED BY <2>1, <2>2, <2>3
<1>9. ASSUME NEW d \in Clients PROVE ClientOK(d)'
  <2>1. CASE d = c
    BY <1>1, <1>2, <1>4, <2>1 DEF ClientOK, BeforeLoad, ReloadSteps, Requested
  <2>2. CASE d # c
    BY <1>1, <1>4, <1>6, <2>2, ClientKept DEF Requested
  <2> QED BY <2>1, <2>2
<1>10. Limit'
  <2>1. \A m \in Names : is_running(status'[m]) => is_running(status[m])
    BY <1>3 DEF is_running
  <2> QED BY <2>1, LimitKept
<1> QED BY <1>5, <1>7, <1>8, <1>9, <1>10 DEF Entries, Processes, Requested, Procs

-----------------------------------------------------------------------------
(* Entries are erased.                                                     *)

LEMMA Stopped ==
  ASSUME RouterInv, NEW p \in Procs, owner[name(p)] = p,
         downloads(p) => pc[p] # "join_old",
         ~is_running(status[name(p)]), status[name(p)] # "downloading"
  PROVE  Silent(p)
<1>1. ProcOK(p)
  BY DEF RouterInv, Processes
<1> QED BY <1>1 DEF ProcOK, ServesOwn, DownloadsOwn, Silent

LEMMA Erases ==
  ASSUME RouterInv, NEW c \in Clients, Erase(req[c].name),
         status[req[c].name] \in {"unloaded", "downloaded", NONE},
         pc[c] \in {"remove_wait", "remove_join"}, pc' = [pc EXCEPT ![c] = "end"],
         \A d \in Clients : d # c => pc[d] \notin {"join_old", "remove_join"},
         disk' = [disk EXCEPT ![req[c].name] = NONE], held' \in Clients \cup {NONE},
         UNCHANGED <<stopping_models, flags, aborted, edits, shut, children, local>>
  PROVE  RouterInv'
<1> DEFINE n == req[c].name
<1> USE DEF RouterInv
<1>1. UNCHANGED <<stopping_models, is_reloading, need_reload, aborted, edits, main,
           main_join, child, line, cmd, stopped, mon, stopper, asked, req, ret, victim, snap,
           todo, targets, joins>>
  BY DEF flags, shut, children, process, threads, local, reload
<1>2. /\ n \in Names /\ main = "serve" /\ ret[c] = "end"
      /\ pc'[c] = "end" /\ \A d \in Clients : d # c => pc'[d] = pc[d]
      /\ pc' \in [Clients -> ClientSteps]
  BY DEF TypeOK, Requested, ClientOK, ReloadSteps, ClientSteps
<1>3. /\ status'[n] = NONE /\ owner'[n] = NONE /\ ~joinable'[n]
      /\ \A m \in Names : m # n => /\ status'[m] = status[m] /\ owner'[m] = owner[m]
                                   /\ joinable'[m] = joinable[m]
  BY DEF TypeOK, Erase
<1>4. TypeOK'
  <2>1. /\ status' \in [Names -> Status \cup {NONE}]
        /\ owner' \in [Names -> Procs \cup {NONE}]
        /\ joinable' \in [Names -> BOOLEAN]
        /\ preset' \in [Names -> Versions \cup {NONE}]
        /\ disk' \in [Names -> Versions \cup {NONE}]
    BY DEF TypeOK, Erase
  <2> QED BY <1>1, <1>2, <2>1 DEF TypeOK, Procs
<1> HIDE DEF n
<1>5. ASSUME NEW m \in Names PROVE EntryOK(m)'
  <2>1. CASE m = n
    BY <1>3, <2>1 DEF EntryOK, is_running, NONE
  <2>2. CASE m # n
    BY <1>1, <1>3, <2>2, EntryKept DEF Entries
  <2> QED BY <2>1, <2>2
<1>6. ASSUME NEW p \in Procs PROVE ProcOK(p)'
  <2>1. downloads(p) => pc[p] # "join_old"
    BY DEF downloads
  <2>2. CASE owner[name(p)] = p /\ name(p) = n
    <3>1. Silent(p)
      BY <2>1, <2>2, Stopped DEF n, is_running, NONE
    <3> QED BY <1>1, <2>2, <3>1, SilentKept DEF Processes
  <2>3. CASE ~(owner[name(p)] = p /\ name(p) = n)
    <3>1. owner[name(p)] = p => owner'[name(p)] = p /\ status'[name(p)] = status[name(p)]
      BY <1>3, <2>3, NamesAre
    <3> QED BY <1>1, <2>1, <3>1, ProcKept DEF Processes
  <2> QED BY <2>2, <2>3
<1>7. ASSUME NEW d \in Clients PROVE ClientOK(d)'
  <2>1. CASE d = c
    BY <1>1, <1>2, <2>1 DEF ClientOK, BeforeLoad, ReloadSteps, Requested
  <2>2. CASE d # c
    BY <1>1, <1>2, <2>2, ClientKept DEF Requested
  <2> QED BY <2>1, <2>2
<1>8. Limit'
  BY <1>3, LimitKept DEF is_running, NONE
<1> QED BY <1>4, <1>5, <1>6, <1>7, <1>8 DEF Entries, Processes, Requested, Procs

LEMMA RemoveWaitStep ==
  ASSUME RouterInv, NEW c \in Clients, RemoveWait(c)
  PROVE  RouterInv'
<1>1. CASE Unjoined(req[c].name)
  <2> USE DEF RouterInv
  <2>1. /\ pc[c] = "remove_wait" /\ held = NONE
        /\ status[req[c].name] \in {"unloaded", "downloaded", NONE}
        /\ held' = c /\ pc' = [pc EXCEPT ![c] = "remove_join"]
        /\ UNCHANGED <<status, owner, joinable, preset, stopping_models, is_reloading,
             need_reload, aborted, disk, edits, main, main_join, child, line, cmd, stopped, mon,
             stopper, asked, req, ret, victim, snap, todo, targets, joins>>
    BY <1>1 DEF RemoveWait, CanLock, Goto, entries, flags, shut, children, process, threads,
                local, reload
  <2>2. /\ pc'[c] = "remove_join" /\ \A d \in Clients : d # c => pc'[d] = pc[d]
        /\ pc' \in [Clients -> ClientSteps]
    BY <2>1 DEF TypeOK, ClientSteps
  <2>3. TypeOK'
    BY <2>1, <2>2 DEF TypeOK, Procs
  <2>4. \A m \in Names : EntryOK(m)'
    BY <2>1, EntryKept DEF Entries
  <2>5. ASSUME NEW p \in Procs PROVE ProcOK(p)'
    <3>1. downloads(p) => pc[p] # "join_old"
      BY <2>1, NobodyHolds DEF downloads
    <3> QED BY <2>1, <3>1, ProcKept DEF Processes
  <2>6. ASSUME NEW d \in Clients PROVE ClientOK(d)'
    <3>1. CASE d = c
      BY <2>1, <2>2, <3>1 DEF ClientOK, BeforeLoad, ReloadSteps, Requested
    <3>2. CASE d # c
      BY <2>1, <2>2, <3>2, NobodyHolds, ClientKept DEF Requested
    <3> QED BY <3>1, <3>2
  <2>7. Limit'
    BY <2>1, LimitKept
  <2> QED BY <2>3, <2>4, <2>5, <2>6, <2>7 DEF Entries, Processes, Requested, Procs
<1>2. CASE ~Unjoined(req[c].name)
  <2>1. /\ pc[c] = "remove_wait" /\ held = NONE
        /\ status[req[c].name] \in {"unloaded", "downloaded", NONE}
        /\ Erase(req[c].name) /\ pc' = [pc EXCEPT ![c] = "end"] /\ held' = held
        /\ disk' = [disk EXCEPT ![req[c].name] = NONE]
        /\ UNCHANGED <<stopping_models, flags, aborted, edits, shut, children, local>>
    BY <1>2 DEF RemoveWait, CanLock, Goto
  <2> QED BY <2>1, NobodyHolds, Erases
<1> QED BY <1>1, <1>2

LEMMA RemoveJoinStep ==
  ASSUME RouterInv, NEW c \in Clients, RemoveJoin(c)
  PROVE  RouterInv'
<1>1. /\ pc[c] = "remove_join" /\ Erase(req[c].name) /\ pc' = [pc EXCEPT ![c] = "end"]
      /\ held' = NONE /\ disk' = [disk EXCEPT ![req[c].name] = NONE]
      /\ UNCHANGED <<stopping_models, flags, aborted, edits, shut, children, local>>
  BY DEF RemoveJoin, Goto
<1>2. /\ status[req[c].name] \in {"unloaded", "downloaded", NONE}
      /\ \A d \in Clients : d # c => pc[d] \notin {"join_old", "remove_join"}
  BY <1>1 DEF RouterInv, Requested, ClientOK
<1> QED BY <1>1, <1>2, Erases

-----------------------------------------------------------------------------
(* A reload changes the mapping.                                           *)

\* What the steps of a reload do to the entries, and where they go on.
LEMMA Reloads ==
  ASSUME RouterInv, TypeOK', NEW c \in Clients, held = NONE,
         pc[c] \in ReloadSteps, pc'[c] \notin {"lru_unload", "lru_wait", "join_old", "remove_join"},
         ret'[c] \in {"end", "lookup", "proxy_lookup"}, ret'[c] # "end" => pc'[c] \in ReloadSteps,
         pc'[c] \in BeforeLoad \/ ret'[c] = "lookup" => ret[c] = "lookup",
         \A d \in Clients : d # c => pc'[d] = pc[d] /\ ret'[d] = ret[d],
         UNCHANGED <<mon, child, line, stopper, req, victim, held, main>>,
         \A n \in Names : EntryOK(n)',
         \A n \in Names : \/ owner'[n] = owner[n] /\ status'[n] = status[n]
                          \/ ~is_running(status[n]) /\ status[n] # "downloading",
         \A n \in Names : is_running(status'[n]) => is_running(status[n])
  PROVE  RouterInv'
<1> USE DEF RouterInv
<1>1. ASSUME NEW p \in Procs PROVE ProcOK(p)'
  <2>1. name(p) \in Names /\ (downloads(p) => pc[p] # "join_old")
    BY NobodyHolds, NamesAre DEF downloads
  <2>2. CASE owner'[name(p)] = owner[name(p)] /\ status'[name(p)] = status[name(p)]
    BY <2>1, <2>2, ProcKept DEF Processes
  <2>3. CASE ~is_running(status[name(p)]) /\ status[name(p)] # "downloading"
    <3>1. CASE owner[name(p)] = p
      BY <2>1, <2>3, <3>1, Stopped, SilentKept DEF Processes
    <3>2. CASE owner[name(p)] # p
      BY <2>1, <3>2, ProcKept DEF Processes
    <3> QED BY <3>1, <3>2
  <2> QED BY <2>1, <2>2, <2>3
<1>2. ASSUME NEW d \in Clients PROVE ClientOK(d)'
  <2>1. CASE d = c
    <3>1. ClientOK(c) /\ main = "serve"
      BY DEF Requested, ClientOK, ReloadSteps
    <3> QED BY <2>1, <3>1 DEF ClientOK
  <2>2. CASE d # c
    BY <2>2, NobodyHolds, ClientKept DEF Requested
  <2> QED BY <2>1, <2>2
<1>3. Limit'
  BY LimitKept
<1> QED BY <1>1, <1>2, <1>3 DEF Entries, Processes, Requested, Procs

LEMMA FirstLoadStep ==
  ASSUME RouterInv, NEW c \in Clients, FirstLoad(c)
  PROVE  RouterInv'
<1> USE DEF RouterInv
<1>1. /\ pc[c] = "diff" /\ held = NONE /\ \A n \in Names : status[n] = NONE
      /\ status' = [n \in Names |-> IF snap[c][n] = NONE THEN NONE ELSE "unloaded"]
      /\ preset' = snap[c] /\ need_reload' = FALSE /\ pc' = [pc EXCEPT ![c] = ret[c]]
      /\ snap' = [snap EXCEPT ![c] = Nothing] /\ ret' = [ret EXCEPT ![c] = "end"]
      /\ UNCHANGED <<owner, joinable, stopping_models, is_reloading, held, aborted, disk, edits,
           main, main_join, child, line, cmd, stopped, mon, stopper, asked, req, victim, todo,
           targets, joins>>
  BY DEF FirstLoad, CanLock, Goto, files, shut, children, process, threads
<1>2. /\ pc'[c] = ret[c] /\ ret'[c] = "end" /\ ret[c] \in {"end", "lookup", "proxy_lookup"}
      /\ \A d \in Clients : d # c => pc'[d] = pc[d] /\ ret'[d] = ret[d]
  BY <1>1 DEF TypeOK, Requested, ClientOK
<1>3. TypeOK'
  <2>1. /\ status' \in [Names -> Status \cup {NONE}]
        /\ preset' \in [Names -> Versions \cup {NONE}]
    BY <1>1 DEF TypeOK, Status
  <2>2. snap' \in [Clients -> [Names -> Versions \cup {NONE}]]
    BY <1>1 DEF TypeOK, Nothing
  <2>3. pc' \in [Clients -> ClientSteps] /\ ret' \in [Clients -> ClientSteps]
    BY <1>1, <1>2 DEF TypeOK, ClientSteps
  <2> QED BY <1>1, <2>1, <2>2, <2>3 DEF TypeOK, Procs
<1>4. ASSUME NEW n \in Names PROVE EntryOK(n)'
  <2>1. owner[n] = NONE /\ ~joinable[n] /\ status'[n] \in {NONE, "unloaded"}
    BY <1>1 DEF Entries, EntryOK
  <2> QED BY <1>1, <2>1 DEF EntryOK, is_running, NONE
<1>5. \A n \in Names : ~is_running(status[n]) /\ status[n] # "downloading" /\ ~is_running(status'[n])
  BY <1>1 DEF is_running, NONE
<1> QED BY <1>1, <1>2, <1>3, <1>4, <1>5, Reloads DEF ReloadSteps, BeforeLoad

LEMMA CollectStep ==
  ASSUME RouterInv, NEW c \in Clients, Collect(c)
  PROVE  RouterInv'
<1> USE DEF RouterInv
<1>1. /\ pc[c] = "unload_each" /\ held = NONE
      /\ \A n \in targets[c] : ~is_running(status[n]) /\ DownloadEnded(n)
      /\ joins' = [joins EXCEPT ![c] = {owner[n] : n \in ToJoin(c)}]
      /\ joinable' = [n \in Names |-> joinable[n] /\ n \notin ToJoin(c)]
      /\ targets' = [targets EXCEPT ![c] = {}] /\ pc' = [pc EXCEPT ![c] = "join"]
      /\ UNCHANGED <<status, owner, preset, stopping_models, is_reloading, need_reload, held,
           aborted, disk, edits, main, main_join, child, line, cmd, stopped, mon, stopper, asked,
           req, ret, victim, snap, todo>>
  BY DEF Collect, CanLock, Goto, calm, flags, files, shut, children, process, threads
<1>2. /\ pc'[c] = "join" /\ ClientOK(c)
      /\ \A d \in Clients : d # c => pc'[d] = pc[d] /\ ret'[d] = ret[d]
  BY <1>1 DEF TypeOK, Requested
<1>3. TypeOK'
  <2>1. {owner[n] : n \in ToJoin(c)} \in SUBSET Procs
    BY DEF ToJoin, TypeOK, Entries, EntryOK
  <2>2. joins' \in [Clients -> SUBSET Procs] /\ targets' \in [Clients -> SUBSET Names]
    BY <1>1, <2>1 DEF TypeOK
  <2>3. joinable' \in [Names -> BOOLEAN] /\ pc' \in [Clients -> ClientSteps]
    BY <1>1 DEF TypeOK, ClientSteps
  <2> QED BY <1>1, <2>2, <2>3 DEF TypeOK, Procs
<1>4. ASSUME NEW n \in Names PROVE EntryOK(n)'
  <2>1. is_running(status[n]) \/ status[n] = "downloading" => n \notin ToJoin(c)
    BY <1>1 DEF ToJoin, DownloadEnded, is_running
  <2>2. joinable'[n] <=> joinable[n] /\ n \notin ToJoin(c)
    BY <1>1
  <2> QED BY <1>1, <2>1, <2>2, NamesKept DEF Entries, EntryOK, name, downloads
<1> QED BY <1>1, <1>2, <1>3, <1>4, Reloads DEF ReloadSteps, BeforeLoad, ClientOK

LEMMA EraseAndAddStep ==
  ASSUME RouterInv, NEW c \in Clients, EraseAndAdd(c)
  PROVE  RouterInv'
<1> DEFINE gone == Obsolete(c)
           new  == {n \in Names : snap[c][n] # NONE /\ (n \in gone \/ status[n] = NONE)}
<1> USE DEF RouterInv
<1>1. /\ pc[c] = "erase" /\ held = NONE /\ \A n \in gone : ~joinable[n]
      /\ status' = [n \in Names |-> IF n \in new THEN "unloaded"
                                    ELSE IF n \in gone THEN NONE ELSE status[n]]
      /\ owner' = [n \in Names |-> IF n \in gone THEN NONE ELSE owner[n]]
      /\ is_reloading' = FALSE /\ pc' = [pc EXCEPT ![c] = ret[c]]
      /\ snap' = [snap EXCEPT ![c] = Nothing] /\ ret' = [ret EXCEPT ![c] = "end"]
      /\ UNCHANGED <<joinable, stopping_models, need_reload, held, aborted, disk, edits, main,
           main_join, child, line, cmd, stopped, mon, stopper, asked, req, victim, todo, targets,
           joins>>
  BY DEF EraseAndAdd, CanLock, Goto, files, shut, children, process, threads
<1>2. preset' \in [Names -> Versions \cup {NONE}]
  <2>1. \A n \in Names : /\ snap[c][n] \in Versions \cup {NONE}
                         /\ preset[n] \in Versions \cup {NONE}
    BY DEF TypeOK
  <2> QED BY <2>1 DEF EraseAndAdd
<1>3. /\ pc'[c] = ret[c] /\ ret'[c] = "end" /\ ret[c] \in {"end", "lookup", "proxy_lookup"}
      /\ \A d \in Clients : d # c => pc'[d] = pc[d] /\ ret'[d] = ret[d]
      /\ main = "serve"
  BY <1>1 DEF TypeOK, Requested, ClientOK
<1>4. TypeOK'
  <2>1. /\ status' \in [Names -> Status \cup {NONE}]
        /\ owner' \in [Names -> Procs \cup {NONE}]
    BY <1>1 DEF TypeOK, Status
  <2>2. snap' \in [Clients -> [Names -> Versions \cup {NONE}]]
    BY <1>1 DEF TypeOK, Nothing
  <2>3. pc' \in [Clients -> ClientSteps] /\ ret' \in [Clients -> ClientSteps]
    BY <1>1, <1>3 DEF TypeOK, ClientSteps
  <2> QED BY <1>1, <1>2, <2>1, <2>2, <2>3 DEF TypeOK, Procs
<1>5. ASSUME NEW n \in Names
      PROVE  /\ n \in gone => ~is_running(status[n]) /\ status[n] # "downloading" /\ ~joinable[n]
             /\ n \in new /\ n \notin gone => status[n] = NONE /\ owner[n] = NONE
             /\ n \notin gone /\ n \notin new => owner'[n] = owner[n] /\ status'[n] = status[n]
             /\ n \in gone \/ n \in new => owner'[n] = NONE /\ status'[n] \in {NONE, "unloaded"}
  <2>1. n \in gone => ~is_running(status[n]) /\ status[n] # "downloading" /\ ~joinable[n]
    BY <1>1, <1>3 DEF Entries, EntryOK, Obsolete, is_running
  <2>2. n \in new /\ n \notin gone => status[n] = NONE /\ owner[n] = NONE
    BY DEF Entries, EntryOK
  <2> HIDE DEF gone, new
  <2> QED BY <1>1, <2>1, <2>2
<1> HIDE DEF gone, new
<1>6. ASSUME NEW n \in Names PROVE EntryOK(n)'
  <2>1. CASE n \notin gone /\ n \notin new
    BY <1>1, <1>5, <2>1, EntryKept DEF Entries
  <2>2. CASE n \in gone \/ n \in new
    <3>1. ~joinable[n]
      BY <1>5, <2>2 DEF Entries, EntryOK
    <3> QED BY <1>1, <1>5, <2>2, <3>1 DEF EntryOK, is_running, NONE
  <2> QED BY <2>1, <2>2
<1>7. \A n \in Names :
        /\ \/ owner'[n] = owner[n] /\ status'[n] = status[n]
           \/ ~is_running(status[n]) /\ status[n] # "downloading"
        /\ is_running(status'[n]) => is_running(status[n])
  BY <1>5 DEF is_running, NONE
<1> QED BY <1>1, <1>3, <1>4, <1>6, <1>7, Reloads DEF ReloadSteps, BeforeLoad

LEMMA EraseAbortsStep ==
  ASSUME RouterInv, NEW c \in Clients, EraseAborts(c)
  PROVE  RouterInv'
<1> USE DEF RouterInv
<1>1. /\ aborted' = TRUE
      /\ UNCHANGED <<status, owner, joinable, preset, stopping_models, is_reloading,
           need_reload, held, disk, edits, main, main_join, child, line, cmd, stopped, mon,
           stopper, asked, req, pc, ret, victim, snap, todo, targets, joins>>
  BY DEF EraseAborts, entries, flags, files, http, shut, children, process, threads, reload
<1>2. TypeOK'
  BY <1>1 DEF TypeOK, Procs
<1>3. ClientOK(c)'
  BY <1>1, ClientKept DEF Requested
<1> QED BY <1>1, <1>2, <1>3, ClientKept, EntryKept, ProcKept, LimitKept
    DEF Entries, Processes, Requested, Procs

-----------------------------------------------------------------------------
(* A child and the threads that watch it.                                  *)

\* A step of p disturbs what is said of p and of the entry of its name.
LEMMA Alone ==
  ASSUME RouterInv, TypeOK', NEW p \in Procs, mon[p] # NONE, mon'[p] # NONE,
         UNCHANGED <<owner, joinable, req, pc, ret, victim, held, main>>,
         \A q \in Procs : q # p => /\ mon'[q] = mon[q] /\ line'[q] = line[q]
                                   /\ child'[q] = child[q] /\ stopper'[q] = stopper[q],
         \A n \in Names : n # name(p) => status'[n] = status[n],
         \/ status'[name(p)] = status[name(p)]
         \/ held = NONE /\ owner[name(p)] = p /\ is_running(status[name(p)])
         \/ held = NONE /\ owner[name(p)] = p /\ ~is_running(status'[name(p)]),
         EntryOK(name(p))', ProcOK(p)'
  PROVE  RouterInv'
<1> USE DEF RouterInv
<1>1. ASSUME NEW n \in Names, n # name(p) PROVE EntryOK(n)'
  <2>1. owner[n] # NONE => owner[n] \in Procs /\ owner[n] # p
    BY <1>1 DEF Entries, EntryOK, TypeOK
  <2> QED BY <1>1, <2>1, EntryKept DEF Entries
<1>2. ASSUME NEW q \in Procs, q # p PROVE ProcOK(q)'
  <2>1. owner[name(q)] = q => status'[name(q)] = status[name(q)]
    BY <1>2, NamesAre
  <2> QED BY <1>2, <2>1, ProcKept DEF Processes
<1>3. ASSUME NEW c \in Clients PROVE ClientOK(c)'
  <2>1. mon[c] = NONE <=> mon'[c] = NONE
    BY ProcsAre
  <2>2. pc[c] \in {"join_old", "remove_join"} =>
          held' = held /\ status'[req[c].name] = status[req[c].name]
    <3>1. req[c].name \in Names
      BY DEF TypeOK
    <3> QED BY <3>1, NobodyHolds
  <2> QED BY <2>1, <2>2, ClientKept DEF Requested
<1>4. Limit'
  BY LimitKept
<1> QED BY <1>1, <1>2, <1>3, <1>4, NamesAre, NamesKept DEF Entries, Processes, Requested, Procs

\* ... and a step that leaves the mapping and the monitoring thread as they are
\* only disturbs what is said of p.
LEMMA AloneQuiet ==
  ASSUME RouterInv, TypeOK', NEW p \in Procs, mon[p] # NONE,
         UNCHANGED <<status, owner, joinable, req, pc, ret, victim, held, main, mon>>,
         \A q \in Procs : q # p => /\ line'[q] = line[q] /\ child'[q] = child[q]
                                   /\ stopper'[q] = stopper[q],
         ProcOK(p)'
  PROVE  RouterInv'
<1>1. EntryOK(name(p))'
  BY NamesAre, NamesKept, EntryKept DEF RouterInv, Entries, EntryOK, name, downloads
<1> QED BY <1>1, Alone

LEMMA ChildStep ==
  ASSUME RouterInv, NEW p \in Procs, Child(p)
  PROVE  RouterInv'
<1> USE DEF RouterInv
<1>1. /\ child[p] \notin {NONE, "dead"}
      /\ UNCHANGED <<status, owner, joinable, preset, stopping_models, is_reloading, need_reload,
           held, aborted, edits, main, main_join, cmd, stopped, mon, stopper, asked, req, pc, ret,
           victim, snap, todo, targets, joins>>
  BY DEF Child, ChildReports, DownloadEnds, ChildExits, ChildCrashes, Reports, entries, others,
         flags, http, shut, files, threads, reload, NONE
<1>2. ProcOK(p) /\ mon[p] # NONE /\ child \in [Procs -> {NONE, "loading", "ready", "sleeping", "dead"}]
      /\ line \in [Procs -> {NONE, "loading", "ready", "sleeping", "done"}]
  BY <1>1 DEF Processes, ProcOK, TypeOK
<1>3. /\ child' \in [Procs -> {NONE, "loading", "ready", "sleeping", "dead"}]
      /\ line' \in [Procs -> {NONE, "loading", "ready", "sleeping", "done"}]
      /\ \A q \in Procs : q # p => child'[q] = child[q] /\ line'[q] = line[q]
      /\ ProcOK(p)'
  <2>1. CASE ChildReports(p)
    <3>1. /\ ~downloads(p) /\ child' = [child EXCEPT ![p] = child'[p]]
          /\ line' = [line EXCEPT ![p] = line'[p]]
          /\ child'[p] \in {"ready", "sleeping", "loading"} /\ line'[p] = child'[p]
      BY <1>2, <2>1 DEF ChildReports, Reports
    <3>2. mon[p] = "log"
      BY <1>1, <1>2, <3>1 DEF ProcOK, ServesOwn
    <3> QED BY <1>1, <1>2, <3>1, <3>2, NamesKept DEF ProcOK, ServesOwn, name, downloads, NONE
  <2>2. CASE DownloadEnds(p)
    <3>1. /\ downloads(p) /\ child[p] = "loading" /\ child' = [child EXCEPT ![p] = "ready"]
          /\ line' = [line EXCEPT ![p] = "done"]
      BY <2>2 DEF DownloadEnds
    <3> QED BY <1>1, <1>2, <3>1, NamesKept DEF ProcOK, DownloadsOwn, name, downloads, NONE
  <2>3. CASE ChildExits(p) \/ ChildCrashes(p)
    <3>1. child' = [child EXCEPT ![p] = "dead"] /\ line' = line
      BY <2>3 DEF ChildExits, ChildCrashes
    <3> QED BY <1>1, <1>2, <3>1, ProcKept
  <2> QED BY <2>1, <2>2, <2>3 DEF Child
<1>4. TypeOK'
  <2>1. disk' \in [Names -> Versions \cup {NONE}]
    <3>1. disk' = disk \/ \E v \in Versions : disk' = [disk EXCEPT ![name(p)] = v]
      BY DEF Child, ChildReports, DownloadEnds, ChildExits, ChildCrashes, files
    <3> QED BY <3>1 DEF TypeOK
  <2> QED BY <1>1, <1>3, <2>1 DEF TypeOK, Procs
<1> QED BY <1>1, <1>2, <1>3, <1>4, AloneQuiet

LEMMA StopperStep ==
  ASSUME RouterInv, NEW p \in Procs, Stopper(p)
  PROVE  RouterInv'
<1> USE DEF RouterInv
<1>1. /\ stopper[p] # NONE
      /\ UNCHANGED <<status, owner, joinable, preset, stopping_models, is_reloading, need_reload,
           held, aborted, disk, edits, main, main_join, line, stopped, mon, asked, req, pc, ret,
           victim, snap, todo, targets, joins>>
  BY DEF Stopper, StopperAsks, StopperEnds, entries, others, flags, http, shut, files, reload,
         process, NONE
<1>2. ProcOK(p) /\ mon[p] # NONE
  BY <1>1 DEF Processes, ProcOK
<1>3. /\ stopper' \in [Procs -> {NONE, "wait", "poll", "done"}] /\ cmd' \in [Procs -> BOOLEAN]
      /\ child' \in [Procs -> {NONE, "loading", "ready", "sleeping", "dead"}]
      /\ child'[p] \in {child[p], "dead"}
      /\ \A q \in Procs : q # p => child'[q] = child[q] /\ stopper'[q] = stopper[q]
  <2>1. CASE StopperAsks(p)
    BY <2>1 DEF StopperAsks, TypeOK
  <2>2. CASE StopperEnds(p)
    BY <2>2 DEF StopperEnds, TypeOK
  <2> QED BY <2>1, <2>2 DEF Stopper
<1>4. TypeOK'
  BY <1>1, <1>3 DEF TypeOK, Procs
<1>5. ProcOK(p)'
  BY <1>1, <1>2, <1>3, ProcKept
<1> QED BY <1>1, <1>2, <1>3, <1>4, <1>5, AloneQuiet

\* An entry keeps what is said of it while its monitoring thread goes on.
LEMMA EntryWatched ==
  ASSUME RouterInv, NEW p \in Procs, NEW n \in Names, n = name(p),
         UNCHANGED <<status, owner, joinable, req, main>>,
         \A q \in Procs : q # p => mon'[q] = mon[q],
         mon[p] \notin {NONE, "done"}, mon'[p] # NONE,
         ~downloads(p) => mon'[p] \in {"log", "reap"}
  PROVE  EntryOK(n)'
<1>1. EntryOK(n) /\ owner[n] \in Procs \cup {NONE}
  BY DEF RouterInv, Entries, TypeOK
<1> QED BY <1>1, NamesKept DEF EntryOK, name, downloads

LEMMA HandleStateStep ==
  ASSUME RouterInv, NEW p \in Procs, HandleState(p)
  PROVE  RouterInv'
<1> DEFINE n == name(p)
<1> USE DEF RouterInv
<1>1. /\ mon[p] = "log" /\ held = NONE /\ line[p] \in {"loading", "ready", "sleeping"}
      /\ status' = [status EXCEPT ![n] = IF @ = NONE THEN NONE
                                         ELSE IF line[p] = "ready" THEN "loaded" ELSE line[p]]
      /\ line' = [line EXCEPT ![p] = NONE]
      /\ UNCHANGED <<owner, joinable, preset, stopping_models, is_reloading, need_reload, held,
           aborted, disk, edits, main, main_join, child, cmd, stopped, mon, stopper, asked, req,
           pc, ret, victim, snap, todo, targets, joins>>
  BY DEF HandleState, CanLock, others, flags, http, shut, files, threads, reload
<1>2. n \in Names /\ ProcOK(p) /\ EntryOK(n)
  BY NamesAre DEF Processes, Entries
<1>3. ~downloads(p) /\ owner[n] = p /\ is_running(status[n])
  BY <1>1, <1>2 DEF ProcOK, ServesOwn, DownloadsOwn, NONE
<1>4. status' \in [Names -> Status \cup {NONE}] /\ is_running(status'[n]) /\ line'[p] = NONE
      /\ line' \in [Procs -> {NONE, "loading", "ready", "sleeping", "done"}]
      /\ \A m \in Names : m # n => status'[m] = status[m]
      /\ \A q \in Procs : q # p => line'[q] = line[q]
  BY <1>1, <1>2, <1>3 DEF TypeOK, Status, is_running, NONE
<1>5. TypeOK'
  BY <1>1, <1>4 DEF TypeOK, Procs
<1> HIDE DEF n
<1>6. EntryOK(n)'
  <2> SUFFICES ASSUME NEW m \in Names, m = n PROVE EntryOK(m)'
    BY <1>1, <1>2, NamesKept DEF n
  <2> QED BY <1>1, <1>2, <1>3, <1>4, NamesKept DEF EntryOK, is_running, name, downloads, NONE
<1>7. ProcOK(p)'
  BY <1>1, <1>2, <1>3, <1>4, NamesKept DEF n, ProcOK, ServesOwn, name, downloads, NONE
<1> QED BY <1>1, <1>2, <1>3, <1>4, <1>5, <1>6, <1>7, Alone, NamesKept DEF n, NONE

LEMMA HandleDoneStep ==
  ASSUME RouterInv, NEW p \in Procs, HandleDone(p)
  PROVE  RouterInv'
<1> DEFINE n == name(p)
<1> USE DEF RouterInv
<1>1. /\ mon[p] = "log" /\ held = NONE /\ line[p] = "done"
      /\ status' = [status EXCEPT ![n] = IF @ = NONE THEN NONE ELSE "downloaded"]
      /\ need_reload' = (need_reload \/ status[n] # NONE)
      /\ line' = [line EXCEPT ![p] = NONE] /\ mon' = [mon EXCEPT ![p] = "request_exit"]
      /\ UNCHANGED <<owner, joinable, preset, stopping_models, is_reloading, held,
           aborted, disk, edits, main, main_join, child, cmd, stopped, stopper, asked, req,
           pc, ret, victim, snap, todo, targets, joins>>
  BY DEF HandleDone, CanLock, http, shut, files, reload
<1>2. n \in Names /\ ProcOK(p) /\ EntryOK(n) /\ (downloads(p) => pc[p] # "join_old")
  BY <1>1, NamesAre, NobodyHolds DEF Processes, Entries, downloads
<1>3. downloads(p) /\ owner[n] = p /\ status[n] = "downloading" /\ child[p] # "loading"
  BY <1>1, <1>2 DEF ProcOK, ServesOwn, DownloadsOwn
<1>4. /\ status' \in [Names -> Status \cup {NONE}] /\ status'[n] = "downloaded" /\ line'[p] = NONE
      /\ mon'[p] = "request_exit"
      /\ line' \in [Procs -> {NONE, "loading", "ready", "sleeping", "done"}]
      /\ mon' \in [Procs -> {NONE, "log", "request_exit", "reap", "done"}]
      /\ \A m \in Names : m # n => status'[m] = status[m]
      /\ \A q \in Procs : q # p => line'[q] = line[q] /\ mon'[q] = mon[q]
  BY <1>1, <1>2, <1>3 DEF TypeOK, Status, NONE
<1>5. TypeOK'
  BY <1>1, <1>4 DEF TypeOK, Procs
<1> HIDE DEF n
<1>6. EntryOK(n)'
  <2> SUFFICES ASSUME NEW m \in Names, m = n PROVE EntryOK(m)'
    BY <1>1, <1>2, NamesKept DEF n
  <2> QED BY <1>1, <1>2, <1>3, <1>4, NamesKept DEF EntryOK, is_running, name, downloads, NONE
<1>7. ProcOK(p)'
  BY <1>1, <1>2, <1>3, <1>4, NamesKept DEF n, ProcOK, DownloadsOwn, name, downloads, NONE
<1>8. ~is_running(status'[n])
  BY <1>4 DEF is_running
<1> QED BY <1>1, <1>2, <1>3, <1>4, <1>5, <1>6, <1>7, <1>8, Alone, NamesKept DEF n, NONE

LEMMA RequestExitStep ==
  ASSUME RouterInv, NEW p \in Procs, RequestExit(p)
  PROVE  RouterInv'
<1> USE DEF RouterInv
<1>1. /\ mon[p] = "request_exit" /\ mon' = [mon EXCEPT ![p] = "log"] /\ aborted' \in BOOLEAN
      /\ UNCHANGED <<status, owner, joinable, preset, stopping_models, is_reloading, need_reload,
           held, disk, edits, main, main_join, child, line, stopper, asked, req, pc, ret, victim,
           snap, todo, targets, joins>>
  BY DEF RequestExit, entries, flags, http, shut, files, reload
<1>2. cmd' \in [Procs -> BOOLEAN] /\ stopped' \in [Procs -> BOOLEAN]
  BY DEF RequestExit, TypeOK
<1>3. name(p) \in Names /\ ProcOK(p)
  BY NamesAre DEF Processes
<1>4. downloads(p) /\ child[p] # "loading" /\ line[p] # "done"
  BY <1>1, <1>3 DEF ProcOK, ServesOwn, DownloadsOwn
<1>5. /\ mon'[p] = "log" /\ \A q \in Procs : q # p => mon'[q] = mon[q]
      /\ mon' \in [Procs -> {NONE, "log", "request_exit", "reap", "done"}]
  BY <1>1 DEF TypeOK
<1>6. TypeOK'
  BY <1>1, <1>2, <1>5 DEF TypeOK, Procs
<1>7. EntryOK(name(p))'
  BY <1>1, <1>3, <1>4, <1>5, EntryWatched, NamesKept DEF EntryOK, name, downloads, NONE
<1>8. ProcOK(p)'
  BY <1>1, <1>3, <1>4, <1>5, NamesKept DEF ProcOK, DownloadsOwn, name, downloads, NONE
<1> QED BY <1>1, <1>5, <1>6, <1>7, <1>8, Alone DEF NONE

LEMMA ChildGoneStep ==
  ASSUME RouterInv, NEW p \in Procs, ChildGone(p)
  PROVE  RouterInv'
<1> USE DEF RouterInv
<1>1. /\ mon[p] = "log" /\ child[p] = "dead" /\ line[p] = NONE
      /\ mon' = [mon EXCEPT ![p] = "reap"] /\ stopped' = [stopped EXCEPT ![p] = TRUE]
      /\ stopping_models' = stopping_models \ {name(p)}
      /\ UNCHANGED <<status, owner, joinable, preset, is_reloading, need_reload, held, aborted,
           disk, edits, main, main_join, child, line, cmd, stopper, asked, req, pc, ret, victim,
           snap, todo, targets, joins>>
  BY DEF ChildGone, entries, flags, http, shut, files, reload
<1>2. name(p) \in Names /\ ProcOK(p)
  BY NamesAre DEF Processes
<1>3. /\ mon'[p] = "reap" /\ \A q \in Procs : q # p => mon'[q] = mon[q]
      /\ mon' \in [Procs -> {NONE, "log", "request_exit", "reap", "done"}]
  BY <1>1 DEF TypeOK
<1>4. TypeOK'
  BY <1>1, <1>3 DEF TypeOK, Procs
<1>5. EntryOK(name(p))'
  BY <1>1, <1>2, <1>3, EntryWatched, NamesKept DEF EntryOK, name, downloads, NONE
<1>6. ProcOK(p)'
  BY <1>1, <1>2, <1>3, NamesKept DEF ProcOK, ServesOwn, DownloadsOwn, name, downloads, NONE
<1> QED BY <1>1, <1>3, <1>4, <1>5, <1>6, Alone DEF NONE

LEMMA MarkUnloadedStep ==
  ASSUME RouterInv, NEW p \in Procs, MarkUnloaded(p)
  PROVE  RouterInv'
<1> DEFINE n == name(p)
<1> USE DEF RouterInv
<1>1. /\ mon[p] = "reap" /\ mon' = [mon EXCEPT ![p] = "done"]
      /\ IF downloads(p) THEN status' = status
         ELSE /\ held = NONE
              /\ status' = [status EXCEPT ![n] = IF @ = NONE THEN NONE ELSE "unloaded"]
      /\ UNCHANGED <<owner, joinable, preset, stopping_models, is_reloading, need_reload, held,
           aborted, disk, edits, main, main_join, child, line, cmd, stopped, stopper, asked, req,
           pc, ret, victim, snap, todo, targets, joins>>
  BY DEF MarkUnloaded, CanLock, others, flags, http, shut, files, process, reload
<1>2. n \in Names /\ ProcOK(p) /\ EntryOK(n)
  BY NamesAre DEF Processes, Entries
<1>3. ~downloads(p) => owner[n] = p /\ is_running(status[n]) /\ child[p] \in {NONE, "dead"}
  BY <1>1, <1>2 DEF ProcOK, ServesOwn
<1>4. /\ status' \in [Names -> Status \cup {NONE}] /\ mon'[p] = "done"
      /\ mon' \in [Procs -> {NONE, "log", "request_exit", "reap", "done"}]
      /\ \A m \in Names : m # n => status'[m] = status[m]
      /\ \A q \in Procs : q # p => mon'[q] = mon[q]
      /\ ~downloads(p) => status'[n] = "unloaded"
  BY <1>1, <1>2, <1>3 DEF TypeOK, Status, is_running, NONE
<1>5. TypeOK'
  BY <1>1, <1>4 DEF TypeOK, Procs
<1> HIDE DEF n
<1>6. EntryOK(n)'
  <2> SUFFICES ASSUME NEW m \in Names, m = n PROVE EntryOK(m)'
    BY <1>1, <1>2, NamesKept DEF n
  <2>1. CASE downloads(p)
    <3>1. owner[n] = p => ~is_running(status[n])
      BY <1>2, <2>1 DEF EntryOK
    <3>2. owner[n] \in Procs \cup {NONE}
      BY <1>2 DEF TypeOK
    <3> QED BY <1>1, <1>2, <1>4, <2>1, <3>1, <3>2, NamesKept DEF EntryOK, name, downloads, NONE
  <2>2. CASE ~downloads(p)
    BY <1>1, <1>2, <1>3, <1>4, <2>2, ProcsAre, NamesKept
       DEF n, EntryOK, is_running, name, downloads, NONE
  <2> QED BY <2>1, <2>2
<1>7. ProcOK(p)'
  BY <1>1, <1>2, <1>3, <1>4, NamesKept
     DEF n, ProcOK, ServesOwn, DownloadsOwn, name, downloads, NONE
<1> QED BY <1>1, <1>2, <1>3, <1>4, <1>5, <1>6, <1>7, Alone, NamesKept DEF n, NONE

-----------------------------------------------------------------------------
(* The end of the router, and the files.                                   *)

LEMMA UnloadAllStep ==
  ASSUME RouterInv, UnloadAll
  PROVE  RouterInv'
<1> USE DEF RouterInv
<1>1. /\ main = "serve" /\ \A c \in Clients : pc[c] = "end"
      /\ stopping_models' = stopping_models \cup Running
      /\ asked' = asked \cup {owner[n] : n \in Running}
      /\ main_join' = {owner[n] : n \in {n \in Names : joinable[n]}}
      /\ joinable' = [n \in Names |-> FALSE] /\ main' = "join"
      /\ UNCHANGED <<status, owner, preset, is_reloading, need_reload, held, aborted, disk, edits,
           child, line, cmd, mon, stopper, req, pc, ret, victim, snap, todo, targets, joins>>
  BY DEF UnloadAll, flags, files, http, threads, reload
<1>2. stopped' \in [Procs -> BOOLEAN]
  <2>1. \E down : stopped' = [p \in Procs |-> stopped[p] \/ p \in down]
    BY DEF UnloadAll
  <2> QED BY <2>1 DEF TypeOK
<1>3. /\ stopping_models' \subseteq Names /\ asked' \subseteq Procs /\ main_join' \subseteq Procs
  <2>1. \A n \in Names : is_running(status[n]) \/ joinable[n] => owner[n] \in Procs
    BY DEF TypeOK, Entries, EntryOK
  <2> QED BY <1>1, <2>1 DEF TypeOK, Running
<1>4. TypeOK'
  BY <1>1, <1>2, <1>3 DEF TypeOK, Procs
<1>5. ASSUME NEW n \in Names PROVE EntryOK(n)'
  BY <1>1, NamesKept DEF Entries, EntryOK, name, downloads
<1>6. ASSUME NEW p \in Procs PROVE ProcOK(p)'
  BY <1>1, ProcKept DEF Processes
<1>7. ASSUME NEW c \in Clients PROVE ClientOK(c)'
  BY <1>1, ClientKept DEF Requested
<1>8. Limit'
  BY <1>1, LimitKept
<1> QED BY <1>4, <1>5, <1>6, <1>7, <1>8 DEF Entries, Processes, Requested, Procs

\* Steps that none of the parts of the invariant but the types speaks of.
LEMMA ApartStep ==
  ASSUME RouterInv, JoinAll \/ (\E n \in Names : EditDisk(n)) \/ UNCHANGED vars
  PROVE  RouterInv'
<1> USE DEF RouterInv
<1>1. UNCHANGED <<status, owner, joinable, preset, stopping_models, is_reloading, need_reload,
        held, aborted, req, pc, ret, victim, snap, todo, targets, joins, child, line, cmd, stopped,
        mon, stopper, asked>>
  BY DEF JoinAll, EditDisk, vars, entries, flags, files, http, shut, children, process, threads,
         reload
<1>2. \/ main' = main
      \/ main = "join" /\ main' = "exit"
  BY DEF JoinAll, EditDisk, vars, shut
<1>3. /\ disk' \in [Names -> Versions \cup {NONE}] /\ edits' \in Nat
      /\ main' \in {"serve", "join", "exit"} /\ main_join' \subseteq Procs
  <2>1. CASE JoinAll
    BY <2>1 DEF JoinAll, TypeOK, files
  <2>2. CASE \E n \in Names : EditDisk(n)
    <3>1. PICK n \in Names : EditDisk(n)
      BY <2>2
    <3>2. PICK u \in Versions \cup {NONE} : disk' = [disk EXCEPT ![n] = u]
      BY <3>1 DEF EditDisk
    <3> QED BY <3>1, <3>2 DEF EditDisk, TypeOK, shut
  <2>3. CASE UNCHANGED vars
    BY <2>3 DEF vars, files, shut, TypeOK
  <2> QED BY <2>1, <2>2, <2>3
<1>4. TypeOK'
  BY <1>1, <1>3 DEF TypeOK, Procs
<1>5. ASSUME NEW n \in Names PROVE EntryOK(n)'
  BY <1>1, <1>2, NamesKept DEF Entries, EntryOK, name, downloads
<1>6. ASSUME NEW p \in Procs PROVE ProcOK(p)'
  BY <1>1, ProcKept DEF Processes
<1>7. ASSUME NEW c \in Clients PROVE ClientOK(c)'
  BY <1>1, <1>2, ClientKept DEF Requested, ClientOK
<1>8. Limit'
  BY <1>1, LimitKept
<1> QED BY <1>4, <1>5, <1>6, <1>7, <1>8 DEF Entries, Processes, Requested, Procs

-----------------------------------------------------------------------------
(* The theorems.                                                           *)

LEMMA ClientStep ==
  ASSUME RouterInv, NEW c \in Clients, Client(c)
  PROVE  RouterInv'
<1>1. CASE Reload(c)
  BY <1>1, ReadsStep, FirstLoadStep, UnloadStep, CollectStep, EraseAbortsStep, EraseAndAddStep
     DEF Reload, Reads
<1>2. CASE Load(c)
  BY <1>2, ReadsStep, UnloadStep, SubscriptStep, LoadSpawnStep, JoinOldStep DEF Load, Reads
<1>3. CASE ReloadFirst(c, "meta", "lookup") \/ ReloadFirst(c, "proxy", "proxy_lookup")
  BY <1>3, ReloadFirstStep
<1>4. CASE \/ Lookup(c) \/ WaitLoaded(c) \/ ProxyLookup(c) \/ Touch(c) \/ Unload(c)
           \/ UnloadWait(c) \/ Remove(c) \/ RemoveWait(c) \/ RemoveJoin(c)
  BY <1>4, ReadsStep, SubscriptStep, UnloadStep, RemoveStep, RemoveWaitStep, RemoveJoinStep
     DEF Reads
<1> QED BY <1>1, <1>2, <1>3, <1>4 DEF Client

LEMMA NextInv == RouterInv /\ [Next]_vars => RouterInv'
<1> SUFFICES ASSUME RouterInv, [Next]_vars PROVE RouterInv'
  OBVIOUS
<1>1. ASSUME NEW c \in Clients, Client(c) PROVE RouterInv'
  BY <1>1, ClientStep
<1>2. ASSUME NEW p \in Procs, Child(p) \/ Monitor(p) \/ Stopper(p) PROVE RouterInv'
  BY <1>2, ChildStep, StopperStep, HandleStateStep, HandleDoneStep, RequestExitStep,
     ChildGoneStep, MarkUnloadedStep DEF Monitor
<1>3. CASE UnloadAll
  BY <1>3, UnloadAllStep
<1>4. CASE JoinAll \/ (\E n \in Names : EditDisk(n)) \/ UNCHANGED vars
  BY <1>4, ApartStep
<1> QED BY <1>1, <1>2, <1>3, <1>4 DEF Next

LEMMA AlwaysRouterInv == Spec => []RouterInv
BY InitInv, NextInv, PTL DEF Spec

\* The router knows every child that serves a model: its entry in the mapping
\* is this child's and is running (load, update_status, the monitoring thread).
THEOREM NoChildIsLost == Spec => []NoOrphan
<1>1. RouterInv => NoOrphan
  <2> SUFFICES ASSUME RouterInv, NEW p \in Live
               PROVE  owner[name(p)] = p /\ is_running(status[name(p)])
    BY DEF NoOrphan
  <2>1. p \in Procs /\ ~downloads(p) /\ child[p] \notin {NONE, "dead"} /\ ProcOK(p)
    BY DEF Live, RouterInv, Processes
  <2> QED BY <2>1 DEF ProcOK, ServesOwn
<1> QED BY <1>1, AlwaysRouterInv, PTL

\* No entry stays running without a monitoring thread that will mark it UNLOADED,
\* and the variables keep their types.
THEOREM NoEntryIsLost == Spec => []NoGhost
<1>1. RouterInv => NoGhost
  BY DEF RouterInv, NoGhost, Running, Entries, EntryOK, NONE
<1> QED BY <1>1, AlwaysRouterInv, PTL

\* However many requests load, evict and reload at the same time, the children
\* that serve a model are at most models_max: unload_lru picks a victim under
\* one lock and load() counts again under another.
THEOREM LimitHolds == Spec => []LimitOnProcesses
<1>1. RouterInv => LimitOnProcesses
  <2> SUFFICES ASSUME RouterInv, ModelsMax > 0
               PROVE  Cardinality(Live) <= ModelsMax
    BY DEF LimitOnProcesses
  <2>1. \A p \in Live : /\ p \in Procs /\ name(p) \in Running /\ owner[name(p)] = p
    <3>1. ASSUME NEW p \in Live
          PROVE  p \in Procs /\ name(p) \in Running /\ owner[name(p)] = p
      <4>1. p \in Procs /\ ~downloads(p) /\ child[p] \notin {NONE, "dead"} /\ ProcOK(p)
        BY DEF Live, RouterInv, Processes
      <4>2. name(p) \in Names
        BY <4>1, NamesAre DEF RouterInv
      <4> QED BY <4>1, <4>2 DEF ProcOK, ServesOwn, Running
    <3> QED BY <3>1
  <2> DEFINE f == [p \in Live |-> name(p)]
  <2>2. f \in Injection(Live, Running)
    BY <2>1 DEF Injection, IsInjective
  <2>3. IsFiniteSet(Running) /\ Cardinality(Running) <= ModelsMax
    BY RouterAssumption, FS_Subset DEF RouterInv, Limit, RouterAssumption, Running
  <2>4. /\ IsFiniteSet(Live) /\ Cardinality(Live) <= Cardinality(Running)
    BY <2>2, <2>3, FS_Injection
  <2> QED BY <2>3, <2>4, FS_CardinalityType, RouterAssumption DEF RouterAssumption
<1> QED BY <1>1, AlwaysRouterInv, PTL

-----------------------------------------------------------------------------
(* Without downloads nobody waits with the mutex held.                     *)

\* A request stays what it is, and the mutex is kept over a join only where a
\* child is replaced or removed.
Steady == req' = req /\ held' = held

LEMMA ClientSteady ==
  ASSUME NEW c \in Clients, Client(c), held = NONE, ~JoinOld(c), ~RemoveJoin(c)
  PROVE  /\ req' = req
         /\ \/ held' = held
            \/ LoadSpawn(c) /\ Unjoined(req[c].name)
            \/ RemoveWait(c) /\ Unjoined(req[c].name)
<1>1. CASE Reads(c)
  BY <1>1, ReadsChange
<1>2. CASE Reload(c) /\ ~Reads(c)
  BY <1>2 DEF Reload, Reads, FirstLoad, UnloadEach, Collect, EraseAborts, EraseAndAdd, calm,
              children, http
<1>3. CASE LruUnload(c) \/ LruWait(c) \/ LoadRefused(c) \/ Touch(c) \/ Unload(c) \/ Remove(c)
           \/ ReloadFirst(c, "meta", "lookup") \/ ReloadFirst(c, "proxy", "proxy_lookup")
  BY <1>3 DEF LruUnload, LruWait, LoadRefused, Touch, Unload, Remove, ReloadFirst, calm, local
<1>4. CASE LoadSpawn(c)
  BY <1>4 DEF LoadSpawn, local
<1>5. CASE RemoveWait(c)
  BY <1>5 DEF RemoveWait, local
<1> QED BY <1>1, <1>2, <1>3, <1>4, <1>5 DEF Client, Load, Reads

LEMMA OtherSteady ==
  ASSUME \/ \E p \in Procs : Child(p) \/ Monitor(p) \/ Stopper(p)
         \/ \E n \in Names : EditDisk(n)
         \/ UnloadAll \/ JoinAll \/ UNCHANGED vars
  PROVE  Steady
<1>1. ASSUME NEW p \in Procs, Child(p) PROVE Steady
  BY <1>1 DEF Child, ChildReports, DownloadEnds, ChildExits, ChildCrashes, others, http, Steady
<1>2. ASSUME NEW p \in Procs, Monitor(p) PROVE Steady
  BY <1>2 DEF Monitor, HandleState, HandleDone, RequestExit, ChildGone, MarkUnloaded, others,
              http, Steady
<1>3. ASSUME NEW p \in Procs, Stopper(p) PROVE Steady
  BY <1>3 DEF Stopper, StopperAsks, StopperEnds, others, http, Steady
<1>4. CASE (\E n \in Names : EditDisk(n)) \/ UnloadAll \/ JoinAll \/ UNCHANGED vars
  BY <1>4 DEF EditDisk, UnloadAll, JoinAll, vars, http, Steady
<1> QED BY <1>1, <1>2, <1>3, <1>4

\* No request is a download.
Serving == \A c \in Clients : \A r \in Requests[c] : r.op # "download"

FreeInv == RouterInv /\ held = NONE /\ \A c \in Clients : req[c] \in Requests[c]

LEMMA FreeStep ==
  ASSUME Serving, FreeInv, [Next]_vars
  PROVE  FreeInv'
<1>1. RouterInv' /\ RouterInv /\ held = NONE
  BY NextInv DEF FreeInv
<1>2. \A c \in Clients : ~downloads(c) /\ ~JoinOld(c) /\ ~RemoveJoin(c)
  BY <1>1, NobodyHolds DEF FreeInv, Serving, downloads, JoinOld, RemoveJoin
<1>3. \A p \in Procs : ~downloads(p)
  BY <1>2 DEF downloads
<1>4. ASSUME NEW n \in Names, Unjoined(n)
      PROVE  status[n] \notin {"unloaded", "downloaded", NONE}
  <2>1. EntryOK(n) /\ owner[n] \in Procs \cup {NONE}
    BY <1>1 DEF RouterInv, Entries, TypeOK
  <2> QED BY <1>3, <1>4, <2>1 DEF EntryOK, Unjoined
<1>5. ASSUME NEW c \in Clients, Client(c) PROVE Steady
  <2>1. req[c].name \in Names
    BY <1>1 DEF RouterInv, TypeOK
  <2>2. ~(LoadSpawn(c) /\ Unjoined(req[c].name))
    BY <1>2, <1>4, <2>1 DEF LoadSpawn
  <2>3. ~(RemoveWait(c) /\ Unjoined(req[c].name))
    BY <1>4, <2>1 DEF RemoveWait
  <2> QED BY <1>1, <1>2, <1>5, <2>2, <2>3, ClientSteady DEF Steady
<1>6. Steady
  BY <1>5, OtherSteady DEF Next
<1> QED BY <1>1, <1>6 DEF FreeInv, Steady

\* As long as no request is a download, no thread is waited for with the mutex
\* held: whenever load() replaces a child or remove() erases a model, the
\* monitoring thread it joins has ended, as the comment there says.
THEOREM JoinsDoNotBlock == Spec /\ Serving => [](held = NONE /\ RemovedThreadIsDone)
<1>1. Init => FreeInv
  BY InitInv DEF Init, FreeInv
<1>2. Serving /\ FreeInv /\ [Next]_vars => FreeInv'
  BY FreeStep
<1>3. FreeInv => held = NONE /\ RemovedThreadIsDone
  BY NobodyHolds DEF FreeInv, RemovedThreadIsDone, JoinsFreely
<1>4. Serving => []Serving
  <2>1. Serving => Serving'
    BY DEF Serving
  <2> QED BY <2>1, PTL
<1> QED BY <1>1, <1>2, <1>3, <1>4, PTL DEF Spec
=============================================================================
