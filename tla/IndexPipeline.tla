--------------------------- MODULE IndexPipeline ---------------------------
(***************************************************************************)
(* The indexing pipeline of ccls (src/src/pipeline.cc): the main thread    *)
(* turns client notifications into IndexRequests, indexer threads take a   *)
(* request each, stamp files in the VFS, load a cached index or parse the  *)
(* translation unit, store the indexes of the files they claimed, and push *)
(* IndexUpdates that the main thread applies to the database.              *)
(*                                                                         *)
(* A step of an indexer is what it does between two points where another   *)
(* thread can see or change the shared state: a pop, a stamp, a critical   *)
(* section of a file mutex.  The second half of a write to a file's cache  *)
(* and the push that follows are separate steps because the main thread    *)
(* (removeCache, reload) takes no file mutex.                              *)
(*                                                                         *)
(* Every write to a file gives it a new mtime and new contents, so the     *)
(* mtime also names the contents.  Mode OnChange exists only under         *)
(* index.onChange, which is off here as it is by default.                  *)
(***************************************************************************)
EXTENDS QueryDB, ThreadedQueue

CONSTANTS
  Entries,           (* Project::Folder::entries, a sequence of files       *)
  Includes,          (* [Files -> Seq(Files)]: what a parse reads, in order *)
  Related,           (* [Files -> SUBSET Files]: entries of the same stem   *)
  Prio(_, _),        (* didOpen's priority of a path, given the open files  *)
  IndexAt,           (* [Files -> [1 .. MaxMtime -> IndexData]]             *)
  Indexers,          (* indexer threads (index.threads)                     *)
  MaxMtime,          (* bound: writes to one file                           *)
  HasCacheDir,       (* cache.directory is not empty                        *)
  Retain,            (* cache.retainInMemory                                *)
  TrackDependency,   (* index.trackDependency                               *)
  InitialNoLinkage,  (* index.initialNoLinkage                              *)
  Budget,            (* [Operations -> Nat]: bound on the environment       *)
  Overlap,           (* may interactive requests arrive during background   *)
                     (* indexing?                                           *)
  NoIndex,           (* no cached index                                     *)
  NoPath             (* the empty path of the dummy request                 *)

(* do_initialize sets retainInMemory to 1 when there is no cache directory. *)
ASSUME CacheAssumption == HasCacheDir \/ Retain = 1

(* The translation units. *)
Sources == {Entries[i] : i \in DOMAIN Entries}

ASSUME FilesAssumption ==
  /\ Entries \in Seq(Files)
  /\ IsFiniteSet(Files)
  /\ NoPath \notin Files \cup Indexers

(* uid2file: a parse meets each file once. *)
ASSUME IncludesAssumption ==
  /\ Includes \in [Files -> Seq(Files)]
  /\ \A f \in Files : \A j, k \in DOMAIN Includes[f] :
       Includes[f][j] # f /\ (Includes[f][j] = Includes[f][k] => j = k)

ASSUME PrioAssumption == \A opened \in SUBSET Files, f \in Files : Prio(opened, f) \in Int

ASSUME IndexAssumption ==
  /\ MaxMtime \in Nat \ {0}
  /\ IndexAt \in [Files -> [1 .. MaxMtime -> IndexData]]

ASSUME ConfigAssumption ==
  /\ Retain \in Int /\ TrackDependency \in Int
  /\ {HasCacheDir, InitialNoLinkage, Overlap} \subseteq BOOLEAN

(* What the environment may do only so often. *)
Operations == {"edit", "remove", "watch", "open", "close", "configure",
               "reload", "restart", "crash", "parsecrash"}

ASSUME BudgetAssumption == Budget \in [Operations -> Nat]

Mtimes == 0 .. MaxMtime

(* An IndexFile as the caches hold it: when it was made, with or without    *)
(* function locals, the mtimes of the files it was made from (0: none) and  *)
(* what it contributes to the database.                                     *)
IndexFiles ==
  [mtime: Mtimes, noLinkage: BOOLEAN, deps: [Files -> Mtimes],
   data: IndexData]

ASSUME NoIndexAssumption == NoIndex \notin IndexFiles

NoDeps == [f \in Files |-> 0]

(* IndexFile(path, "", false), stored for a deleted file. *)
DeletedIndex ==
  [mtime |-> 0, noLinkage |-> FALSE, deps |-> NoDeps, data |-> EmptyIndex]

Modes == {"Background", "Normal", "Delete"}

Requests == [path: Files \cup {NoPath}, mode: Modes, mustExist: BOOLEAN, ts: Nat]

Request(f, mode, mustExist, ts) ==
  [path |-> f, mode |-> mode, mustExist |-> mustExist, ts |-> ts]

(* Mutant: every request counts as interactive. *)
InteractiveAlways(req) == req.mode \in Modes

Interactive(req) == req.mode # "Background"

(* An IndexUpdate; the one with NoPath is the dummy that only refreshes     *)
(* semantic highlighting.  content is files_def_update's file contents.     *)
Updates ==
  [path: Files \cup {NoPath}, prev: IndexData, curr: IndexData,
   content: Mtimes]

RefreshUpdate ==
  [path |-> NoPath, prev |-> EmptyIndex, curr |-> EmptyIndex, content |-> 0]

Data(index) == IF index = NoIndex THEN EmptyIndex ELSE index.data

(* createDelta(prev, curr), prev possibly null. *)
Update(f, prev, curr) ==
  [path |-> f, prev |-> Data(prev), curr |-> curr.data,
   content |-> curr.mtime]

-----------------------------------------------------------------------------
VARIABLES
  disk,        (* the files: [exists, mtime]                                *)
  open,        (* WorkingFiles: paths the client has open                   *)
  index_content, (* WorkingFile::index_lines, as the mtime of the contents  *)
  index_request, on_indexed,   (* the ThreadedQueues                        *)
  enqueued, completed,         (* IndexStats                                *)
  tick, loaded_ts,
  vfs,         (* VFS::state                                                *)
  g_index,     (* the in-memory cache                                       *)
  disk_cache,  (* the cache directory                                       *)
  file_mutex,  (* getFileMutex: the indexer holding it, or NoPath           *)
  worker,      (* the locals of each indexer thread                         *)
  db,          (* DB                                                        *)
  applied,     (* history: the index last applied for each file             *)
  unsaved,     (* history: files written since a request was last made that *)
               (* findEntry has an entry for                                *)
  rewound,     (* history: files whose stamp was moved back since an        *)
               (* indexer claimed them                                      *)
  budget       (* what the environment may still do                         *)

clientVars == <<disk, open, unsaved, budget>>
indexerVars == <<vfs, g_index, disk_cache, file_mutex>>
vars == <<clientVars, index_content, index_request, on_indexed, enqueued,
          completed, tick, loaded_ts, indexerVars, worker, db, applied, rewound>>

FileState == [timestamp: Mtimes, step: 0 .. 3, loaded: Nat]
FreshState == [timestamp |-> 0, step |-> 0, loaded |-> 0]

(* An indexer's position and locals: the request, no_linkage, deleted and   *)
(* reparse; the write time it read; the index read from the cache; the      *)
(* files left to look at; the mtimes seen by the parse; the files it        *)
(* claimed (uid2file[..].db is set) and those still to store; whether the   *)
(* memory cache takes the file being stored.                                *)
Pcs == {"idle", "stamp", "cache", "load", "deps", "depload", "parse",
        "store", "write", "push", "count"}

IdleWorker ==
  [pc |-> "idle", req |-> Request(NoPath, "Background", FALSE, 0),
   time |-> 0, deleted |-> FALSE, reparse |-> 0, prev |-> NoIndex,
   todo |-> <<>>, deps |-> {}, seen |-> NoDeps, claims |-> {},
   file |-> NoPath, retained |-> FALSE]

WorkerType ==
  [pc: Pcs, req: Requests, time: Mtimes, deleted: BOOLEAN, reparse: 0 .. 2,
   prev: IndexFiles \cup {NoIndex}, todo: Seq(Files), deps: SUBSET Files,
   seen: [Files -> Mtimes], claims: SUBSET Files,
   file: Files \cup {NoPath}, retained: BOOLEAN]

ClientType ==
  /\ disk \in [Files -> [exists: BOOLEAN, mtime: Mtimes]]
  /\ open \subseteq Files /\ unsaved \subseteq Files /\ rewound \subseteq Files
  /\ index_content \in [Files -> Mtimes]
  /\ budget \in [Operations -> Nat]

QueueType ==
  /\ index_request \in QueueOf(Requests)
  /\ on_indexed \in QueueOf(Updates)
  /\ enqueued \in Nat /\ completed \in Nat
  /\ tick \in Nat /\ loaded_ts \in Nat

CacheType ==
  /\ vfs \in [Files -> FileState]
  /\ g_index \in [Files -> IndexFiles \cup {NoIndex}]
  /\ disk_cache \in [Files -> IndexFiles \cup {NoIndex}]
  /\ file_mutex \in [Files -> Indexers \cup {NoPath}]

DatabaseType == db \in DBType /\ applied \in [Files -> IndexData]

TypeOK ==
  /\ ClientType /\ QueueType /\ CacheType /\ DatabaseType
  /\ worker \in [Indexers -> WorkerType]

-----------------------------------------------------------------------------
(* Mutant: an error code of its own. *)
LastWriteTimeError(f) == IF disk[f].exists THEN disk[f].mtime ELSE -1

(* lastWriteTime: 0 stands for a file that cannot be read. *)
LastWriteTime(f) == IF disk[f].exists THEN disk[f].mtime ELSE 0

(* Mutant: the same step again is let through. *)
CanStampTwice(f, ts, step) ==
  \/ vfs[f].timestamp < ts
  \/ vfs[f].timestamp = ts /\ vfs[f].step <= step

(* VFS::stamp(path, ts, step) succeeds and moves the pair (timestamp, step) *)
(* forward, or fails and leaves it.                                         *)
CanStamp(f, ts, step) ==
  \/ vfs[f].timestamp < ts
  \/ vfs[f].timestamp = ts /\ vfs[f].step < step

Stamped(f, ts, step) ==
  IF CanStamp(f, ts, step)
    THEN [vfs EXCEPT ![f].timestamp = ts, ![f].step = step]
    ELSE vfs

NoLinkage(req) == InitialNoLinkage \/ Interactive(req)

(* rawCacheLoad: memory first, then the cache directory. *)
RawCacheLoad(f) ==
  IF Retain > 0 /\ g_index[f] # NoIndex THEN g_index[f]
  ELSE IF HasCacheDir THEN disk_cache[f]
  ELSE NoIndex

(* Mutant: a cache one tick older than the file passes. *)
CacheInvalidLate(f, prev) == prev.mtime + 1 < vfs[f].timestamp

(* cacheInvalid; compiler arguments do not change here. *)
CacheInvalid(f, prev) == prev.mtime < vfs[f].timestamp

(* findEntry(path, true, must_exist) has no entry for a path that is not    *)
(* in the project; the handler then returns.                                *)
FindEntry(req) == ~req.mustExist \/ req.path \in Sources

(* Project::index: a request for each entry, interactive for the open ones, *)
(* then the dummy request; loaded_ts is taken in between.                   *)
ProjectRequests(opened, from) ==
  [i \in 1 .. Len(Entries) |->
     Request(Entries[i],
             IF Entries[i] \in opened THEN "Normal" ELSE "Background",
             FALSE, from + i - 1)]

DummyRequest(ts) == Request(NoPath, "Background", FALSE, ts)

(* The elements of s at the positions in at, in their order. *)
Selected(s, at) ==
  [p \in 1 .. Cardinality(at) |->
     s[CHOOSE k \in at : Cardinality({j \in at : j <= k}) = p]]

(* pushBack of several requests: the interactive ones go to priority_.      *)
PushRequests(q, reqs) ==
  LET interactive == {k \in DOMAIN reqs : Interactive(reqs[k])}
  IN  [priority |-> q.priority \o Selected(reqs, interactive),
       queue    |-> q.queue \o Selected(reqs, DOMAIN reqs \ interactive),
       total    |-> q.total + Len(reqs)]

ProjectIndexed(q, opened, from) ==
  PushRequests(q, Append(ProjectRequests(opened, from),
                         DummyRequest(from + Len(Entries))))

ProjectIndex(opened) ==
  /\ index_request' = ProjectIndexed(index_request, opened, tick)
  /\ enqueued' = enqueued + Len(Entries)
  /\ loaded_ts' = tick + Len(Entries)
  /\ tick' = tick + Len(Entries) + 1

(* pipeline::index(path, {}, mode, must_exist). *)
Enqueue(q, f, mode, mustExist, ts) ==
  PushBack(q, Request(f, mode, mustExist, ts), mode # "Background")

Index(f, mode, mustExist) ==
  /\ index_request' = Enqueue(index_request, f, mode, mustExist, tick)
  /\ enqueued' = enqueued + 1
  /\ tick' = tick + 1
  /\ UNCHANGED loaded_ts

-----------------------------------------------------------------------------
(* Start-up: do_initialize has loaded the project, started the indexers and *)
(* queued the initial requests.  No file is open and the cache is empty.    *)
InitialFile(f) == [exists |-> TRUE, mtime |-> 1]

Init ==
  /\ disk = [f \in Files |-> InitialFile(f)]
  /\ open = {}
  /\ index_content = [f \in Files |-> 0]
  /\ index_request = ProjectIndexed(EmptyQueue, {}, 0)
  /\ on_indexed = EmptyQueue
  /\ enqueued = Len(Entries) /\ completed = 0
  /\ tick = Len(Entries) + 1 /\ loaded_ts = Len(Entries)
  /\ vfs = [f \in Files |-> FreshState]
  /\ g_index = [f \in Files |-> NoIndex]
  /\ disk_cache = [f \in Files |-> NoIndex]
  /\ file_mutex = [f \in Files |-> NoPath]
  /\ worker = [i \in Indexers |-> IdleWorker]
  /\ db = EmptyDB
  /\ applied = [f \in Files |-> EmptyIndex]
  /\ unsaved = {} /\ rewound = {}
  /\ budget = Budget

-----------------------------------------------------------------------------
(* indexer_Parse, one action for each part of it.                           *)

(* Is the pair (timestamp, step) of s smaller than that of t? *)
Behind(s, t) ==
  s.timestamp < t.timestamp \/ (s.timestamp = t.timestamp /\ s.step < t.step)

(* A load from the cache and VFS::clear set a stamp whatever it was; it     *)
(* matters as long as an indexer holds a claim on the file.                 *)
StillClaimed(S) == {f \in S : \E i \in Indexers : f \in worker'[i].claims}

NoteRewound ==
  rewound' = StillClaimed(rewound \cup {f \in Files : Behind(vfs'[f], vfs[f])})

(* The destructor of RAII: the request is completed whichever way the       *)
(* function returns.                                                        *)
Finish(i) ==
  /\ worker' = [worker EXCEPT ![i] = IdleWorker]
  /\ completed' = completed + 1
  /\ rewound' = StillClaimed(rewound)

mainVars == <<clientVars, index_content, enqueued, tick, loaded_ts, db, applied>>

(* Lines up to the stat: take a request.  The dummy one only pushes a       *)
(* refresh; one without an entry is done.                                   *)
PopDummy(i) ==
  /\ worker[i].pc = "idle"
  /\ CanPop(index_request)
  /\ Front(index_request).path = NoPath
  /\ index_request' = PopFront(index_request)
  /\ on_indexed' = PushBack(on_indexed, RefreshUpdate, FALSE)
  /\ UNCHANGED <<mainVars, indexerVars, worker, completed, rewound>>

PopNoEntry(i) ==
  /\ worker[i].pc = "idle"
  /\ CanPop(index_request)
  /\ Front(index_request).path # NoPath
  /\ ~FindEntry(Front(index_request))
  /\ index_request' = PopFront(index_request)
  /\ Finish(i)
  /\ UNCHANGED <<mainVars, indexerVars, on_indexed>>

Pop(i) ==
  LET req == Front(index_request)
      delete == req.mode = "Delete"
      time == IF delete THEN 0 ELSE LastWriteTime(req.path)
  IN  /\ worker[i].pc = "idle"
      /\ CanPop(index_request)
      /\ req.path # NoPath
      /\ FindEntry(req)
      /\ index_request' = PopFront(index_request)
      /\ worker' = [worker EXCEPT ![i] =
                      [IdleWorker EXCEPT
                        !.pc = "stamp", !.req = req, !.time = time,
                        !.deleted = (time = 0),
                        !.reparse = IF delete THEN 2 ELSE 0]]
      /\ UNCHANGED <<mainVars, indexerVars, on_indexed, completed, rewound>>

(* Where control goes once reparse is known: out, into the cache section,   *)
(* or to the parse (for a deleted file, to storing an empty index).         *)
Track(req) ==
  \/ TrackDependency > 1
  \/ TrackDependency = 1 /\ req.ts < loaded_ts

ToParse(w) ==
  IF w.deleted
    THEN [w EXCEPT !.pc = "store", !.claims = {w.req.path}]
    ELSE [w EXCEPT !.pc = "parse", !.todo = <<w.req.path>> \o Includes[w.req.path]]

Stamp(i) ==
  LET w == worker[i]
      f == w.req.path
      step == IF NoLinkage(w.req) THEN 2 ELSE 0
      stamped == ~w.deleted /\ CanStamp(f, w.time, step)
      reparse == IF stamped THEN 1 ELSE w.reparse
  IN  /\ w.pc = "stamp"
      /\ vfs' = IF stamped THEN Stamped(f, w.time, step) ELSE vfs
      /\ IF reparse = 0 /\ ~Track(w.req)
           THEN Finish(i)
           ELSE /\ worker' = [worker EXCEPT ![i] =
                     IF reparse = 2
                       THEN ToParse([w EXCEPT !.reparse = reparse])
                       ELSE [w EXCEPT !.pc = "cache", !.reparse = reparse]]
                /\ UNCHANGED <<completed, rewound>>
      /\ UNCHANGED <<mainVars, index_request, on_indexed, g_index,
                     disk_cache, file_mutex>>

(* The cache section, under the file's mutex, up to the decision.  A        *)
(* dependency that is newer than when the index was made, or gone, forces   *)
(* a parse.                                                                 *)
DepChanged(prev) ==
  \E d \in Files : /\ prev.deps[d] # 0
                   /\ \/ LastWriteTime(d) = 0
                      \/ prev.deps[d] < LastWriteTime(d)

MustParse(w, prev) ==
  \/ prev = NoIndex
  \/ ~prev.noLinkage /\ NoLinkage(w.req)
  \/ CacheInvalid(w.req.path, prev)
  \/ Track(w.req) /\ DepChanged(prev)

CacheCheck(i) ==
  LET w == worker[i]
      f == w.req.path
      prev == RawCacheLoad(f)
      load == w.reparse = 1 /\ vfs[f].loaded = 0
  IN  /\ w.pc = "cache"
      /\ file_mutex[f] = NoPath
      /\ IF MustParse(w, prev)
           THEN /\ worker' = [worker EXCEPT ![i] = ToParse(w)]
                /\ UNCHANGED <<file_mutex, completed, rewound>>
         ELSE IF load
           THEN /\ worker' = [worker EXCEPT ![i].pc = "load", ![i].prev = prev]
                /\ file_mutex' = [file_mutex EXCEPT ![f] = i]
                /\ UNCHANGED <<completed, rewound>>
         ELSE /\ Finish(i)
              /\ UNCHANGED file_mutex
      /\ UNCHANGED <<mainVars, index_request, on_indexed, vfs, g_index, disk_cache>>

(* Mutant: the mutex stays locked. *)
ReleaseForgotten(f) == file_mutex

(* The lock_guard of a file mutex goes out of scope. *)
Release(f) == [file_mutex EXCEPT ![f] = NoPath]

(* "load cache for": push the cached index, count it, release the mutex.    *)
CacheLoad(i) ==
  LET w == worker[i]
      f == w.req.path
  IN  /\ w.pc = "load"
      /\ on_indexed' = PushBack(on_indexed, Update(f, NoIndex, w.prev),
                                Interactive(w.req))
      /\ vfs' = [vfs EXCEPT ![f].loaded = @ + 1,
                            ![f].step = IF w.prev.noLinkage THEN 2 ELSE @]
      /\ file_mutex' = Release(f)
      /\ worker' = [worker EXCEPT ![i].pc = "deps",
                      ![i].deps = {d \in Files : w.prev.deps[d] # 0}]
      /\ NoteRewound
      /\ UNCHANGED <<mainVars, index_request, g_index, disk_cache, completed>>

(* The loop over dependencies: stamp one; if it was not yet stamped, load   *)
(* its cached index too.                                                    *)
DepStamp(i) ==
  LET w == worker[i]
  IN  /\ w.pc = "deps"
      /\ \E d \in w.deps :
           /\ vfs' = Stamped(d, w.prev.deps[d], 1)
           /\ worker' = [worker EXCEPT ![i].deps = @ \ {d},
                ![i].pc = IF CanStamp(d, w.prev.deps[d], 1) THEN "depload" ELSE @,
                ![i].file = d]
      /\ UNCHANGED <<mainVars, index_request, on_indexed, g_index,
                     disk_cache, file_mutex, completed, rewound>>

DepLoad(i) ==
  LET w == worker[i]
      d == w.file
      prev == RawCacheLoad(d)
      load == prev # NoIndex /\ vfs[d].loaded = 0
  IN  /\ w.pc = "depload"
      /\ file_mutex[d] = NoPath
      /\ vfs' = IF load
                  THEN [vfs EXCEPT ![d].loaded = @ + 1,
                                   ![d].timestamp = prev.mtime,
                                   ![d].step = IF prev.noLinkage THEN 3 ELSE @]
                  ELSE vfs
      /\ on_indexed' = IF load
                         THEN PushBack(on_indexed, Update(d, NoIndex, prev),
                                       Interactive(w.req))
                         ELSE on_indexed
      /\ worker' = [worker EXCEPT ![i].pc = "deps", ![i].file = NoPath]
      /\ NoteRewound
      /\ UNCHANGED <<mainVars, index_request, g_index, disk_cache,
                     file_mutex, completed>>

DepsDone(i) ==
  /\ worker[i].pc = "deps"
  /\ worker[i].deps = {}
  /\ Finish(i)
  /\ UNCHANGED <<mainVars, index_request, on_indexed, indexerVars>>

(* idx::index: the parse meets the next file (IndexParam::seenFile).  The   *)
(* file is claimed when its stamp moves forward.  An include that is        *)
(* missing is an error of the translation unit, not of the parse.           *)
SeenFile(i) ==
  LET w == worker[i]
      f == Head(w.todo)
      time == LastWriteTime(f)
      step == IF NoLinkage(w.req) THEN 3 ELSE 1
      claimed == time # 0 /\ CanStamp(f, time, step)
  IN  /\ w.pc = "parse"
      /\ w.todo # <<>>
      /\ f = w.req.path => time # 0
      /\ vfs' = IF claimed THEN Stamped(f, time, step) ELSE vfs
      /\ worker' = [worker EXCEPT ![i].todo = Tail(@), ![i].seen[f] = time,
                      ![i].claims = IF claimed THEN @ \cup {f} ELSE @]
      /\ UNCHANGED <<mainVars, index_request, on_indexed, g_index,
                     disk_cache, file_mutex, completed, rewound>>

(* The parse ends and hands over the claimed files ... *)
ParseEnd(i) ==
  /\ worker[i].pc = "parse"
  /\ worker[i].todo = <<>>
  /\ worker' = [worker EXCEPT ![i].pc = "store"]
  /\ UNCHANGED <<mainVars, index_request, on_indexed, indexerVars, completed,
                 rewound>>

(* ... or fails: the main file is gone, or clang crashes on it.  The stamps *)
(* stay.                                                                    *)
ParseGone(i) ==
  /\ worker[i].pc = "parse"
  /\ worker[i].todo # <<>>
  /\ Head(worker[i].todo) = worker[i].req.path
  /\ LastWriteTime(worker[i].req.path) = 0
  /\ Finish(i)
  /\ UNCHANGED <<mainVars, index_request, on_indexed, indexerVars>>

Spend(op) == budget[op] > 0 /\ budget' = [budget EXCEPT ![op] = @ - 1]

ParseCrash(i) ==
  /\ worker[i].pc = "parse"
  /\ Spend("parsecrash")
  /\ Finish(i)
  /\ UNCHANGED <<disk, open, unsaved, index_content, enqueued, tick, loaded_ts,
                 db, applied, index_request, on_indexed, indexerVars>>

(* The index the parse made for a claimed file; the empty one when the      *)
(* request deletes.                                                         *)
MadeIndex(w, f) ==
  IF w.deleted THEN DeletedIndex
  ELSE [mtime |-> w.seen[f], noLinkage |-> NoLinkage(w.req),
        deps |-> [d \in Files |-> IF d \in {f, w.req.path} THEN 0 ELSE w.seen[d]],
        data |-> IndexAt[f][w.seen[f]]]

(* Mutants: the cached index is used whether or not the database has it;    *)
(* a store is not counted.                                                  *)
DeltaBaseUnchecked(f) == RawCacheLoad(f)
CountedNot(f) == vfs

(* The index to take the delta against: what the database has, if anything. *)
DeltaBase(f) == IF vfs[f].loaded > 0 THEN RawCacheLoad(f) ELSE NoIndex

(* Does the in-memory cache take the file? *)
Retained(f) == Retain > 0 /\ Retain <= vfs[f].loaded + 1

(* VFS::loaded is counted up. *)
Counted(f) == [vfs EXCEPT ![f].loaded = @ + 1]

(* The store loop, for one file under its mutex: read what to take the      *)
(* delta against, ...                                                       *)
StoreRead(i) ==
  LET w == worker[i]
  IN  /\ w.pc = "store"
      /\ \E f \in w.claims :
           /\ file_mutex[f] = NoPath
           /\ file_mutex' = [file_mutex EXCEPT ![f] = i]
           /\ worker' = [worker EXCEPT ![i].pc = "write", ![i].file = f,
                ![i].prev = DeltaBase(f), ![i].retained = Retained(f)]
      /\ UNCHANGED <<mainVars, index_request, on_indexed, vfs, g_index,
                     disk_cache, completed, rewound>>

(* ... write both caches, ... *)
StoreWrite(i) ==
  LET w == worker[i]
      f == w.file
  IN  /\ w.pc = "write"
      /\ g_index' = IF w.retained
                      THEN [g_index EXCEPT ![f] = MadeIndex(w, f)]
                      ELSE g_index
      /\ disk_cache' = IF ~HasCacheDir THEN disk_cache
                       ELSE [disk_cache EXCEPT ![f] =
                               IF w.deleted THEN NoIndex ELSE MadeIndex(w, f)]
      /\ worker' = [worker EXCEPT ![i].pc = "push"]
      /\ UNCHANGED <<mainVars, index_request, on_indexed, vfs, file_mutex,
                     completed, rewound>>

(* ... push the delta, ... *)
StorePush(i) ==
  LET w == worker[i]
      f == w.file
  IN  /\ w.pc = "push"
      /\ on_indexed' = PushBack(on_indexed, Update(f, w.prev, MadeIndex(w, f)),
                                Interactive(w.req))
      /\ worker' = [worker EXCEPT ![i].pc = "count"]
      /\ UNCHANGED <<mainVars, index_request, indexerVars, completed,
                     rewound>>

(* ... and count the load.  The mutex is released. *)
StoreCount(i) ==
  LET w == worker[i]
      f == w.file
  IN  /\ w.pc = "count"
      /\ vfs' = Counted(f)
      /\ file_mutex' = Release(f)
      /\ worker' = [worker EXCEPT ![i].pc = "store", ![i].file = NoPath,
                      ![i].claims = @ \ {f}, ![i].prev = NoIndex]
      /\ rewound' = StillClaimed(rewound)
      /\ UNCHANGED <<mainVars, index_request, on_indexed, g_index,
                     disk_cache, completed>>

StoreDone(i) ==
  /\ worker[i].pc = "store"
  /\ worker[i].claims = {}
  /\ Finish(i)
  /\ UNCHANGED <<mainVars, index_request, on_indexed, indexerVars>>

Indexer(i) ==
  \/ PopDummy(i) \/ PopNoEntry(i) \/ Pop(i) \/ Stamp(i)
  \/ CacheCheck(i) \/ CacheLoad(i) \/ DepStamp(i) \/ DepLoad(i) \/ DepsDone(i)
  \/ SeenFile(i) \/ ParseEnd(i) \/ ParseGone(i) \/ ParseCrash(i)
  \/ StoreRead(i) \/ StoreWrite(i) \/ StorePush(i) \/ StoreCount(i)
  \/ StoreDone(i)

-----------------------------------------------------------------------------
(* The main thread.                                                         *)

queueVars == <<index_request, enqueued, tick, loaded_ts>>

(* WorkingFile::setIndexContent, for an open file. *)
IndexContentAfter(u) ==
  IF u.path \in open THEN [index_content EXCEPT ![u.path] = u.content]
  ELSE index_content

(* main_OnIndexed: apply the update; an open file gets the contents its     *)
(* index was made from.                                                     *)
OnIndexed ==
  LET u == Front(on_indexed)
  IN  /\ CanPop(on_indexed)
      /\ on_indexed' = PopFront(on_indexed)
      /\ IF u.path = NoPath
           THEN UNCHANGED <<db, applied, index_content>>
           ELSE /\ db' = ApplyIndexUpdate(db, u)
                /\ applied' = [applied EXCEPT ![u.path] = u.curr]
                /\ index_content' = IndexContentAfter(u)
      /\ UNCHANGED <<clientVars, queueVars, completed, indexerVars, worker, rewound>>

(* Interactive requests may be restricted to a time when no background      *)
(* indexing is under way.                                                   *)
Calm ==
  \/ Overlap
  \/ /\ index_request.queue = <<>>
     /\ on_indexed.queue = <<>>
     /\ \A i \in Indexers : worker[i].pc = "idle" \/ Interactive(worker[i].req)

unchangedByClient ==
  <<index_content, on_indexed, completed, vfs, disk_cache, file_mutex,
    worker, db, applied, rewound>>

(* Nothing to do anywhere in the pipeline. *)
Idle ==
  /\ Contents(index_request) = <<>>
  /\ Contents(on_indexed) = <<>>
  /\ \A i \in Indexers : worker[i].pc = "idle"

(* The user's editor or a tool writes or removes a file. *)
Edit(f) ==
  /\ Spend("edit")
  /\ disk[f].mtime < MaxMtime
  /\ disk' = [disk EXCEPT ![f] = [exists |-> TRUE, mtime |-> @.mtime + 1]]
  /\ unsaved' = unsaved \cup {f}
  /\ UNCHANGED <<open, queueVars, g_index, unchangedByClient>>

Remove(f) ==
  /\ Spend("remove")
  /\ disk[f].exists
  /\ disk' = [disk EXCEPT ![f].exists = FALSE]
  /\ unsaved' = unsaved \cup {f}
  /\ UNCHANGED <<open, queueVars, g_index, unchangedByClient>>

(* textDocument/didSave, for a file the editor has just written. *)
DidSave(f) ==
  /\ f \in open
  /\ disk[f].exists
  /\ f \in unsaved
  /\ Calm
  /\ Index(f, "Normal", FALSE)
  /\ unsaved' = unsaved \ {f}
  /\ UNCHANGED <<disk, open, budget, g_index, unchangedByClient>>

(* workspace/didChangeWatchedFiles with one event.  A change of a file that *)
(* is open is interactive.                                                  *)
WatchedMode(f) ==
  IF ~disk[f].exists THEN "Delete"
  ELSE IF f \in open THEN "Normal"
  ELSE "Background"

DidChangeWatchedFiles(f) ==
  /\ Spend("watch")
  /\ f \in unsaved
  /\ WatchedMode(f) # "Background" => Calm
  /\ Index(f, WatchedMode(f), WatchedMode(f) # "Delete")
  /\ unsaved' = IF f \in Sources \/ WatchedMode(f) = "Delete"
                   THEN unsaved \ {f} ELSE unsaved
  /\ UNCHANGED <<disk, open, g_index, unchangedByClient>>

(* A stable sort by descending rank, rank[k] being that of q[k]. *)
StableSort(q, rank) ==
  LET pos(k) == Cardinality({j \in DOMAIN q :
                   rank[j] > rank[k] \/ (rank[j] = rank[k] /\ j <= k)})
  IN  [p \in DOMAIN q |-> q[CHOOSE k \in DOMAIN q : pos(k) = p]]

(* indexerSort, through apply(): queue_ only. *)
IndexerSort(q, opened) ==
  LET rank == [k \in DOMAIN q.queue |->
                 IF q.queue[k].path = NoPath THEN 0 ELSE Prio(opened, q.queue[k].path)]
  IN  [q EXCEPT !.queue = StableSort(@, rank)]

(* didOpen: index it unless it is a header and other requests are pending;  *)
(* for a header also the entries of the same stem, in the background.       *)
OpenRequests(f) ==
  LET related == Selected(Entries, {k \in DOMAIN Entries :
                                      Entries[k] \in Related[f] /\ Entries[k] # f})
      self == IF f \in Sources \/ completed = enqueued THEN <<f>> ELSE <<>>
  IN  [k \in 1 .. Len(self \o related) |->
         IF k <= Len(self) THEN Request(f, "Normal", FALSE, tick)
         ELSE Request((self \o related)[k], "Background", TRUE, tick + k - 1)]

(* Mutant: only the in-memory cache is asked. *)
LoadIndexedContentMemory(f) == IF g_index[f] = NoIndex THEN 0 ELSE g_index[f].mtime

(* pipeline::loadIndexedContent: the contents of the cached index. *)
LoadIndexedContent(f) ==
  LET cached == IF HasCacheDir THEN disk_cache[f] ELSE g_index[f]
  IN  IF cached = NoIndex THEN 0 ELSE cached.mtime

DidOpen(f) ==
  LET reqs == OpenRequests(f)
  IN  /\ Spend("open")
      /\ f \notin open
      /\ disk[f].exists
      /\ Calm
      /\ open' = open \cup {f}
      /\ index_content' = [index_content EXCEPT ![f] = LoadIndexedContent(f)]
      /\ index_request' = IndexerSort(PushRequests(index_request, reqs), open')
      /\ enqueued' = enqueued + Len(reqs)
      /\ tick' = tick + Len(reqs)
      /\ unsaved' = IF f \in {reqs[k].path : k \in DOMAIN reqs}
                      THEN unsaved \ {f} ELSE unsaved
      /\ UNCHANGED <<disk, loaded_ts, g_index, on_indexed, completed, vfs,
                     disk_cache, file_mutex, worker, db, applied, rewound>>

(* didClose: forget the buffer and, with a cache directory, the in-memory   *)
(* index (removeCache).                                                     *)
DidClose(f) ==
  /\ Spend("close")
  /\ f \in open
  /\ open' = open \ {f}
  /\ index_content' = [index_content EXCEPT ![f] = 0]
  /\ g_index' = IF HasCacheDir THEN [g_index EXCEPT ![f] = NoIndex] ELSE g_index
  /\ UNCHANGED <<disk, unsaved, queueVars, on_indexed, completed, vfs,
                 disk_cache, file_mutex, worker, db, applied, rewound>>

(* Removed files are announced by a watch event only. *)
ExistingSources == {s \in Sources : disk[s].exists}

(* workspace/didChangeConfiguration: index the project again. *)
DidChangeConfiguration ==
  /\ Spend("configure")
  /\ open # {} => Calm
  /\ ProjectIndex(open)
  /\ unsaved' = unsaved \ ExistingSources
  /\ UNCHANGED <<disk, open, g_index, unchangedByClient>>

(* $ccls/reload: clear the VFS and the database, index the project again.   *)
Reload ==
  /\ Spend("reload")
  /\ Overlap \/ Idle
  /\ vfs' = [f \in Files |-> FreshState]
  /\ db' = EmptyDB
  /\ applied' = [f \in Files |-> EmptyIndex]
  /\ ProjectIndex(open)
  /\ unsaved' = unsaved \ ExistingSources
  /\ UNCHANGED <<disk, open, index_content, on_indexed, completed, g_index,
                 disk_cache, file_mutex, worker>>
  /\ NoteRewound

(* The process is started again on the same cache directory: after a clean  *)
(* shutdown of an idle server, or after it died at any point.               *)
Restart ==
  /\ open' = {}
  /\ index_content' = [f \in Files |-> 0]
  /\ index_request' = ProjectIndexed(EmptyQueue, {}, 0)
  /\ on_indexed' = EmptyQueue
  /\ enqueued' = Len(Entries) /\ completed' = 0
  /\ tick' = Len(Entries) + 1 /\ loaded_ts' = Len(Entries)
  /\ vfs' = [f \in Files |-> FreshState]
  /\ g_index' = [f \in Files |-> NoIndex]
  /\ file_mutex' = [f \in Files |-> NoPath]
  /\ worker' = [i \in Indexers |-> IdleWorker]
  /\ db' = EmptyDB
  /\ applied' = [f \in Files |-> EmptyIndex]
  /\ rewound' = {}
  /\ unsaved' = unsaved \ ExistingSources
  /\ UNCHANGED <<disk, disk_cache>>

CleanRestart == Spend("restart") /\ Idle /\ Restart
Crash == Spend("crash") /\ Restart

Client ==
  \/ \E f \in Files : \/ Edit(f) \/ Remove(f) \/ DidSave(f)
                      \/ DidChangeWatchedFiles(f) \/ DidOpen(f) \/ DidClose(f)
  \/ DidChangeConfiguration
  \/ Reload
  \/ CleanRestart
  \/ Crash

Next ==
  \/ \E i \in Indexers : Indexer(i)
  \/ OnIndexed
  \/ Client

(* The indexers and the main loop are threads that keep running; nothing    *)
(* obliges the client to do anything, nor clang to crash.                   *)
Fairness ==
  /\ \A i \in Indexers : WF_vars(Indexer(i) /\ UNCHANGED budget)
  /\ WF_vars(OnIndexed)

Spec == Init /\ [][Next]_vars
FairSpec == Spec /\ Fairness

-----------------------------------------------------------------------------
(* Properties.                                                              *)

(* The index that the last of some updates for f brings, if there is one.   *)
LastFor(f, updates, otherwise) ==
  LET at == {k \in DOMAIN updates : updates[k].path = f}
  IN  IF at = {} THEN otherwise
      ELSE updates[CHOOSE k \in at : \A j \in at : j <= k].curr

(* What the database will hold for f once the main thread has applied the   *)
(* updates that wait for it.                                                *)
LastPushed(f) == LastFor(f, Contents(on_indexed), applied[f])

(* assert(v >= 0) in applyIndexUpdate: the update the main thread applies   *)
(* next takes away no reference that the database does not hold.            *)
RefcntAssertion ==
  CanPop(on_indexed) /\ Front(on_indexed).path # NoPath
    => AssertRefcnt(db, Front(on_indexed))

(* What the main thread relies on and nothing in the code enforces: an      *)
(* interactive update is pushed only while no background update waits, so   *)
(* that none overtakes another, and a reload finds the pipeline idle, with  *)
(* nothing in memory that the next store would leave there.                 *)
InTurn ==
  Len(on_indexed'.priority) > Len(on_indexed.priority) => on_indexed.queue = <<>>

Undisturbed == InTurn /\ (Reload => Idle /\ Retain <= 1)

UpdatesInTurn == [][Undisturbed]_vars

(* Between two stores of a file, the cache that the next delta is taken     *)
(* against holds exactly what the database holds or is about to receive;    *)
(* a file never loaded has nothing in the database or on its way there.     *)
CacheIsLastPushed ==
  \A f \in Files : file_mutex[f] = NoPath =>
    LastPushed(f) = IF vfs[f].loaded > 0 THEN Data(RawCacheLoad(f)) ELSE EmptyIndex

(* VFS::stamp hands each version of a file, for a given linkage, to at most *)
(* one indexer: no two hold an index of it waiting to be stored, unless the *)
(* stamp of the file was moved back since the first of them claimed it.     *)
OneClaim ==
  \A i, j \in Indexers :
    \A f \in (worker[i].claims \cap worker[j].claims) \ rewound :
      /\ i # j
      /\ ~worker[i].deleted /\ ~worker[j].deleted
      /\ worker[i].seen[f] = worker[j].seen[f]
      => NoLinkage(worker[i].req) # NoLinkage(worker[j].req)

(* What the database should hold for f: the index of its present contents,  *)
(* nothing once it was removed.                                             *)
Wanted(f) ==
  IF disk[f].exists THEN IndexAt[f][disk[f].mtime] ELSE EmptyIndex

(* The files the index should cover: the sources, and what they include.    *)
Covered ==
  Sources \cup {f \in Files : \E s \in Sources \ unsaved :
                 disk[s].exists /\ \E k \in DOMAIN Includes[s] : Includes[s][k] = f}

(* "Saving files will incrementally update the index" (README.md): once the *)
(* pipeline is idle, the database holds the present contents of every file  *)
(* of the project whose last change was announced.                          *)
Fresh == Idle => \A f \in Covered \ unsaved : applied[f] = Wanted(f)

(* Is data the index of version v of f? *)
MadeFrom(f, data, v) == v \in 1 .. MaxMtime /\ IndexAt[f][v] = data

(* Positions of the open buffer are translated through index_content: once  *)
(* the pipeline is idle that is a text the database's index was made from,  *)
(* for every open file the database has an index of.                        *)
IndexContentMatches ==
  Idle => \A f \in open : applied[f] # EmptyIndex =>
            MadeFrom(f, applied[f], index_content[f])

(* Every request is served, every update applied and every early return     *)
(* counted: whatever the client did, the pipeline comes to rest, no file    *)
(* mutex is held, and the two counters that didOpen and the progress report *)
(* compare agree.                                                           *)
ComesToRest ==
  []<>(Idle /\ completed = enqueued /\ \A f \in Files : file_mutex[f] = NoPath)

(* What IndexUpdates sees of the updates that wait: their deltas, without   *)
(* the dummies.                                                             *)
Delta(u) == CreateDelta(u.path, u.prev, u.curr)

DeltasOf(updates) ==
  Selected([k \in DOMAIN updates |-> Delta(updates[k])],
           {k \in DOMAIN updates : updates[k].path # NoPath})

Deltas == DeltasOf(Contents(on_indexed))

AbstractUpdates ==
  INSTANCE IndexUpdates WITH
    IndexesOf <- [f \in Files |-> {IndexAt[f][v] : v \in 1 .. MaxMtime}],
    MaxQueue <- 0,
    current <- [f \in Files |-> LastPushed(f)],
    queue <- Deltas

(* The database, queue and caches behave as IndexUpdates says, if no update *)
(* overtakes another.                                                       *)
ImplementsIndexUpdates == AbstractUpdates!Spec
=============================================================================
