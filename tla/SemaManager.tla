---------------------------- MODULE SemaManager ----------------------------
(***************************************************************************)
(* SemaManager (src/src/sema_manager.cc): the main thread hands work to    *)
(* three threads that run clang on the client's buffers.  The preamble     *)
(* thread precompiles the #include part of a file, the completion thread   *)
(* answers completion requests and the diagnostics thread publishes        *)
(* diagnostics.  They share an LRU cache of sessions, one per file, and    *)
(* pass tasks on to each other.                                            *)
(*                                                                         *)
(* A text is named by the time of the change that made it.  What clang     *)
(* does with a text is reduced to the size of its preamble (BoundsOf) and  *)
(* to whether it succeeds.  Every change of a buffer is in a second of its *)
(* own.  scheduleDiag is one step.                                         *)
(***************************************************************************)
EXTENDS Integers, FiniteSets, ThreadedQueue

CONSTANTS
  Paths,
  Includes,        (* [Paths -> Seq(Paths)]: the headers of a preamble, as  *)
                   (* they are met                                          *)
  Rank,            (* [Paths -> Nat]: the order of the paths as strings     *)
  BoundsOf,        (* [Texts -> Nat]: size of the preamble of each text     *)
  DropOldRequests, (* completion.dropOldRequests                            *)
  OnOpen, OnSave, OnChange, (* diagnostics.onOpen etc., in ticks            *)
  Starts,          (* the situations a behaviour may start from: records of *)
                   (* maxNum (session.maxNum), opened (the sequence of files *)
                   (* that are open and have a session, the one used last   *)
                   (* in front), messages and failures (bounds: messages    *)
                   (* from the client, failures of clang)                   *)
  MaxMessages      (* the largest of these bounds                           *)

ASSUME StartsAssumption ==
  \A start \in Starts :
    /\ start.maxNum \in Nat \ {0}
    /\ start.messages \in 0 .. MaxMessages /\ start.failures \in Nat
    /\ start.opened \in Seq(Paths)
    /\ Len(start.opened) <= start.maxNum
    /\ \A k, l \in DOMAIN start.opened : start.opened[k] = start.opened[l] => k = l
ASSUME DebounceAssumption == OnOpen \in Nat /\ OnSave \in Nat /\ OnChange \in Nat

Texts == 1 .. MaxMessages + 1    (* 1 is the text every file starts with    *)
NoText == 0                      (* what getContent returns for a file      *)
                                 (* that is not open                        *)
Requests == 1 .. MaxMessages     (* completion requests as they arrive      *)
NoRequest == 0
Sessions ==                      (* a thread may hold one that was evicted  *)
  UNION {1 .. start.maxNum + 3 : start \in Starts}
NoPath == "no path"

BoundsOfText(t) == IF t = NoText THEN 0 ELSE BoundsOf[t]

(* PreambleData: its size, its headers in the order of the vector, for each *)
(* header the timestamp it is taken to have (0: a virtual file) and, as     *)
(* history, the header's text in it.                                        *)
NoPreamble ==
  [bounds |-> -1, includes |-> <<>>, seen |-> [h \in Paths |-> 0],
   text |-> [h \in Paths |-> NoText]]

PreambleSet ==
  [bounds: Int, includes: Seq(Paths), seen: [Paths -> Nat], text: [Paths -> Nat]]

(* StoreInclude keeps a header once, and no two paths are the same string.  *)
ASSUME IncludesAssumption ==
  /\ Includes \in [Paths -> Seq(Paths)]
  /\ \A p \in Paths : \A j, k \in DOMAIN Includes[p] :
       Includes[p][j] = Includes[p][k] => j = k
ASSUME RankAssumption ==
  Rank \in [Paths -> Nat] /\ \A p, q \in Paths : Rank[p] = Rank[q] => p = q
ASSUME BoundsAssumption == MaxMessages \in Nat /\ BoundsOf \in [Texts -> Nat]

Headers(p) == {Includes[p][k] : k \in DOMAIN Includes[p]}

CompTask == [id: Requests, path: Paths]
DiagTask == [path: Paths, wait: Nat]
PreambleTask == [path: Paths, comp: Requests \cup {NoRequest}, from_diag: BOOLEAN]

VARIABLES
  clock,          (* the time of the last change                            *)
  disk,           (* [Paths -> [text, mtime]]                               *)
  buffer,         (* [Paths -> [open, text, timestamp]]: WorkingFiles       *)
  maxNum,         (* session.maxNum and the capacity of the LRU cache       *)
  sent,           (* the latest completion request                          *)
  budget,
  main,           (* [pc, path]: where the main thread's handler is         *)
  sessions,       (* Seq(Sessions): the items of the LRU cache              *)
  session,        (* [Sessions -> [path, preamble]]: what shared_ptrs hold  *)
  next_diag,      (* [Paths -> Nat]: ticks until the next diagnostics may   *)
                  (* be scheduled                                           *)
  comp_tasks, diag_tasks, preamble_tasks,
  preambler,      (* the preamble thread                                    *)
  completer,      (* the completion thread                                  *)
  diagnoser,      (* the diagnostics thread                                 *)
  replies,        (* history: answers to each request, results and errors   *)
  dropped,        (* history: requests dropped for a newer one              *)
  lost,           (* history: requests trimmed from a queue or given up     *)
  excused,        (* history: files a task of which was trimmed or failed   *)
  published       (* history: [Paths -> [text, fits]]: what the last        *)
                  (* diagnostics since didOpen were made from               *)

clientVars == <<clock, disk, buffer, sent, maxNum>>
history == <<replies, dropped, lost, excused, published>>
vars == <<clientVars, budget, main, sessions, session, next_diag, comp_tasks,
          diag_tasks, preamble_tasks, preambler, completer, diagnoser, history>>

IdlePreambler == [pc |-> "idle", path |-> NoPath, comp |-> NoRequest, from_diag |-> FALSE,
                  session |-> 0, created |-> FALSE, built |-> NoPreamble]
IdleCompleter == [pc |-> "idle", id |-> NoRequest, path |-> NoPath, bounds |-> -1]
IdleDiagnoser == [pc |-> "idle", path |-> NoPath, wait |-> 0, session |-> 0,
                  preamble |-> NoPreamble, current |-> FALSE, text |-> NoText]
IdleMain == [pc |-> "idle", path |-> NoPath]
Unpublished == [text |-> NoText, fits |-> FALSE]

ClientType ==
  /\ clock \in Texts
  /\ disk \in [Paths -> [text: Texts, mtime: Texts]]
  /\ buffer \in [Paths -> [open: BOOLEAN, text: Texts \cup {NoText},
                           timestamp: Texts \cup {0}]]
  /\ maxNum \in {start.maxNum : start \in Starts}
  /\ sent \in Requests \cup {NoRequest}
  /\ budget \in [messages: 0 .. MaxMessages, failures: Nat]

CacheType ==
  /\ sessions \in Seq(Sessions) /\ Len(sessions) <= maxNum
  /\ \A k, l \in DOMAIN sessions :
       session[sessions[k]].path = session[sessions[l]].path => k = l
  /\ session \in [Sessions -> [path: Paths \cup {NoPath}, preamble: PreambleSet]]

QueueType ==
  /\ next_diag \in [Paths -> Nat]
  /\ comp_tasks \in QueueOf(CompTask) /\ diag_tasks \in QueueOf(DiagTask)
  /\ preamble_tasks \in QueueOf(PreambleTask)

ThreadType ==
  /\ main \in [pc: {"idle", "opened", "changed", "schedule", "closed"},
               path: Paths \cup {NoPath}]
  /\ preambler \in [pc: {"idle", "session", "store", "forward"},
                    path: Paths \cup {NoPath}, comp: Requests \cup {NoRequest},
                    from_diag: BOOLEAN, session: Sessions \cup {0},
                    created: BOOLEAN, built: PreambleSet]
  /\ completer \in [pc: {"idle", "drop", "check", "parse"},
                    id: Requests \cup {NoRequest}, path: Paths \cup {NoPath},
                    bounds: Int]
  /\ diagnoser \in [pc: {"idle", "sleep", "check", "read", "parse"},
                    path: Paths \cup {NoPath}, wait: Nat, session: Sessions \cup {0},
                    preamble: PreambleSet, current: BOOLEAN,
                    text: Texts \cup {NoText}]

HistoryType ==
  /\ replies \in [Requests -> Nat]
  /\ dropped \subseteq Requests /\ lost \subseteq Requests /\ excused \subseteq Paths
  /\ published \in [Paths -> [text: Texts \cup {NoText}, fits: BOOLEAN]]

(* The LRU cache holds at most maxNum sessions, of different files. *)
TypeOK == ClientType /\ CacheType /\ QueueType /\ ThreadType /\ HistoryType

(* The client has opened some files and the threads have dealt with them. *)
Init == \E start \in Starts :
  LET opened == {start.opened[k] : k \in DOMAIN start.opened}
      first(p) == [bounds   |-> BoundsOf[1],
                   includes |-> Includes[p],
                   seen     |-> [h \in Paths |-> IF h \in Headers(p) THEN 1 ELSE 0],
                   text     |-> [h \in Paths |-> IF h \in Headers(p) THEN 1 ELSE NoText]]
  IN  /\ clock = 1
      /\ disk = [p \in Paths |-> [text |-> 1, mtime |-> 1]]
      /\ buffer = [p \in Paths |-> [open |-> p \in opened, timestamp |-> 0,
                                    text |-> IF p \in opened THEN 1 ELSE NoText]]
      /\ maxNum = start.maxNum
      /\ sent = NoRequest
      /\ budget = [messages |-> start.messages, failures |-> start.failures]
      /\ main = IdleMain
      /\ sessions = [k \in DOMAIN start.opened |-> k]
      /\ session = [s \in Sessions |->
           IF s \in DOMAIN start.opened
           THEN [path |-> start.opened[s], preamble |-> first(start.opened[s])]
           ELSE [path |-> NoPath, preamble |-> NoPreamble]]
      /\ next_diag = [p \in Paths |-> 0]
      /\ comp_tasks = EmptyQueue /\ diag_tasks = EmptyQueue /\ preamble_tasks = EmptyQueue
      /\ preambler = IdlePreambler /\ completer = IdleCompleter /\ diagnoser = IdleDiagnoser
      /\ replies = [r \in Requests |-> 0]
      /\ dropped = {} /\ lost = {} /\ excused = {}
      /\ published = [p \in Paths |-> IF p \in opened THEN [text |-> 1, fits |-> TRUE]
                                      ELSE Unpublished]

Spend(what) ==
  /\ budget[what] > 0
  /\ budget' = [budget EXCEPT ![what] = @ - 1]

(* WorkingFiles::getContent. *)
GetContent(p) == IF buffer[p].open THEN buffer[p].text ELSE NoText

-----------------------------------------------------------------------------
(* LruCache: the session of a path, if it has one.                          *)

Found(p) == {k \in DOMAIN sessions : session[sessions[k]].path = p}

(* take: the items without the one of p. *)
Without(k) == SubSeq(sessions, 1, k - 1) \o SubSeq(sessions, k + 1, Len(sessions))

Take(p) == IF Found(p) = {} THEN sessions ELSE Without(CHOOSE k \in Found(p) : TRUE)

Free ==
  Sessions \ ({sessions[k] : k \in DOMAIN sessions}
               \cup {preambler.session, diagnoser.session})

(* The session that ensureSession(p) returns, its preamble, and the items   *)
(* it leaves: get moves a session to the front, insert evicts the last.     *)
SessionFor(p) ==
  IF Found(p) # {} THEN sessions[CHOOSE k \in Found(p) : TRUE]
  ELSE CHOOSE s \in Free : TRUE

PreambleFor(p) ==
  IF Found(p) # {} THEN session[SessionFor(p)].preamble ELSE NoPreamble

(* Mutant: nothing is evicted. *)
InsertAlways(s) == <<s>> \o sessions

Insert(s) ==
  <<s>> \o (IF Len(sessions) >= maxNum
            THEN SubSeq(sessions, 1, Len(sessions) - 1) ELSE sessions)

EnsureSession(p) ==
  IF Found(p) # {}
    THEN sessions' = <<SessionFor(p)>> \o Take(p) /\ UNCHANGED session
    ELSE /\ sessions' = Insert(SessionFor(p))
         /\ session' = [session EXCEPT ![SessionFor(p)] =
                          [path |-> p, preamble |-> NoPreamble]]

sessionVars == <<sessions, session>>

(* scheduleDiag: within the debounce time of the last one nothing is added. *)
Due(p) == next_diag[p] = 0

ScheduleDiag(p, debounce) ==
  IF Due(p)
    THEN /\ next_diag' = [next_diag EXCEPT ![p] = debounce]
         /\ diag_tasks' = PushBack(diag_tasks, [path |-> p, wait |-> debounce], FALSE)
    ELSE UNCHANGED <<next_diag, diag_tasks>>

(* Mutant: the completion request is not handed over. *)
PushPreambleBare(p, comp, from_diag) ==
  preamble_tasks' =
    PushBack(preamble_tasks, [path |-> p, comp |-> NoRequest, from_diag |-> from_diag], TRUE)

PushPreamble(p, comp, from_diag) ==
  preamble_tasks' =
    PushBack(preamble_tasks, [path |-> p, comp |-> comp, from_diag |-> from_diag], TRUE)

-----------------------------------------------------------------------------
(* The main thread: one handler after another, each in the steps other      *)
(* threads can come between.                                                *)

threads == <<preambler, completer, diagnoser>>

DidOpen(p) ==
  /\ main.pc = "idle"
  /\ ~buffer[p].open
  /\ Spend("messages")
  /\ buffer' = [buffer EXCEPT ![p] =
                  [open |-> TRUE, text |-> disk[p].text, timestamp |-> 0]]
  /\ published' = [published EXCEPT ![p] = Unpublished]
  /\ main' = [pc |-> "opened", path |-> p]
  /\ UNCHANGED <<clock, disk, sent, maxNum, sessionVars, next_diag, comp_tasks, diag_tasks,
                 preamble_tasks, threads, replies, dropped, lost, excused>>

DidChange(p) ==
  /\ main.pc = "idle"
  /\ buffer[p].open
  /\ Spend("messages")
  /\ clock' = clock + 1
  /\ buffer' = [buffer EXCEPT ![p] =
                  [open |-> TRUE, text |-> clock', timestamp |-> clock']]
  /\ main' = [pc |-> "changed", path |-> p]
  /\ UNCHANGED <<disk, sent, maxNum, sessionVars, next_diag, comp_tasks, diag_tasks,
                 preamble_tasks, threads, history>>

(* onView, the end of didOpen and the middle of didChange. *)
OnView ==
  LET p == main.path
  IN  /\ main.pc \in {"opened", "changed"}
      /\ IF Found(p) # {}
           THEN /\ sessions' = <<SessionFor(p)>> \o Take(p)
                /\ UNCHANGED preamble_tasks
           ELSE /\ PushPreamble(p, NoRequest, FALSE)
                /\ UNCHANGED sessions
      /\ main' = IF main.pc = "changed" THEN [main EXCEPT !.pc = "schedule"] ELSE IdleMain
      /\ UNCHANGED <<clientVars, budget, session, next_diag, comp_tasks, diag_tasks,
                     threads, history>>

Schedule ==
  /\ main.pc = "schedule"
  /\ ScheduleDiag(main.path, OnChange)
  /\ main' = IdleMain
  /\ UNCHANGED <<clientVars, budget, sessionVars, comp_tasks, preamble_tasks,
                 threads, history>>

(* The editor has written the file; onSave. *)
DidSave(p) ==
  /\ main.pc = "idle"
  /\ buffer[p].open
  /\ Spend("messages")
  /\ disk' = [disk EXCEPT ![p] = [text |-> buffer[p].text, mtime |-> clock]]
  /\ PushPreamble(p, NoRequest, FALSE)
  /\ UNCHANGED <<clock, buffer, sent, maxNum, main, sessionVars, next_diag, comp_tasks,
                 diag_tasks, threads, history>>

DidClose(p) ==
  /\ main.pc = "idle"
  /\ buffer[p].open
  /\ Spend("messages")
  /\ buffer' = [buffer EXCEPT ![p] = [open |-> FALSE, text |-> NoText, timestamp |-> 0]]
  /\ main' = [pc |-> "closed", path |-> p]
  /\ UNCHANGED <<clock, disk, sent, maxNum, sessionVars, next_diag, comp_tasks, diag_tasks,
                 preamble_tasks, threads, history>>

OnClose ==
  /\ main.pc = "closed"
  /\ sessions' = Take(main.path)
  /\ main' = IdleMain
  /\ UNCHANGED <<clientVars, budget, session, next_diag, comp_tasks, diag_tasks,
                 preamble_tasks, threads, history>>

(* $ccls/reload, didChangeConfiguration, didChangeWorkspaceFolders. *)
Clear ==
  /\ main.pc = "idle"
  /\ Spend("messages")
  /\ sessions' = <<>>
  /\ UNCHANGED <<clientVars, main, session, next_diag, comp_tasks, diag_tasks,
                 preamble_tasks, threads, history>>

(* textDocument/completion: answered at once (the file is not open, the     *)
(* trigger character stands alone, or the cache of the last result applies) *)
(* or handed to the completion thread.                                      *)
Completion(p) ==
  /\ main.pc = "idle"
  /\ Spend("messages")
  /\ sent' = sent + 1
  /\ \/ /\ replies' = [replies EXCEPT ![sent'] = @ + 1]
        /\ UNCHANGED comp_tasks
     \/ /\ buffer[p].open
        /\ comp_tasks' = PushBack(comp_tasks, [id |-> sent', path |-> p], FALSE)
        /\ UNCHANGED replies
  /\ UNCHANGED <<clock, disk, buffer, maxNum, main, sessionVars, next_diag, diag_tasks,
                 preamble_tasks, threads, dropped, lost, excused, published>>

-----------------------------------------------------------------------------
(* preambleMain.                                                            *)

mainVars == <<clientVars, main>>

(* dequeue(session.maxNum) erases the oldest tasks beyond maxNum. *)
Erased ==
  {preamble_tasks.priority[k] : k \in 1 .. Len(preamble_tasks.priority) - maxNum}

PreambleTake ==
  /\ preambler.pc = "idle"
  /\ CanPop(preamble_tasks)
  /\ LET task == DequeueItem(preamble_tasks, maxNum)
     IN  preambler' = [IdlePreambler EXCEPT !.pc = "session", !.path = task.path,
                         !.comp = task.comp, !.from_diag = task.from_diag]
  /\ preamble_tasks' = DequeueRest(preamble_tasks, maxNum)
  /\ lost' = lost \cup ({t.comp : t \in Erased} \ {NoRequest})
  /\ excused' = excused \cup {t.path : t \in Erased}
  /\ UNCHANGED <<mainVars, budget, sessionVars, next_diag, comp_tasks, diag_tasks,
                 completer, diagnoser, replies, dropped, published>>

(* What buildPreamble makes of the buffers: only the headers of the old     *)
(* preamble are remapped to their buffers, and a remapped header has no     *)
(* modification time.                                                       *)
Remapped(p, old) ==
  {h \in Headers(p) : old # NoPreamble /\ buffer[h].open}

Built(p, old) ==
  [bounds   |-> BoundsOfText(GetContent(p)),
   includes |-> Includes[p],
   seen     |-> [h \in Paths |->
                   IF h \in Headers(p) \ Remapped(p, old) THEN disk[h].mtime ELSE 0],
   text     |-> [h \in Paths |-> IF h \in Remapped(p, old) THEN buffer[h].text
                                 ELSE IF h \in Headers(p) THEN disk[h].text
                                 ELSE NoText]]

(* PrecompiledPreamble::CanReuse, at most then. *)
CanReuse(p, old) ==
  /\ old # NoPreamble
  /\ old.bounds = BoundsOfText(GetContent(p))
  /\ \A h \in Headers(p) : old.text[h] = disk[h].text

PreambleSession ==
  LET p == preambler.path
      old == PreambleFor(p)
      started == [preambler EXCEPT !.session = SessionFor(p), !.created = Found(p) = {}]
  IN  /\ preambler.pc = "session"
      /\ EnsureSession(p)
      /\ \/ preambler' = [started EXCEPT !.pc = "store", !.built = Built(p, old)]
         \/ /\ ~preambler.from_diag
            /\ CanReuse(p, old)
            /\ preambler' = [started EXCEPT !.pc = "forward"]
      /\ UNCHANGED <<mainVars, budget, next_diag, comp_tasks, diag_tasks,
                     preamble_tasks, completer, diagnoser, history>>

(* Mutant: a remapped header is taken to be as new as its buffer is now. *)
MergeSeenNow(built, old) ==
  [built EXCEPT !.seen = [h \in Paths |-> IF @[h] = 0 THEN buffer[h].timestamp ELSE @[h]]]

(* The vector sorted by path, as it is when there was a preamble before. *)
Sorted(includes) ==
  LET paths == {includes[k] : k \in DOMAIN includes}
  IN  [k \in DOMAIN includes |->
         CHOOSE h \in paths : Cardinality({g \in paths : Rank[g] <= Rank[h]}) = k]

(* A remapped header takes the timestamp of the first header of the old     *)
(* vector that is not before it: its own, if that vector is sorted.  The    *)
(* vector of a first preamble is not.                                       *)
OldTimestamp(h, old) ==
  LET at == {k \in DOMAIN old.includes : Rank[old.includes[k]] >= Rank[h]}
  IN  IF at = {} THEN 0
      ELSE old.seen[old.includes[CHOOSE k \in at : \A j \in at : k <= j]]

MergeSeen(built, old) ==
  IF old = NoPreamble THEN built
  ELSE [built EXCEPT
          !.includes = Sorted(@),
          !.seen = [h \in Paths |->
                      IF @[h] = 0 /\ \E k \in DOMAIN built.includes : built.includes[k] = h
                      THEN OldTimestamp(h, old) ELSE @[h]]]

(* PrecompiledPreamble::Build succeeds. *)
PreambleStore ==
  LET s == preambler.session
  IN  /\ preambler.pc = "store"
      /\ session' = [session EXCEPT ![s].preamble = MergeSeen(preambler.built, @)]
      /\ diagnoser' = [diagnoser EXCEPT !.current = @ /\ diagnoser.session # s]
      /\ preambler' = [preambler EXCEPT !.pc = "forward", !.built = NoPreamble]
      /\ UNCHANGED <<mainVars, budget, sessions, next_diag, comp_tasks, diag_tasks,
                     preamble_tasks, completer, history>>

(* It fails, or there was no compiler invocation to try it with. *)
PreambleFail ==
  /\ preambler.pc = "store"
  /\ Spend("failures")
  /\ preambler' = [preambler EXCEPT !.pc = "forward", !.built = NoPreamble]
  /\ excused' = excused \cup {preambler.path}
  /\ UNCHANGED <<mainVars, sessionVars, next_diag, comp_tasks, diag_tasks,
                 preamble_tasks, completer, diagnoser, replies, dropped, lost,
                 published>>

(* How long the diagnostics that follow a preamble wait. *)
ForwardDebounce ==
  IF preambler.from_diag THEN 0 ELSE IF preambler.created THEN OnOpen ELSE OnSave

(* Mutant: a task on behalf of a completion request is not told apart. *)
ForCompletionNever == FALSE

(* The task carries a completion request, which goes back to its thread.    *)
ForCompletion == preambler.comp # NoRequest

PreambleForward ==
  LET p == preambler.path
  IN  /\ preambler.pc = "forward"
      /\ IF ForCompletion
           THEN /\ comp_tasks' =
                     PushBack(comp_tasks, [id |-> preambler.comp, path |-> p], FALSE)
                /\ UNCHANGED <<next_diag, diag_tasks>>
           ELSE /\ IF ForwardDebounce >= 0 THEN ScheduleDiag(p, ForwardDebounce)
                   ELSE UNCHANGED <<next_diag, diag_tasks>>
                /\ UNCHANGED comp_tasks
      /\ preambler' = IdlePreambler
      /\ UNCHANGED <<mainVars, budget, sessionVars, preamble_tasks, completer,
                     diagnoser, history>>

-----------------------------------------------------------------------------
(* completionMain.                                                          *)

ToDrop(task) == [IdleCompleter EXCEPT !.pc = "drop", !.id = task.id, !.path = task.path]

CompTake ==
  /\ completer.pc = "idle"
  /\ CanPop(comp_tasks)
  /\ completer' = ToDrop(DequeueItem(comp_tasks, 0))
  /\ comp_tasks' = DequeueRest(comp_tasks, 0)
  /\ UNCHANGED <<mainVars, budget, sessionVars, next_diag, diag_tasks, preamble_tasks,
                 preambler, diagnoser, history>>

(* Drop older requests if we're not buffering. *)
Drops == DropOldRequests /\ ~IsEmpty(comp_tasks)

CompDrop ==
  /\ completer.pc = "drop"
  /\ Drops
  /\ replies' = [replies EXCEPT ![completer.id] = @ + 1]
  /\ dropped' = dropped \cup {completer.id}
  /\ completer' = ToDrop(DequeueItem(comp_tasks, 0))
  /\ comp_tasks' = DequeueRest(comp_tasks, 0)
  /\ UNCHANGED <<mainVars, budget, sessionVars, next_diag, diag_tasks, preamble_tasks,
                 preambler, diagnoser, lost, excused, published>>

CompSession ==
  /\ completer.pc = "drop"
  /\ ~Drops
  /\ EnsureSession(completer.path)
  /\ completer' = [completer EXCEPT !.pc = "check",
                     !.bounds = PreambleFor(completer.path).bounds]
  /\ UNCHANGED <<mainVars, budget, next_diag, comp_tasks, diag_tasks, preamble_tasks,
                 preambler, diagnoser, history>>

(* The preamble is of another size than the buffer's: have it built first,  *)
(* and take the request again afterwards.                                   *)
PreambleFits(bounds, t) == bounds = -1 \/ bounds = BoundsOfText(t)

CompRebuild ==
  /\ completer.pc = "check"
  /\ ~PreambleFits(completer.bounds, GetContent(completer.path))
  /\ PushPreamble(completer.path, completer.id, FALSE)
  /\ completer' = IdleCompleter
  /\ UNCHANGED <<mainVars, budget, sessionVars, next_diag, comp_tasks, diag_tasks,
                 preambler, diagnoser, history>>

(* Otherwise, or if the position is inside the preamble, start to parse. *)
CompParse ==
  /\ completer.pc = "check"
  /\ \/ PreambleFits(completer.bounds, GetContent(completer.path))
     \/ BoundsOfText(GetContent(completer.path)) > 0
  /\ completer' = [completer EXCEPT !.pc = "parse", !.bounds = -1]
  /\ UNCHANGED <<mainVars, budget, sessionVars, next_diag, comp_tasks, diag_tasks,
                 preamble_tasks, preambler, diagnoser, history>>

CompReply ==
  /\ completer.pc = "parse"
  /\ replies' = [replies EXCEPT ![completer.id] = @ + 1]
  /\ completer' = IdleCompleter
  /\ UNCHANGED <<mainVars, budget, sessionVars, next_diag, comp_tasks, diag_tasks,
                 preamble_tasks, preambler, diagnoser, dropped, lost, excused, published>>

(* clang fails in one of three places: the request is not answered. *)
CompFail ==
  /\ completer.pc = "parse"
  /\ Spend("failures")
  /\ lost' = lost \cup {completer.id}
  /\ completer' = IdleCompleter
  /\ UNCHANGED <<mainVars, sessionVars, next_diag, comp_tasks, diag_tasks, preamble_tasks,
                 preambler, diagnoser, replies, dropped, excused, published>>

-----------------------------------------------------------------------------
(* diagnosticMain.                                                          *)

DiagTake ==
  /\ diagnoser.pc = "idle"
  /\ CanPop(diag_tasks)
  /\ LET task == DequeueItem(diag_tasks, 0)
     IN  diagnoser' = [IdleDiagnoser EXCEPT !.pc = "sleep", !.path = task.path,
                         !.wait = task.wait]
  /\ diag_tasks' = DequeueRest(diag_tasks, 0)
  /\ UNCHANGED <<mainVars, budget, sessionVars, next_diag, comp_tasks, preamble_tasks,
                 preambler, completer, history>>

(* Mutant: it does not sleep. *)
AwakeAlways == TRUE

(* The sleep is over. *)
Awake == diagnoser.wait = 0

DiagSession ==
  LET p == diagnoser.path
  IN  /\ diagnoser.pc = "sleep"
      /\ Awake
      /\ EnsureSession(p)
      /\ diagnoser' = [diagnoser EXCEPT !.pc = "check", !.session = SessionFor(p),
                         !.preamble = PreambleFor(p), !.current = TRUE]
      /\ UNCHANGED <<mainVars, budget, next_diag, comp_tasks, diag_tasks, preamble_tasks,
                     preambler, completer, history>>

(* The headers whose buffer changed after the preamble was made. *)
Outdated ==
  {h \in Headers(diagnoser.path) :
     buffer[h].open /\ diagnoser.preamble.seen[h] < buffer[h].timestamp}

(* Mutant: only the headers are looked at. *)
RebuildForHeaders == diagnoser.preamble # NoPreamble /\ Outdated # {}

Rebuild ==
  /\ diagnoser.preamble # NoPreamble
  /\ \/ Outdated # {}
     \/ ~PreambleFits(diagnoser.preamble.bounds, GetContent(diagnoser.path))

(* Mark the headers as seen, in the preamble this thread holds, and have    *)
(* the preamble built again.                                                *)
DiagRebuild ==
  /\ diagnoser.pc = "check"
  /\ Rebuild
  /\ session' = IF diagnoser.current
                  THEN [session EXCEPT ![diagnoser.session].preamble.seen =
                          [h \in Paths |-> IF h \in Outdated
                                           THEN buffer[h].timestamp ELSE @[h]]]
                  ELSE session
  /\ PushPreamble(diagnoser.path, NoRequest, TRUE)
  /\ diagnoser' = IdleDiagnoser
  /\ UNCHANGED <<mainVars, budget, sessions, next_diag, comp_tasks, diag_tasks,
                 preambler, completer, history>>

DiagCheck ==
  /\ diagnoser.pc = "check"
  /\ ~Rebuild
  /\ diagnoser' = [diagnoser EXCEPT !.pc = "read"]
  /\ UNCHANGED <<mainVars, budget, sessionVars, next_diag, comp_tasks, diag_tasks,
                 preamble_tasks, preambler, completer, history>>

(* The text that is parsed is read again. *)
DiagRead ==
  /\ diagnoser.pc = "read"
  /\ diagnoser' = [diagnoser EXCEPT !.pc = "parse", !.text = GetContent(diagnoser.path)]
  /\ UNCHANGED <<mainVars, budget, sessionVars, next_diag, comp_tasks, diag_tasks,
                 preamble_tasks, preambler, completer, history>>

DiagPublish ==
  /\ diagnoser.pc = "parse"
  /\ published' = [published EXCEPT ![diagnoser.path] =
       [text |-> diagnoser.text,
        fits |-> PreambleFits(diagnoser.preamble.bounds, diagnoser.text)]]
  /\ diagnoser' = IdleDiagnoser
  /\ UNCHANGED <<mainVars, budget, sessionVars, next_diag, comp_tasks, diag_tasks,
                 preamble_tasks, preambler, completer, replies, dropped, lost, excused>>

(* clang fails in one of three places: nothing is published. *)
DiagFail ==
  /\ diagnoser.pc = "parse"
  /\ Spend("failures")
  /\ excused' = excused \cup {diagnoser.path}
  /\ diagnoser' = IdleDiagnoser
  /\ UNCHANGED <<mainVars, sessionVars, next_diag, comp_tasks, diag_tasks,
                 preamble_tasks, preambler, completer, replies, dropped, lost, published>>

-----------------------------------------------------------------------------
Less(n) == IF n > 0 THEN n - 1 ELSE 0
Aged(tasks) == [k \in DOMAIN tasks |-> [tasks[k] EXCEPT !.wait = Less(@)]]

(* Time passes for those who wait. *)
Tick ==
  /\ \E p \in Paths : next_diag[p] > 0
  /\ next_diag' = [p \in Paths |-> Less(next_diag[p])]
  /\ diag_tasks' = [diag_tasks EXCEPT !.queue = Aged(@)]
  /\ diagnoser' = [diagnoser EXCEPT !.wait = Less(@)]
  /\ UNCHANGED <<mainVars, budget, sessionVars, comp_tasks, preamble_tasks, preambler,
                 completer, history>>

Client ==
  \/ \E p \in Paths : \/ DidOpen(p) \/ DidChange(p) \/ DidSave(p) \/ DidClose(p)
                      \/ Completion(p)
  \/ Clear

Main == OnView \/ Schedule \/ OnClose

PreambleMain ==
  PreambleTake \/ PreambleSession \/ PreambleStore \/ PreambleFail \/ PreambleForward

CompletionMain ==
  CompTake \/ CompDrop \/ CompSession \/ CompRebuild \/ CompParse \/ CompReply \/ CompFail

DiagnosticMain ==
  \/ DiagTake \/ DiagSession \/ DiagRebuild \/ DiagCheck \/ DiagRead
  \/ DiagPublish \/ DiagFail

Next == Client \/ Main \/ PreambleMain \/ CompletionMain \/ DiagnosticMain \/ Tick

(* The threads run and time passes; neither the client nor a failure of     *)
(* clang need ever happen.  The last condition is about timing: between     *)
(* taking a preamble and marking its headers the diagnostics thread does    *)
(* not lose a race against the preamble thread every time.                  *)
Fairness ==
  /\ WF_vars(Main)
  /\ WF_vars(PreambleMain /\ UNCHANGED budget)
  /\ WF_vars(CompletionMain /\ UNCHANGED budget)
  /\ WF_vars(DiagnosticMain /\ UNCHANGED budget)
  /\ WF_vars(Tick)
  /\ SF_vars(DiagRebuild /\ diagnoser.current)

Spec == Init /\ [][Next]_vars
FairSpec == Spec /\ Fairness

-----------------------------------------------------------------------------
(* Properties.                                                              *)

(* How often a request is in the hands of a thread or a queue. *)
Holders(r) ==
  Cardinality({k \in DOMAIN comp_tasks.queue : comp_tasks.queue[k].id = r})
  + Cardinality({k \in DOMAIN preamble_tasks.priority : preamble_tasks.priority[k].comp = r})
  + Cardinality({t \in {1} : completer.id = r})
  + Cardinality({t \in {1} : preambler.comp = r})

(* However often a completion request goes back and forth between the       *)
(* completion and the preamble thread, it is held once until it is answered *)
(* and never afterwards: no request is answered twice, and one that is not  *)
(* answered was erased from the preamble queue or clang failed on it.       *)
OneOwner ==
  \A r \in Requests :
    Holders(r) + replies[r] + Cardinality({r} \cap lost) = IF r <= sent THEN 1 ELSE 0

(* scheduleDiag adds nothing within the debounce time of a file: then a     *)
(* task of that file is still waiting for that time to be over, so the      *)
(* change that was not scheduled will be read.                              *)
DebounceCovered ==
  \A p \in Paths : next_diag[p] > 0 =>
    \/ \E k \in DOMAIN diag_tasks.queue :
         diag_tasks.queue[k] = [path |-> p, wait |-> next_diag[p]]
    \/ diagnoser.pc = "sleep" /\ diagnoser.path = p /\ diagnoser.wait = next_diag[p]

(* The rebuild that the diagnostics thread asked for is still to come. *)
RebuildPending(p) ==
  \/ \E k \in DOMAIN preamble_tasks.priority :
       preamble_tasks.priority[k].path = p /\ preamble_tasks.priority[k].from_diag
  \/ preambler.pc \in {"session", "store"} /\ preambler.path = p /\ preambler.from_diag

(* A preamble that counts as up to date with a header's buffer contains the *)
(* header's present text, or is about to be built again: marking a header   *)
(* as seen before the rebuild loses no change, unless that rebuild was      *)
(* erased from the queue or failed.                                         *)
HeaderSeen ==
  \A k \in DOMAIN sessions :
    LET p == session[sessions[k]].path
        preamble == session[sessions[k]].preamble
    IN  preamble # NoPreamble /\ p \notin excused /\ ~RebuildPending(p) =>
          \A h \in Headers(p) :
            buffer[h].open /\ buffer[h].timestamp \in 1 .. preamble.seen[h]
              => preamble.text[h] = buffer[h].text

(* When the user pauses, every completion request comes to be answered,     *)
(* unless it was erased or clang failed on it.                              *)
Answered ==
  <>[](\A r \in Requests : r <= sent => replies[r] > 0 \/ r \in lost)

(* When the user pauses, the diagnostics of every file that was changed     *)
(* since it was opened come to be those of its present text, made with a    *)
(* preamble of the right size, unless a task of it was erased or failed.    *)
DiagsSettle ==
  <>[](\A p \in Paths :
         buffer[p].open /\ buffer[p].timestamp > 0 /\ p \notin excused =>
           published[p] = [text |-> buffer[p].text, fits |-> TRUE])

(* "receives multiple completion requests while completion is still running *)
(* it will only service the newest request" (config.hh): the newest request *)
(* is never dropped for another.                                            *)
NewestKept == sent \notin dropped

=============================================================================
