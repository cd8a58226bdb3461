--------------------------- MODULE ThreadedQueue ---------------------------
(***************************************************************************)
(* The value of a ccls::ThreadedQueue (src/src/threaded_queue.hh) and its  *)
(* operations.  A queue holds two deques, priority_ and queue_, and the    *)
(* atomic counter total_count_ that isEmpty() and size() read without the  *)
(* mutex.  Every operation below runs under the queue's mutex, so each is  *)
(* one step of the thread that calls it.                                   *)
(***************************************************************************)
EXTENDS Integers, Sequences

(* A queue: priority_, queue_ and total_count_. *)
QueueOf(T) == [priority: Seq(T), queue: Seq(T), total: Int]

EmptyQueue == [priority |-> <<>>, queue |-> <<>>, total |-> 0]

(* push<push_back>(t, priority). *)
PushBack(q, t, isPriority) ==
  IF isPriority
    THEN [q EXCEPT !.priority = Append(@, t), !.total = @ + 1]
    ELSE [q EXCEPT !.queue = Append(@, t), !.total = @ + 1]

(* isEmpty() asks the counter, not the deques. *)
IsEmpty(q) == q.total = 0

(* What the deques really hold, in the order tryPopFront would return it. *)
Contents(q) == q.priority \o q.queue

(* tryPopFront: priority_ first.  The element and the queue left behind.   *)
CanPop(q) == Contents(q) # <<>>

Front(q) == Head(Contents(q))

PopFront(q) ==
  IF q.priority # <<>>
    THEN [q EXCEPT !.priority = Tail(@), !.total = @ - 1]
    ELSE [q EXCEPT !.queue = Tail(@), !.total = @ - 1]

(* The last n elements of s, all of them when there are fewer. *)
LastOf(s, n) == IF Len(s) > n THEN SubSeq(s, Len(s) - n + 1, Len(s)) ELSE s

(* dequeue(keep_only_latest): the deque that is popped is first trimmed to  *)
(* its latest keep elements (keep = 0 keeps everything); total_count_ goes  *)
(* down by one whatever was erased.                                         *)
Trim(s, keep) == IF keep > 0 THEN LastOf(s, keep) ELSE s

TrimFront(q, keep) ==
  IF q.priority # <<>>
    THEN [q EXCEPT !.priority = Trim(@, keep)]
    ELSE [q EXCEPT !.queue = Trim(@, keep)]

DequeueItem(q, keep) == Front(TrimFront(q, keep))
DequeueRest(q, keep) == PopFront(TrimFront(q, keep))

(* apply(fn): fn sees queue_ only, never priority_ and never the counter.   *)
(* mainLoop's fn is clear(); indexerSort's fn is a stable sort.             *)
ApplyClear(q) == [q EXCEPT !.queue = <<>>]
=============================================================================
