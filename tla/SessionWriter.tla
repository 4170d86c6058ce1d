---------------------------- MODULE SessionWriter ----------------------------
(***************************************************************************)
(* How a Session of ws_server.cpp writes to its WebSocket.  Any thread may *)
(* send: the WebSocket thread itself, and the libdatachannel threads that  *)
(* publish track bindings, answers and candidates.  They push under        *)
(* write_mutex, and the one that finds the queue empty posts do_write to   *)
(* the WebSocket thread; from then on every on_write starts the next       *)
(* write.  The message being written stays at the front of the queue until *)
(* it is out.                                                              *)
(*                                                                         *)
(* A websocket::stream allows one outstanding async_write; the model lets  *)
(* there be several, to show that there never are.                         *)
(***************************************************************************)
EXTENDS Naturals, Sequences, FiniteSets

CONSTANTS
    Senders,     \* threads that call send
    Messages,
    Capacity,    \* kMaxWriteQueueSize
    MaxTaken     \* bound: messages the queue takes

ASSUME WriterConstants ==
    /\ IsFiniteSet(Senders)
    /\ Capacity \in Nat \ {0} /\ MaxTaken \in Nat

VARIABLES
    write_queue,   \* BoundedQueue::items_
    closed,        \* BoundedQueue::closed_
    posting,       \* senders between the unlock and boost::asio::post
    posted,        \* do_write handlers the WebSocket thread has not run
    writing,       \* outstanding async_writes
    wire,          \* messages written
    failed         \* an async_write has failed

vars == <<write_queue, closed, posting, posted, writing, wire, failed>>

-----------------------------------------------------------------------------
\* BoundedQueue::push: not DroppedFull.
HasRoom(queue) == Len(queue) < Capacity

\* Mutant: the size is looked at before the push.
StartsBeforePush(queue) == Len(queue) = 2

\* enqueue: start_write, with the message already in the queue.
StartsWrite(queue) == Len(queue) = 1

(***************************************************************************)
(* enqueue, up to the unlock.  A message for a closed or a full queue is   *)
(* dropped.                                                                *)
(***************************************************************************)
Enqueue(s, m) ==
    LET queue == Append(write_queue, m) IN
    /\ s \notin posting
    /\ Len(wire) + Len(write_queue) < MaxTaken
    /\ ~closed /\ HasRoom(write_queue)
    /\ write_queue' = queue
    /\ posting' = IF StartsWrite(queue) THEN posting \cup {s} ELSE posting
    /\ UNCHANGED <<closed, posted, writing, wire, failed>>

Post(s) ==
    /\ s \in posting
    /\ posting' = posting \ {s}
    /\ posted' = posted + 1
    /\ UNCHANGED <<write_queue, closed, writing, wire, failed>>

\* do_write: copies the front and leaves it in the queue.
do_write(queue) ==
    writing' = IF queue = <<>> THEN writing ELSE Append(writing, Head(queue))

RunPosted ==
    /\ posted > 0
    /\ posted' = posted - 1
    /\ do_write(write_queue)
    /\ UNCHANGED <<write_queue, closed, posting, wire, failed>>

\* Mutant: on_write leaves the rest to the next send.
OnWriteStops ==
    /\ writing # <<>>
    /\ wire' = Append(wire, Head(writing))
    /\ write_queue' = IF write_queue = <<>> THEN <<>> ELSE Tail(write_queue)
    /\ writing' = Tail(writing)
    /\ UNCHANGED <<closed, posting, posted, failed>>

\* on_write without error: drop the front, write the next.
OnWrite ==
    LET rest == IF write_queue = <<>> THEN <<>> ELSE Tail(write_queue) IN
    /\ writing # <<>>
    /\ wire' = Append(wire, Head(writing))
    /\ write_queue' = rest
    /\ writing' = IF rest = <<>> THEN Tail(writing)
                  ELSE Append(Tail(writing), Head(rest))
    /\ UNCHANGED <<closed, posting, posted, failed>>

\* on_write with an error: on_close, and no further write.
OnWriteFailed ==
    /\ writing # <<>>
    /\ writing' = Tail(writing)
    /\ failed' = TRUE
    /\ closed' = TRUE
    /\ UNCHANGED <<write_queue, posting, posted, wire>>

\* on_close after a read error; what the queue holds stays in it.
OnClose ==
    /\ ~closed
    /\ closed' = TRUE
    /\ UNCHANGED <<write_queue, posting, posted, writing, wire, failed>>

-----------------------------------------------------------------------------
Init ==
    /\ write_queue = <<>> /\ closed = FALSE
    /\ posting = {} /\ posted = 0
    /\ writing = <<>> /\ wire = <<>> /\ failed = FALSE

Next ==
    \/ \E s \in Senders, m \in Messages : Enqueue(s, m)
    \/ \E s \in Senders : Post(s)
    \/ RunPosted
    \/ OnWrite
    \/ OnWriteFailed
    \/ OnClose

(***************************************************************************)
(* A thread that is about to post does; the WebSocket thread runs what is  *)
(* posted; an async_write completes, or fails by the stream's timeout.     *)
(***************************************************************************)
Fairness ==
    /\ \A s \in Senders : WF_vars(Post(s))
    /\ WF_vars(RunPosted)
    /\ WF_vars(OnWrite \/ OnWriteFailed)

Spec == Init /\ [][Next]_vars /\ Fairness

-----------------------------------------------------------------------------
\* The type of every variable; a queue never exceeds kMaxWriteQueueSize.
TypeOK ==
    /\ write_queue \in Seq(Messages) /\ Len(write_queue) <= Capacity
    /\ closed \in BOOLEAN /\ failed \in BOOLEAN
    /\ posting \subseteq Senders /\ posted \in Nat
    /\ writing \in Seq(Messages) /\ wire \in Seq(Messages)

(***************************************************************************)
(* websocket::stream forbids a second async_write before the first is      *)
(* done.  Whoever sends when, there is one writer: a thread about to post, *)
(* a posted do_write or an outstanding write, and never two of them.       *)
(***************************************************************************)
OneWriter == Cardinality(posting) + posted + Len(writing) <= 1

(***************************************************************************)
(* The session keeps the promise of OrderedChannel: nothing is lost,       *)
(* repeated or reordered between the queue and the wire, and whatever the  *)
(* queue took is written in the end unless the connection breaks.          *)
(***************************************************************************)
Channel == INSTANCE OrderedChannel WITH
    waiting <- write_queue, delivered <- wire, open <- ~closed, broken <- failed

KeepsPromise == Channel!Spec
==============================================================================
