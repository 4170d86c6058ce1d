----------------------------- MODULE QueueProofs -----------------------------
(***************************************************************************)
(* Proofs about what is queued or under way: the two queues that threads   *)
(* of the system share, the write queue of a session, guarded by a mutex,  *)
(* and the lock-free queue of the playout of screen sound, and the         *)
(* requests of the desktop client that the REST API has yet to answer.     *)
(*                                                                         *)
(* SessionWriter, for any number of sending threads, any messages and any  *)
(* capacity: a session never has two writers, and every step of it is a    *)
(* step of the OrderedChannel it implements, or none.                      *)
(*                                                                         *)
(* PcmPlayout, for every capacity and any number of starts: PlayoutInv is  *)
(* inductive, and it implies that a reset of the queue never overlaps a    *)
(* push or a callback, that only sound of the current run is played, and   *)
(* that a stopped playout is silent.                                       *)
(*                                                                         *)
(* AppRequests, for any accounts and servers and every bound: AppInv is    *)
(* inductive, and it implies that the session is the one asked for last,   *)
(* that nothing of others is shown, and that what is shown is current once *)
(* every reply is in.                                                      *)
(***************************************************************************)
EXTENDS SessionWriter, AppRequests, FiniteSetTheorems, SequenceTheorems, TLAPS

CONSTANTS
    PlayoutCapacity,   \* of the queue of the playout
    MaxRuns            \* bound on its starts

\* The state of the playout; samples is its queue.
VARIABLES ctl, accepting, active, prod, accepted, dev, samples, level, run, heard

Playout == INSTANCE PcmPlayout WITH Capacity <- PlayoutCapacity, queue <- samples

(***************************************************************************)
(* The strengthening of OneWriter.  The right to write is a token that     *)
(* exists exactly while the queue holds a message and no write has failed: *)
(* enqueue creates it on the first message, on_write gives it up with the  *)
(* last.  Both decide by the queue alone, which is why its holder, a       *)
(* thread, a posted handler or a write, is unique.                         *)
(***************************************************************************)
Token == IF write_queue # <<>> /\ ~failed THEN 1 ELSE 0

TokenHeldOnce == Cardinality(posting) + posted + Len(writing) = Token

\* The message being written is the one at the front.
WritesFront ==
    writing # <<>> => write_queue # <<>> /\ Head(writing) = Head(write_queue)

IInv ==
    /\ TypeOK
    /\ TokenHeldOnce
    /\ WritesFront
    /\ failed => closed

-----------------------------------------------------------------------------
\* Every set of threads about to post is finite.
LEMMA PostingFinite ==
    ASSUME NEW P, P \subseteq Senders
    PROVE  IsFiniteSet(P) /\ Cardinality(P) \in Nat
BY WriterConstants, FS_Subset, FS_CardinalityType

\* A thread that starts, or stops, being about to post is counted once.
LEMMA PostingCounts ==
    ASSUME NEW P, P \subseteq Senders, NEW s \in Senders
    PROVE  /\ s \notin P => Cardinality(P \cup {s}) = Cardinality(P) + 1
           /\ s \in P => Cardinality(P \ {s}) = Cardinality(P) - 1
BY PostingFinite, FS_AddElement, FS_RemoveElement

\* A sequence of one element has nothing behind its head.
LEMMA OnlyOne ==
    ASSUME NEW q \in Seq(Messages), Len(q) = 1
    PROVE  Tail(q) = <<>>
<1>1. q # <<>>
  BY EmptySeq
<1>2. Tail(q) \in Seq(Messages) /\ Len(Tail(q)) = 0
  BY <1>1, HeadTailProperties
<1> QED
  BY <1>2, EmptySeq

\* A sequence of one message.
LEMMA JustOne ==
    ASSUME NEW m
    PROVE  /\ Append(<<>>, m) = <<m>>
           /\ m \in Messages => <<m>> \in Seq(Messages)
OBVIOUS

\* A session starts with an empty queue and nobody writing.
LEMMA InitIInv == Init => IInv
<1>1. Cardinality({}) = 0
  BY FS_EmptySet
<1>2. <<>> \in Seq(Messages) /\ Len(<<>>) = 0
  BY EmptySeq
<1> SUFFICES ASSUME Init PROVE IInv
  OBVIOUS
<1>3. TypeOK
  <2>1. write_queue \in Seq(Messages) /\ Len(write_queue) <= Capacity
    BY <1>2, WriterConstants DEF Init
  <2>2. writing \in Seq(Messages) /\ wire \in Seq(Messages)
    BY <1>2 DEF Init
  <2> QED
    BY <2>1, <2>2 DEF Init, TypeOK
<1>4. TokenHeldOnce
  BY <1>1, <1>2 DEF Init, TokenHeldOnce, Token
<1>5. WritesFront /\ (failed => closed)
  BY DEF Init, WritesFront
<1> QED
  BY <1>3, <1>4, <1>5 DEF IInv

-----------------------------------------------------------------------------
\* enqueue: only the message that makes the queue non-empty makes a writer.
LEMMA EnqueueIInv ==
    ASSUME IInv, NEW s \in Senders, NEW m \in Messages, Enqueue(s, m)
    PROVE  IInv'
<1> USE DEF IInv, Enqueue
<1>1. TypeOK'
  BY WriterConstants DEF TypeOK, HasRoom
<1>2. write_queue' # <<>> /\ Len(write_queue') = Len(write_queue) + 1
  BY DEF TypeOK
<1>3. ~failed
  OBVIOUS
<1>4. TokenHeldOnce'
  <2>1. CASE write_queue = <<>>
    <3>1. posting' = posting \cup {s}
      BY <2>1, <1>2 DEF StartsWrite, TypeOK
    <3>2. Cardinality(posting') = Cardinality(posting) + 1
      BY <3>1, PostingCounts DEF TypeOK
    <3>3. Cardinality(posting) \in Nat
      BY PostingFinite DEF TypeOK
    <3> QED
      BY <2>1, <3>2, <3>3, <1>2, <1>3 DEF TokenHeldOnce, Token, TypeOK
  <2>2. CASE write_queue # <<>>
    <3>1. posting' = posting
      BY <2>2, <1>2 DEF StartsWrite, TypeOK
    <3> QED
      BY <2>2, <3>1, <1>2, <1>3 DEF TokenHeldOnce, Token
  <2> QED
    BY <2>1, <2>2
<1>5. WritesFront'
  BY <1>2 DEF WritesFront, TypeOK
<1> QED
  BY <1>1, <1>4, <1>5

\* boost::asio::post hands the right to write to the WebSocket thread.
LEMMA PostIInv ==
    ASSUME IInv, NEW s \in Senders, Post(s)
    PROVE  IInv'
<1> USE DEF IInv, Post
<1>1. TypeOK'
  BY DEF TypeOK
<1>2. TokenHeldOnce'
  <2>1. Cardinality(posting') = Cardinality(posting) - 1
    BY PostingCounts DEF TypeOK
  <2>2. Cardinality(posting) \in Nat
    BY PostingFinite DEF TypeOK
  <2> QED
    BY <2>1, <2>2 DEF TokenHeldOnce, Token, TypeOK
<1>3. WritesFront'
  BY DEF WritesFront
<1> QED
  BY <1>1, <1>2, <1>3

\* do_write finds a message and no outstanding write.
LEMMA RunPostedIInv ==
    ASSUME IInv, RunPosted
    PROVE  IInv'
<1> USE DEF IInv, RunPosted
<1>1. Cardinality(posting) \in Nat
  BY PostingFinite DEF TypeOK
<1>2. /\ write_queue # <<>> /\ ~failed
      /\ Cardinality(posting) = 0 /\ posted = 1 /\ Len(writing) = 0
  BY <1>1 DEF TokenHeldOnce, Token, TypeOK
<1>3. writing' = <<Head(write_queue)>>
  BY <1>2 DEF do_write, TypeOK
<1>4. TypeOK'
  BY <1>2, <1>3 DEF TypeOK
<1>5. TokenHeldOnce'
  BY <1>2, <1>3 DEF TokenHeldOnce, Token, TypeOK
<1>6. WritesFront'
  BY <1>2, <1>3 DEF WritesFront
<1> QED
  BY <1>4, <1>5, <1>6

\* While a write is outstanding nobody else holds the right to write.
LEMMA OneWriteOutstanding ==
    ASSUME IInv, writing # <<>>
    PROVE  /\ write_queue # <<>> /\ ~failed
           /\ Cardinality(posting) = 0 /\ posted = 0
           /\ Len(writing) = 1
           /\ Head(writing) = Head(write_queue)
<1>1. Cardinality(posting) \in Nat
  BY PostingFinite DEF IInv, TypeOK
<1>2. Len(writing) \in Nat /\ Len(writing) # 0
  BY EmptySeq, LenProperties DEF IInv, TypeOK
<1>3. posted \in Nat /\ Cardinality(posting) + posted + Len(writing) = Token
  BY DEF IInv, TypeOK, TokenHeldOnce
<1>4. write_queue # <<>> /\ ~failed
  BY <1>1, <1>2, <1>3 DEF Token
<1>5. Token = 1
  BY <1>4 DEF Token
<1>6. Cardinality(posting) = 0 /\ posted = 0 /\ Len(writing) = 1
  BY <1>1, <1>2, <1>3, <1>5
<1>7. Head(writing) = Head(write_queue)
  BY DEF IInv, WritesFront
<1> QED
  BY <1>4, <1>6, <1>7

\* on_write keeps the right to write while the queue holds a message.
LEMMA OnWriteIInv ==
    ASSUME IInv, OnWrite
    PROVE  IInv'
<1> USE DEF IInv, OnWrite
<1>1. /\ write_queue # <<>> /\ ~failed
      /\ Cardinality(posting) = 0 /\ posted = 0 /\ Len(writing) = 1
  BY OneWriteOutstanding
<1>2. write_queue' = Tail(write_queue)
  BY <1>1
<1>3. writing' = IF write_queue' = <<>> THEN <<>> ELSE <<Head(write_queue')>>
  <2>1. Tail(writing) = <<>>
    BY <1>1, OnlyOne DEF TypeOK
  <2>2. CASE write_queue' = <<>>
    BY <2>1, <2>2, <1>1
  <2>3. CASE write_queue' # <<>>
    <3>1. writing' = Append(<<>>, Head(write_queue'))
      BY <2>1, <2>3, <1>1
    <3>2. Append(<<>>, Head(write_queue')) = <<Head(write_queue')>>
      BY JustOne
    <3> HIDE DEF OnWrite, IInv
    <3> QED
      BY <3>1, <3>2, <2>3
  <2> QED
    BY <2>2, <2>3
<1>4. /\ write_queue' \in Seq(Messages)
      /\ Len(write_queue') = Len(write_queue) - 1
  BY <1>1, <1>2 DEF TypeOK
<1>5. TypeOK'
  <2>1. wire' \in Seq(Messages)
    BY <1>1 DEF TypeOK
  <2>2. writing' \in Seq(Messages)
    <3>1. CASE write_queue' = <<>>
      BY <3>1, <1>3, EmptySeq
    <3>2. CASE write_queue' # <<>>
      <4>1. Head(write_queue') \in Messages
        BY <3>2, <1>4, HeadTailProperties
      <4>2. <<Head(write_queue')>> \in Seq(Messages)
        BY <4>1, JustOne
      <4> QED
        BY <3>2, <4>2, <1>3
    <3> QED
      BY <3>1, <3>2
  <2> QED
    BY <1>4, <2>1, <2>2, WriterConstants DEF TypeOK
<1>6. TokenHeldOnce'
  BY <1>1, <1>3 DEF TokenHeldOnce, Token
<1>7. WritesFront'
  <2>1. CASE write_queue' = <<>>
    BY <2>1, <1>3 DEF WritesFront
  <2>2. CASE write_queue' # <<>>
    BY <2>2, <1>3 DEF WritesFront
  <2> QED
    BY <2>1, <2>2
<1> QED
  BY <1>5, <1>6, <1>7

\* A failed write gives the right to write up for good.
LEMMA OnWriteFailedIInv ==
    ASSUME IInv, OnWriteFailed
    PROVE  IInv'
<1> USE DEF IInv, OnWriteFailed
<1>1. Cardinality(posting) = 0 /\ posted = 0 /\ Len(writing) = 1
  BY OneWriteOutstanding
<1>2. writing' = <<>>
  BY <1>1, OnlyOne DEF TypeOK
<1>3. TypeOK'
  BY <1>2 DEF TypeOK
<1>4. TokenHeldOnce'
  BY <1>1, <1>2 DEF TokenHeldOnce, Token
<1>5. WritesFront'
  BY <1>2 DEF WritesFront
<1> QED
  BY <1>3, <1>4, <1>5

\* Every step of the session keeps the invariant.
LEMMA NextIInv == IInv /\ [Next]_vars => IInv'
<1> SUFFICES ASSUME IInv, [Next]_vars
             PROVE  IInv'
  OBVIOUS
<1>1. ASSUME NEW s \in Senders, NEW m \in Messages, Enqueue(s, m)
      PROVE  IInv'
  BY <1>1, EnqueueIInv
<1>2. ASSUME NEW s \in Senders, Post(s)
      PROVE  IInv'
  BY <1>2, PostIInv
<1>3. CASE RunPosted
  BY <1>3, RunPostedIInv
<1>4. CASE OnWrite
  BY <1>4, OnWriteIInv
<1>5. CASE OnWriteFailed
  BY <1>5, OnWriteFailedIInv
<1>6. CASE OnClose
  BY <1>6 DEF OnClose, IInv, TypeOK, TokenHeldOnce, Token, WritesFront
<1>7. CASE UNCHANGED vars
  BY <1>7 DEF vars, IInv, TypeOK, TokenHeldOnce, Token, WritesFront
<1> QED
  BY <1>1, <1>2, <1>3, <1>4, <1>5, <1>6, <1>7 DEF Next

\* The invariant holds in every state a session reaches.
THEOREM InvariantHolds == Spec => []IInv
BY InitIInv, NextIInv, PTL DEF Spec

\* The queue never holds more than its capacity, and all else keeps its type.
THEOREM WriterTypeCorrect == Spec => []TypeOK
<1>1. IInv => TypeOK
  BY DEF IInv
<1> QED
  BY <1>1, InvariantHolds, PTL

\* There is at most one writer, whatever threads call send and whenever.
THEOREM OneWriterHolds == Spec => []OneWriter
<1>1. IInv => OneWriter
  <2> SUFFICES ASSUME IInv PROVE OneWriter
    OBVIOUS
  <2>1. Token <= 1
    BY DEF Token
  <2> QED
    BY <2>1 DEF IInv, TokenHeldOnce, OneWriter
<1> QED
  BY <1>1, InvariantHolds, PTL

-----------------------------------------------------------------------------
\* A session that starts is a channel that starts.
LEMMA InitRefines == Init => Channel!Init
BY DEF Init, Channel!Init

\* Every step of the session is a step of the channel, or none.
LEMMA StepRefines == IInv /\ [Next]_vars => [Channel!Next]_(Channel!vars)
<1> SUFFICES ASSUME IInv, [Next]_vars
             PROVE  Channel!Next \/ UNCHANGED Channel!vars
  OBVIOUS
<1>1. ASSUME NEW s \in Senders, NEW m \in Messages, Enqueue(s, m)
      PROVE  Channel!Take(m)
  BY <1>1 DEF Enqueue, HasRoom, Channel!Take
<1>2. ASSUME NEW s \in Senders, Post(s)
      PROVE  UNCHANGED Channel!vars
  BY <1>2 DEF Post, Channel!vars
<1>3. CASE RunPosted
  BY <1>3 DEF RunPosted, Channel!vars
<1>4. CASE OnWrite
  <2>1. write_queue # <<>> /\ ~failed /\ Head(writing) = Head(write_queue)
    BY <1>4, OneWriteOutstanding DEF OnWrite
  <2>2. Channel!Deliver
    BY <1>4, <2>1 DEF OnWrite, Channel!Deliver
  <2> QED
    BY <2>2 DEF Channel!Next
<1>5. CASE OnWriteFailed
  <2>1. write_queue # <<>> /\ ~failed
    BY <1>5, OneWriteOutstanding DEF OnWriteFailed
  <2>2. Channel!Break
    BY <1>5, <2>1 DEF OnWriteFailed, Channel!Break
  <2> QED
    BY <2>2 DEF Channel!Next
<1>6. CASE OnClose
  <2>1. Channel!Close
    BY <1>6 DEF OnClose, Channel!Close
  <2> QED
    BY <2>1 DEF Channel!Next
<1>7. CASE UNCHANGED vars
  BY <1>7 DEF vars, Channel!vars
<1> QED
  BY <1>1, <1>2, <1>3, <1>4, <1>5, <1>6, <1>7 DEF Next, Channel!Next

(***************************************************************************)
(* The safety part of KeepsPromise: a session neither loses, repeats nor   *)
(* reorders a message that its queue took.                                 *)
(***************************************************************************)
THEOREM ImplementsChannel ==
    Spec => Channel!Init /\ [][Channel!Next]_(Channel!vars)
BY InitRefines, StepRefines, InvariantHolds, PTL DEF Spec

-----------------------------------------------------------------------------
(***************************************************************************)
(* The queue of the playout.                                               *)
(***************************************************************************)

\* Nothing is started, pushed or played at first.
LEMMA PlayoutInit == Playout!Init => Playout!PlayoutInv
  <1> SUFFICES ASSUME Playout!Init PROVE Playout!PlayoutInv
    OBVIOUS
  <1>1. samples = <<>> /\ Len(samples) = 0 /\ samples \in Seq(0..run)
    BY DEF Playout!Init
  <1>2. heard \in (0..run) \X (0..run) /\ heard[1] = heard[2]
    BY DEF Playout!Init, Playout!Silence
  <1>3. Playout!TypeOK
    <2>1. accepting \in BOOLEAN /\ level \in BOOLEAN
      BY Zenon DEF Playout!Init
    <2>2. active \in 0..1 /\ run \in Nat /\ accepted \in 0..run
      BY DEF Playout!Init
    <2>3. ctl \in Playout!Steps /\ prod \in {"out", "check", "write", "leave"}
          /\ dev \in {"closed", "open", "reading"}
      BY DEF Playout!Init, Playout!Steps
    <2> QED
      BY <1>1, <1>2, <2>1, <2>2, <2>3 DEF Playout!TypeOK
  <1> QED
    BY <1>1, <1>2, <1>3 DEF Playout!Init, Playout!PlayoutInv, Playout!FreshSound

\* Starting: run counts up only when nothing of the earlier run is left.
LEMMA StartStep ==
  ASSUME Playout!PlayoutInv,
         \/ Playout!Start \/ Playout!StartReset \/ Playout!Accept
         \/ Playout!OpenDevice \/ Playout!Refuse
  PROVE  Playout!PlayoutInv'
  <1> USE DEF Playout!PlayoutInv, Playout!TypeOK, Playout!Steps, Playout!FreshSound
  <1>1. CASE Playout!Start
    <2>1. samples = <<>> /\ prod # "write" /\ ~accepting /\ dev = "closed" /\ ~level
      BY <1>1 DEF Playout!Start
    <2>2. run' = run + 1 /\ 0..run \subseteq 0..run' /\ run' \in Nat
      BY <1>1 DEF Playout!Start
    <2>3. samples' \in Seq(0..run')
      BY <2>1, <1>1 DEF Playout!Start
    <2>4. accepted' \in 0..run' /\ heard' \in (0..run') \X (0..run')
      BY <2>2, <1>1 DEF Playout!Start
    <2> QED
      BY <1>1, <2>1, <2>2, <2>3, <2>4 DEF Playout!Start
  <1>2. CASE Playout!StartReset
    BY <1>2 DEF Playout!StartReset, Playout!Emptied
  <1>3. CASE Playout!Accept
    BY <1>3 DEF Playout!Accept
  <1>4. CASE Playout!OpenDevice
    BY <1>4 DEF Playout!OpenDevice
  <1>5. CASE Playout!Refuse
    BY <1>5 DEF Playout!Refuse
  <1> QED
    BY <1>1, <1>2, <1>3, <1>4, <1>5

\* Stopping: past the waiting loop the producer is outside of the queue, past
\* device_.stop() the callback is.
LEMMA StopStep ==
  ASSUME Playout!PlayoutInv,
         \/ Playout!Stop \/ Playout!StopWait \/ Playout!CloseDevice
         \/ Playout!StopReset \/ Playout!Quiet
  PROVE  Playout!PlayoutInv'
  <1> USE DEF Playout!PlayoutInv, Playout!TypeOK, Playout!Steps, Playout!FreshSound
  <1>1. CASE Playout!Stop
    BY <1>1 DEF Playout!Stop
  <1>2. CASE Playout!StopWait
    BY <1>2 DEF Playout!StopWait, Playout!NoPushes
  <1>3. CASE Playout!CloseDevice
    BY <1>3 DEF Playout!CloseDevice, Playout!DeviceClosed
  <1>4. CASE Playout!StopReset
    BY <1>4 DEF Playout!StopReset, Playout!Emptied
  <1>5. CASE Playout!Quiet
    BY <1>5 DEF Playout!Quiet, Playout!LevelAfterStop
  <1> QED
    BY <1>1, <1>2, <1>3, <1>4, <1>5

\* push(): what it found accepting_ for is of this run, and it is counted all the time.
LEMMA PushStep ==
  ASSUME Playout!PlayoutInv, Playout!Producer
  PROVE  Playout!PlayoutInv'
  <1> USE DEF Playout!PlayoutInv, Playout!TypeOK, Playout!Steps, Playout!FreshSound
  <1>1. CASE Playout!PushBegins
    BY <1>1 DEF Playout!PushBegins
  <1>2. CASE Playout!PushChecks
    BY <1>2 DEF Playout!PushChecks, Playout!Takes
  <1>3. CASE Playout!PushWrites
    <2>1. accepted \in 0..run /\ accepted = run /\ samples \in Seq(0..run)
      BY <1>3 DEF Playout!PushWrites
    <2>2. samples' = Append(samples, accepted) /\ samples' \in Seq(0..run)
      BY <1>3, <2>1 DEF Playout!PushWrites
    <2>3. ASSUME NEW i \in 1..Len(samples') PROVE samples'[i] = run
      BY <2>1, <2>2, <2>3
    <2>4. ctl \in {"open", "on", "refuse", "failed", "wait"}
      BY <1>3 DEF Playout!PushWrites
    <2> QED
      BY <1>3, <2>1, <2>2, <2>3, <2>4 DEF Playout!PushWrites
  <1>4. CASE Playout!PushEnds
    BY <1>4 DEF Playout!PushEnds, Playout!CountedOut
  <1> QED
    BY <1>1, <1>2, <1>3, <1>4 DEF Playout!Producer

\* render(): takes the oldest block, and what is left is of this run.
LEMMA RenderStep ==
  ASSUME Playout!PlayoutInv, Playout!Device
  PROVE  Playout!PlayoutInv'
  <1> USE DEF Playout!PlayoutInv, Playout!TypeOK, Playout!Steps, Playout!FreshSound
  <1>1. CASE Playout!RenderBegins
    BY <1>1 DEF Playout!RenderBegins
  <1>2. CASE Playout!RenderEnds
    <2>1. CASE samples = <<>>
      BY <1>2, <2>1 DEF Playout!RenderEnds
    <2>2. CASE samples # <<>>
      <3>1. samples \in Seq(0..run) /\ Len(samples) \in Nat /\ Len(samples) > 0
        BY <2>2
      <3>2. Tail(samples) \in Seq(0..run) /\ Len(Tail(samples)) = Len(samples) - 1
        BY <3>1
      <3>3. ASSUME NEW i \in 1..Len(Tail(samples)) PROVE Tail(samples)[i] = run
        BY <3>1, <3>2, <3>3
      <3>4. Head(samples) = samples[1] /\ samples[1] = run
        BY <3>1
      <3>5. heard' = <<run, run>> /\ heard' \in (0..run) \X (0..run)
        BY <1>2, <2>2, <3>4 DEF Playout!RenderEnds
      <3>6. samples' = Tail(samples) /\ dev' = "open" /\ level' = TRUE
            /\ UNCHANGED <<ctl, accepting, active, prod, accepted, run>>
        BY <1>2, <2>2 DEF Playout!RenderEnds
      <3>7. ctl \in {"on", "wait", "close"}
        BY <1>2 DEF Playout!RenderEnds
      <3> QED
        BY <3>2, <3>3, <3>5, <3>6, <3>7
    <2> QED
      BY <2>1, <2>2
  <1> QED
    BY <1>1, <1>2 DEF Playout!Device

\* PlayoutInv holds in every behaviour of start(), stop(), push() and render().
THEOREM PlayoutInvariant == Playout!Spec => []Playout!PlayoutInv
  <1>1. Playout!PlayoutInv /\ [Playout!Next]_(Playout!vars) => Playout!PlayoutInv'
    <2> SUFFICES ASSUME Playout!PlayoutInv, [Playout!Next]_(Playout!vars)
                 PROVE  Playout!PlayoutInv'
      OBVIOUS
    <2>1. CASE Playout!Controller
      BY <2>1, StartStep, StopStep DEF Playout!Controller
    <2>2. CASE Playout!Producer
      BY <2>2, PushStep
    <2>3. CASE Playout!Device
      BY <2>3, RenderStep
    <2>4. CASE UNCHANGED Playout!vars
      BY <2>4 DEF Playout!vars, Playout!PlayoutInv, Playout!TypeOK, Playout!Steps,
         Playout!FreshSound
    <2> QED
      BY <2>1, <2>2, <2>3, <2>4 DEF Playout!Next
  <1> QED
    BY <1>1, PlayoutInit, PTL DEF Playout!Spec

\* The state of GoogleWebRtcPcmPlayout is always of its type.
THEOREM PlayoutTypeOK == Playout!Spec => []Playout!TypeOK
  <1>1. Playout!PlayoutInv => Playout!TypeOK
    BY DEF Playout!PlayoutInv
  <1> QED
    BY <1>1, PlayoutInvariant, PTL

\* The controller of GoogleWebRtcPcmPlayout never resets the queue while a push or a
\* callback is inside it.
THEOREM PlayoutResetAlone == Playout!Spec => []Playout!ResetAlone
  <1>1. Playout!PlayoutInv => Playout!ResetAlone
    BY DEF Playout!PlayoutInv, Playout!ResetAlone
  <1> QED
    BY <1>1, PlayoutInvariant, PTL

\* What render() plays was pushed since the last start().
THEOREM PlayoutFreshSound == Playout!Spec => []Playout!FreshSound
  <1>1. Playout!PlayoutInv => Playout!FreshSound
    BY DEF Playout!PlayoutInv
  <1> QED
    BY <1>1, PlayoutInvariant, PTL

\* After stop() the device is closed and the level is zero.
THEOREM PlayoutStoppedIsSilent == Playout!Spec => []Playout!StoppedIsSilent
  <1>1. Playout!PlayoutInv => Playout!StoppedIsSilent
    BY DEF Playout!PlayoutInv, Playout!TypeOK, Playout!StoppedIsSilent
  <1> QED
    BY <1>1, PlayoutInvariant, PTL

-----------------------------------------------------------------------------
(***************************************************************************)
(* AppRequests.  What is in flight is related to what is shown: each       *)
(* request says for which account it was made and its answer was right     *)
(* when the API gave it, only the last attempt to log in has the current   *)
(* generation, and whatever is shown of the account logged in is current   *)
(* unless a reply that will make it so is still to come.                   *)
(***************************************************************************)
\* The requests in flight.
InFlight(q) == {q[i] : i \in DOMAIN q}

\* No two attempts to log in have the same generation.
AttemptsDiffer(q) ==
    \A i, j \in DOMAIN q :
        /\ q[i].kind = "auth" /\ q[j].kind = "auth"
        /\ q[i].generation = q[j].generation
        => i = j

Requests == [kind : AllKinds, user : Users, token : Accounts,
             server : Servers \cup {NoServer}, other : Accounts,
             generation : 0 .. 2 * MaxLogins, handled : BOOLEAN,
             list : SUBSET Servers, n : Nat]

\* AppTypeOK, with requests as a sequence, and the API.
Typed ==
    /\ scene \in Scenes
    /\ loggedIn \in BOOLEAN /\ authPending \in BOOLEAN
    /\ {userId, token, stored, wanted} \subseteq Accounts
    /\ generation \in 0 .. 2 * MaxLogins
    /\ profile \in [id : Accounts, name : 0 .. MaxNames]
    /\ servers \subseteq Servers
    /\ channels \in 0 .. MaxChannels
    /\ users \subseteq Users
    /\ selected \in Servers \cup {NoServer}
    /\ requests \in Seq(Requests) /\ orphans \subseteq Requests
    /\ missed \subseteq {"profile", "servers", "channels"}
    /\ members \in [Servers -> SUBSET Users] /\ owner \in [Servers -> Accounts]
    /\ count \in [Servers -> 0 .. MaxChannels] /\ names \in [Users -> 0 .. MaxNames]

\* The API gives a server its members together with its owner.
OwnedFirst == \A s \in Servers : owner[s] = Nobody => members[s] = {}

\* While somebody is logged in no attempt is under way, and logout has room to count.
OneAccount ==
    /\ loggedIn => /\ ~authPending
                   /\ userId = wanted /\ userId # Nobody
                   /\ token = userId /\ stored = userId
    /\ ~loggedIn => /\ token = Nobody
                    /\ stored # Nobody => authPending /\ stored = wanted
    /\ loggedIn \/ authPending => generation + 1 <= 2 * MaxLogins

\* What a request says, and what its answer can have brought.
Sound(r) ==
    /\ r.kind # "auth" => r.token \in {r.user, Nobody} /\ (r.handled => r.token = r.user)
    /\ r.kind \in {"channels", "createChannel", "acceptInvite", "addMember"} =>
          r.server \in Servers
    /\ r.kind = "addMember" => r.other \in Users /\ r.other # r.user
    /\ \A s \in r.list : r.user \in members[s]
    /\ r.kind \in {"auth", "me"} => r.n <= names[r.user]
    /\ r.kind = "channels" => r.n <= count[r.server]

\* The last attempt is the one the user waits for; a restore is of what is stored.
Attempt(r) ==
    r.kind = "auth" =>
        /\ r.generation <= generation
        /\ r.generation = generation => authPending /\ r.user = wanted /\ r.other = stored

RequestsFit ==
    /\ AttemptsDiffer(requests)
    /\ \A r \in InFlight(requests) : Sound(r) /\ Attempt(r)

\* What is left of processes that have ended is sound too.
OrphansFit == \A r \in orphans : Sound(r)

\* What the account u is a member of.
ServersOf(u) == {s \in Servers : u \in members[s]}

\* Requests whose replies will show what the API holds.
ProfileComes(r) ==
    \/ /\ r.kind = "me" /\ r.user = userId /\ r.token = userId
       /\ r.handled => r.n = names[userId]
    \/ r.kind = "rename" /\ r.handled

ServersCome(r) ==
    /\ r.user = userId
    /\ \/ /\ r.kind = "servers" /\ r.token = userId
          /\ r.handled => r.list = ServersOf(userId)
       \/ r.kind \in {"createServer", "acceptInvite"} /\ r.handled

ChannelsCome(r) ==
    /\ r.user = userId /\ r.server = selected
    /\ \/ /\ r.kind = "channels" /\ r.token = userId
          /\ r.handled => r.n = count[selected]
       \/ r.kind = "createChannel" /\ r.handled

ProfileFollows ==
    \/ "profile" \in missed \/ profile.name = names[userId]
    \/ \E r \in InFlight(requests) : ProfileComes(r)

ServersFollow ==
    \/ "servers" \in missed \/ servers = ServersOf(userId)
    \/ \E r \in InFlight(requests) : ServersCome(r)

ChannelsFollow ==
    \/ "channels" \in missed \/ selected = NoServer \/ channels = count[selected]
    \/ \E r \in InFlight(requests) : ChannelsCome(r)

\* What is shown is current, or will be.
Following == loggedIn => ProfileFollows /\ ServersFollow /\ ChannelsFollow

\* The inductive invariant.
AppInv ==
    /\ Typed /\ OwnedFirst /\ OneAccount /\ RequestsFit /\ OrphansFit
    /\ NothingOfOthers /\ Following
-----------------------------------------------------------------------------
\* The requests without the i-th.
LEMMA WithoutElements ==
  ASSUME NEW S, requests \in Seq(S), NEW i \in DOMAIN requests
  PROVE  /\ Without(i) \in Seq(S)
         /\ Len(Without(i)) = Len(requests) - 1
         /\ \A k \in 1..(Len(requests) - 1) :
               Without(i)[k] = requests[IF k < i THEN k ELSE k + 1]
  <1>1. i \in 1..Len(requests) /\ Len(requests) \in Nat /\ DOMAIN requests = 1..Len(requests)
    OBVIOUS
  <1> DEFINE a == SubSeq(requests, 1, i - 1)
             b == SubSeq(requests, i + 1, Len(requests))
  <1>2. Without(i) = a \o b
    BY DEF Without, RemoveAt
  <1>3. a \in Seq(S) /\ Len(a) = i - 1 /\ \A k \in 1..(i - 1) : a[k] = requests[k]
    BY <1>1, SubSeqProperties
  <1>4. b \in Seq(S) /\ Len(b) = Len(requests) - i
        /\ \A k \in 1..(Len(requests) - i) : b[k] = requests[k + i]
    <2>1. CASE i = Len(requests)
      <3>1. b = << >>
        BY <1>1, <2>1, SubSeqProperties
      <3> QED
        BY <1>1, <2>1, <3>1
    <2>2. CASE i < Len(requests)
      BY <1>1, <2>2, SubSeqProperties
    <2> QED
      BY <1>1, <2>1, <2>2
  <1> HIDE DEF a, b
  <1>5. /\ a \o b \in Seq(S) /\ Len(a \o b) = Len(a) + Len(b)
        /\ \A k \in 1..(Len(a) + Len(b)) :
              (a \o b)[k] = IF k <= Len(a) THEN a[k] ELSE b[k - Len(a)]
    BY <1>3, <1>4, ConcatProperties
  <1>6. ASSUME NEW k \in 1..(Len(requests) - 1)
        PROVE  (a \o b)[k] = requests[IF k < i THEN k ELSE k + 1]
    <2>1. CASE k < i
      <3>1. k \in 1..(i - 1) /\ k <= Len(a) /\ k \in 1..(Len(a) + Len(b))
        BY <1>1, <1>3, <1>4, <2>1
      <3> QED
        BY <1>3, <1>5, <2>1, <3>1
    <2>2. CASE ~(k < i)
      <3>1. /\ k - (i - 1) \in 1..(Len(requests) - i) /\ ~(k <= Len(a))
            /\ k \in 1..(Len(a) + Len(b)) /\ k - Len(a) = k - (i - 1)
            /\ k - (i - 1) + i = k + 1
        BY <1>1, <1>3, <1>4, <2>2
      <3>2. b[k - (i - 1)] = requests[k - (i - 1) + i]
        BY <1>4, <3>1
      <3> QED
        BY <1>5, <2>2, <3>1, <3>2
    <2> QED
      BY <2>1, <2>2
  <1>7. Len(a \o b) = Len(requests) - 1
    BY <1>1, <1>3, <1>4, <1>5
  <1> QED
    BY <1>2, <1>5, <1>6, <1>7

\* What is in flight then, and that attempts still differ.
LEMMA WithoutFits ==
  ASSUME NEW S, requests \in Seq(S), NEW i \in DOMAIN requests
  PROVE  /\ Without(i) \in Seq(S)
         /\ InFlight(Without(i)) \subseteq InFlight(requests)
         /\ \A r \in InFlight(requests) : r \in InFlight(Without(i)) \/ r = requests[i]
         /\ AttemptsDiffer(requests) =>
               /\ AttemptsDiffer(Without(i))
               /\ requests[i].kind = "auth" =>
                     \A r \in InFlight(Without(i)) :
                        r.kind = "auth" => r.generation # requests[i].generation
  <1> DEFINE q == Without(i)
             n == Len(requests)
             at(k) == IF k < i THEN k ELSE k + 1
  <1>1. /\ q \in Seq(S) /\ Len(q) = n - 1 /\ n \in Nat /\ i \in 1..n
        /\ DOMAIN requests = 1..n /\ DOMAIN q = 1..(n - 1)
        /\ \A k \in 1..(n - 1) : q[k] = requests[at(k)]
    <2>1. q \in Seq(S) /\ Len(q) = n - 1
          /\ \A k \in 1..(n - 1) : q[k] = requests[at(k)]
      BY WithoutElements
    <2> HIDE DEF q
    <2> QED
      BY <2>1
  <1> HIDE DEF q
  <1>2. InFlight(q) \subseteq InFlight(requests)
    BY <1>1 DEF InFlight
  <1>3. ASSUME NEW r \in InFlight(requests)
        PROVE  r \in InFlight(q) \/ r = requests[i]
    <2>1. PICK j \in 1..n : r = requests[j]
      BY <1>1 DEF InFlight
    <2>2. CASE j < i
      <3>1. j \in 1..(n - 1) /\ at(j) = j
        BY <1>1, <2>2
      <3> QED
        BY <1>1, <2>1, <3>1 DEF InFlight
    <2>3. CASE j > i
      <3>1. j - 1 \in 1..(n - 1) /\ at(j - 1) = j
        BY <1>1, <2>3
      <3> QED
        BY <1>1, <2>1, <3>1 DEF InFlight
    <2> QED
      BY <1>1, <2>1, <2>2, <2>3
  <1>4. ASSUME AttemptsDiffer(requests) PROVE AttemptsDiffer(q)
    <2> SUFFICES ASSUME NEW k \in DOMAIN q, NEW l \in DOMAIN q,
                        q[k].kind = "auth", q[l].kind = "auth",
                        q[k].generation = q[l].generation
                 PROVE  k = l
      BY DEF AttemptsDiffer
    <2>1. at(k) \in DOMAIN requests /\ at(l) \in DOMAIN requests
          /\ q[k] = requests[at(k)] /\ q[l] = requests[at(l)]
      BY <1>1
    <2>2. at(k) = at(l)
      BY <1>4, <2>1 DEF AttemptsDiffer
    <2> QED
      BY <1>1, <2>2
  <1>5. ASSUME AttemptsDiffer(requests), requests[i].kind = "auth",
               NEW r \in InFlight(q), r.kind = "auth"
        PROVE  r.generation # requests[i].generation
    <2>1. PICK k \in 1..(n - 1) : r = q[k]
      BY <1>1 DEF InFlight
    <2>2. at(k) \in DOMAIN requests /\ at(k) # i /\ r = requests[at(k)]
      BY <1>1, <2>1
    <2> QED
      BY <1>1, <1>5, <2>2 DEF AttemptsDiffer
  <1> QED
    BY <1>1, <1>2, <1>3, <1>4, <1>5 DEF q

\* One request more.
LEMMA AppendFits ==
  ASSUME NEW S, NEW q \in Seq(S), NEW r \in S
  PROVE  /\ Append(q, r) \in Seq(S)
         /\ InFlight(Append(q, r)) = InFlight(q) \cup {r}
         /\ AttemptsDiffer(q) /\ (r.kind = "auth" =>
               \A x \in InFlight(q) : x.kind = "auth" => x.generation # r.generation)
            => AttemptsDiffer(Append(q, r))
  <1> DEFINE p == Append(q, r)
             n == Len(q)
  <1>1. /\ p \in Seq(S) /\ n \in Nat
        /\ DOMAIN q = 1..n /\ DOMAIN p = 1..(n + 1)
        /\ \A k \in 1..n : p[k] = q[k]
        /\ p[n + 1] = r
    BY AppendProperties
  <1> HIDE DEF p
  <1>2. InFlight(p) = InFlight(q) \cup {r}
    <2>1. InFlight(p) \subseteq InFlight(q) \cup {r}
      BY <1>1 DEF InFlight
    <2>2. InFlight(q) \subseteq InFlight(p) /\ r \in InFlight(p)
      <3>1. n + 1 \in 1..(n + 1) /\ 1..n \subseteq 1..(n + 1)
        BY <1>1
      <3> QED
        BY <1>1, <3>1 DEF InFlight
    <2> QED
      BY <2>1, <2>2
  <1>3. ASSUME AttemptsDiffer(q),
               r.kind = "auth" =>
                  \A x \in InFlight(q) : x.kind = "auth" => x.generation # r.generation
        PROVE  AttemptsDiffer(p)
    <2> SUFFICES ASSUME NEW k \in 1..(n + 1), NEW l \in 1..(n + 1),
                        p[k].kind = "auth", p[l].kind = "auth",
                        p[k].generation = p[l].generation
                 PROVE  k = l
      BY <1>1 DEF AttemptsDiffer
    <2>1. \A m \in 1..n : q[m] \in InFlight(q)
      BY <1>1 DEF InFlight
    <2>2. CASE k \in 1..n /\ l \in 1..n
      BY <1>1, <1>3, <2>2 DEF AttemptsDiffer
    <2>3. CASE k = n + 1 /\ l \in 1..n
      BY <1>1, <1>3, <2>1, <2>3
    <2>4. CASE l = n + 1 /\ k \in 1..n
      BY <1>1, <1>3, <2>1, <2>4
    <2> QED
      BY <1>1, <2>2, <2>3, <2>4
  <1> QED
    BY <1>1, <1>2, <1>3 DEF p

\* Nothing, one or two more.
LEMMA ConcatAppends ==
  ASSUME NEW S, NEW q \in Seq(S), NEW a \in S, NEW b \in S
  PROVE  /\ q \o << >> = q
         /\ q \o <<a>> = Append(q, a)
         /\ q \o <<a, b>> = Append(Append(q, a), b)
  OBVIOUS

-----------------------------------------------------------------------------
\* The typing used here implies that of the runs.
LEMMA TypedIsAppTypeOK == Typed => AppTypeOK
  <1> SUFFICES ASSUME Typed PROVE AppTypeOK
    OBVIOUS
  <1>1. \A r \in ToSet(requests) \cup orphans : r \in Requests
    BY DEF Typed, ToSet
  <1> QED
    BY <1>1 DEF Typed, AppTypeOK, Requests

\* No profile is a profile.
LEMMA NoProfileTyped ==
  NoProfile \in [id : Accounts, name : 0 .. MaxNames]
  BY AppRequestsAssumption DEF NoProfile, Accounts

\* The account of a request that is in flight, and so on.
LEMMA RequestTyped ==
  ASSUME NEW r \in Requests
  PROVE  /\ r.kind \in AllKinds /\ r.user \in Users /\ r.token \in Accounts
         /\ r.server \in Servers \cup {NoServer} /\ r.other \in Accounts
         /\ r.generation \in 0 .. 2 * MaxLogins /\ r.handled \in BOOLEAN
         /\ r.list \subseteq Servers /\ r.n \in Nat
  BY DEF Requests

\* A request in flight is a request.
LEMMA InFlightTyped ==
  ASSUME Typed, NEW r \in InFlight(requests)
  PROVE  r \in Requests
  BY DEF Typed, InFlight

\* The i-th request is in flight.
LEMMA AtTyped ==
  ASSUME Typed, NEW i \in DOMAIN requests
  PROVE  requests[i] \in Requests /\ requests[i] \in InFlight(requests)
  BY DEF Typed, InFlight

\* What Request makes.
LEMMA RequestMade ==
  ASSUME NEW k \in AllKinds, NEW u \in Users, NEW t \in Accounts,
         NEW s \in Servers \cup {NoServer}, NEW o \in Accounts,
         NEW g \in 0 .. 2 * MaxLogins
  PROVE  /\ Request(k, u, t, s, o, g) \in Requests
         /\ Request(k, u, t, s, o, g).kind = k
         /\ Request(k, u, t, s, o, g).user = u
         /\ Request(k, u, t, s, o, g).token = t
         /\ Request(k, u, t, s, o, g).server = s
         /\ Request(k, u, t, s, o, g).other = o
         /\ Request(k, u, t, s, o, g).generation = g
         /\ Request(k, u, t, s, o, g).handled = FALSE
         /\ Request(k, u, t, s, o, g).list = {}
         /\ Request(k, u, t, s, o, g).n = 0
  BY DEF Request, Requests

\* A new request is sound.
LEMMA NewSound ==
  ASSUME Typed, NEW r \in Requests, ~r.handled, r.list = {}, r.n = 0,
         r.kind # "auth" => r.token \in {r.user, Nobody},
         r.kind \in {"channels", "createChannel", "acceptInvite", "addMember"} =>
            r.server \in Servers,
         r.kind = "addMember" => r.other \in Users /\ r.other # r.user
  PROVE  Sound(r)
  BY RequestTyped DEF Sound, Typed

\* The API never takes anything back.
ApiGrows ==
    /\ \A s \in Servers : members[s] \subseteq members'[s] /\ count[s] <= count'[s]
    /\ \A u \in Users : names[u] <= names'[u]

\* A sound request stays sound.
LEMMA SoundKept ==
  ASSUME Typed, Typed', ApiGrows, NEW r \in Requests, Sound(r)
  PROVE  Sound(r)'
  <1>1. /\ r.user \in Users /\ r.list \subseteq Servers /\ r.n \in Nat
        /\ r.kind \in {"channels"} => r.server \in Servers
    BY RequestTyped DEF Sound
  <1>2. names[r.user] \in Nat /\ names'[r.user] \in Nat /\ names[r.user] <= names'[r.user]
    BY <1>1 DEF Typed, ApiGrows
  <1>3. ASSUME r.kind = "channels"
        PROVE  count[r.server] \in Nat /\ count'[r.server] \in Nat
               /\ count[r.server] <= count'[r.server]
    BY <1>1, <1>3 DEF Typed, ApiGrows
  <1>4. \A s \in r.list : r.user \in members'[s]
    BY <1>1 DEF Sound, ApiGrows
  <1> QED
    BY <1>1, <1>2, <1>3, <1>4 DEF Sound

\* What the API does not touch has not shrunk.
LEMMA ApiSame ==
  ASSUME Typed, UNCHANGED apiVars
  PROVE  ApiGrows
  BY DEF Typed, ApiGrows, apiVars

\* What is left of processes that have ended stays sound.
LEMMA OrphansKept ==
  ASSUME AppInv, Typed', ApiGrows, orphans' \subseteq orphans
  PROVE  OrphansFit'
  <1> SUFFICES ASSUME NEW r \in orphans PROVE Sound(r)'
    BY DEF OrphansFit
  <1>1. r \in Requests /\ Sound(r)
    BY DEF AppInv, Typed, OrphansFit
  <1> QED
    BY <1>1, SoundKept DEF AppInv

-----------------------------------------------------------------------------
\* A step that takes away no reply that was needed.
LEMMA ProfileKept ==
  ASSUME ProfileFollows, "profile" \in missed => "profile" \in missed',
         userId' = userId, names'[userId] = names[userId], profile' = profile,
         \A r \in InFlight(requests) : ProfileComes(r) => r \in InFlight(requests')
  PROVE  ProfileFollows'
  <1>1. CASE \E r \in InFlight(requests) : ProfileComes(r)
    <2>1. PICK r \in InFlight(requests) : ProfileComes(r)
      BY <1>1
    <2>2. r \in InFlight(requests') /\ ProfileComes(r)'
      BY <2>1 DEF ProfileComes
    <2> QED
      BY <2>2 DEF ProfileFollows, InFlight
  <1>2. CASE "profile" \in missed \/ profile.name = names[userId]
    BY <1>2 DEF ProfileFollows
  <1> QED
    BY <1>1, <1>2 DEF ProfileFollows

\* The same of the list of servers.
LEMMA ServersKept ==
  ASSUME ServersFollow, "servers" \in missed => "servers" \in missed',
         userId' = userId, ServersOf(userId)' = ServersOf(userId), servers' = servers,
         \A r \in InFlight(requests) : ServersCome(r) => r \in InFlight(requests')
  PROVE  ServersFollow'
  <1>1. CASE \E r \in InFlight(requests) : ServersCome(r)
    <2>1. PICK r \in InFlight(requests) : ServersCome(r)
      BY <1>1
    <2>2. r \in InFlight(requests') /\ ServersCome(r)'
      BY <2>1 DEF ServersCome
    <2> QED
      BY <2>2 DEF ServersFollow, InFlight
  <1>2. CASE "servers" \in missed \/ servers = ServersOf(userId)
    BY <1>2 DEF ServersFollow
  <1> QED
    BY <1>1, <1>2 DEF ServersFollow

\* The same of the channels of the server selected.
LEMMA ChannelsKept ==
  ASSUME ChannelsFollow, "channels" \in missed => "channels" \in missed',
         userId' = userId, selected' = selected, channels' = channels,
         selected # NoServer => count'[selected] = count[selected],
         \A r \in InFlight(requests) : ChannelsCome(r) => r \in InFlight(requests')
  PROVE  ChannelsFollow'
  <1>1. CASE selected # NoServer /\ \E r \in InFlight(requests) : ChannelsCome(r)
    <2>1. PICK r \in InFlight(requests) : ChannelsCome(r)
      BY <1>1
    <2>2. r \in InFlight(requests') /\ ChannelsCome(r)'
      BY <1>1, <2>1 DEF ChannelsCome
    <2> QED
      BY <2>2 DEF ChannelsFollow, InFlight
  <1>2. CASE "channels" \in missed \/ selected = NoServer \/ channels = count[selected]
    BY <1>2 DEF ChannelsFollow
  <1> QED
    BY <1>1, <1>2 DEF ChannelsFollow

-----------------------------------------------------------------------------
\* Nobody is logged in at first.
LEMMA AppStart == AppInit => AppInv
  <1> SUFFICES ASSUME AppInit PROVE AppInv
    OBVIOUS
  <1> USE AppRequestsAssumption
  <1>1. InFlight(requests) = {}
    BY DEF AppInit, InFlight
  <1>2. Typed
    <2>1. profile \in [id : Accounts, name : 0 .. MaxNames]
      BY NoProfileTyped DEF AppInit
    <2>2. /\ requests \in Seq(Requests)
          /\ generation \in 0 .. 2 * MaxLogins /\ channels \in 0 .. MaxChannels
          /\ {userId, token, stored, wanted} \subseteq Accounts
      BY DEF AppInit, Accounts
    <2>3. members \in [Servers -> SUBSET Users] /\ owner \in [Servers -> Accounts]
      BY DEF AppInit, Accounts
    <2>4. count \in [Servers -> 0 .. MaxChannels] /\ names \in [Users -> 0 .. MaxNames]
      BY DEF AppInit
    <2> QED
      BY <2>1, <2>2, <2>3, <2>4 DEF AppInit, Typed
  <1>3. OwnedFirst
    BY DEF AppInit, OwnedFirst
  <1>4. OneAccount
    BY DEF AppInit, OneAccount
  <1>5. RequestsFit
    BY <1>1 DEF AppInit, RequestsFit, AttemptsDiffer
  <1>6. NothingOfOthers
    BY DEF AppInit, NothingOfOthers
  <1>7. Following /\ OrphansFit
    BY DEF AppInit, Following, OrphansFit
  <1> QED
    BY <1>2, <1>3, <1>4, <1>5, <1>6, <1>7 DEF AppInv

\* Sound requests stay sound when a step adds only sound ones.
LEMMA FitsKept ==
  ASSUME AppInv, Typed', ApiGrows, AttemptsDiffer(requests'),
         generation' = generation, authPending' = authPending, wanted' = wanted,
         stored' = stored,
         \A r \in InFlight(requests') : r \in InFlight(requests) \/ (Sound(r)' /\ r.kind # "auth")
  PROVE  RequestsFit'
  <1> SUFFICES ASSUME NEW r \in InFlight(requests') PROVE Sound(r)' /\ Attempt(r)'
    BY DEF RequestsFit, InFlight, AttemptsDiffer
  <1>1. CASE r \in InFlight(requests)
    <2>1. Sound(r) /\ Attempt(r) /\ r \in Requests
      BY <1>1, InFlightTyped DEF AppInv, RequestsFit
    <2>2. Sound(r)'
      BY <2>1, SoundKept DEF AppInv
    <2>3. Attempt(r)'
      BY <2>1 DEF Attempt
    <2> QED
      BY <2>2, <2>3
  <1>2. CASE Sound(r)' /\ r.kind # "auth"
    BY <1>2 DEF Attempt
  <1> QED
    BY <1>1, <1>2

\* One more request, about which all is well.
LEMMA AskStep ==
  ASSUME AppInv, UNCHANGED scene, NEW r \in Requests, Sound(r), r.kind # "auth",
         AskOnly(r)
  PROVE  AppInv'
  <1> USE DEF AskOnly, authVars, appVars, apiVars
  <1>1. /\ requests' \in Seq(Requests)
        /\ InFlight(requests') = InFlight(requests) \cup {r}
        /\ AttemptsDiffer(requests')
    BY AppendFits DEF AppInv, Typed, RequestsFit
  <1>2. Typed'
    BY <1>1 DEF AppInv, Typed
  <1>3. OwnedFirst' /\ OneAccount' /\ NothingOfOthers'
    BY DEF AppInv, OwnedFirst, OneAccount, NothingOfOthers, NoProfile
  <1>4. RequestsFit'
    <2>1. ApiGrows
      BY ApiSame DEF AppInv
    <2>2. Sound(r)'
      BY DEF Sound
    <2> QED
      BY <1>1, <1>2, <2>1, <2>2, FitsKept
  <1>5. Following'
    <2> SUFFICES ASSUME loggedIn PROVE ProfileFollows' /\ ServersFollow' /\ ChannelsFollow'
      BY DEF Following
    <2>1. ProfileFollows /\ ServersFollow /\ ChannelsFollow
      BY DEF AppInv, Following
    <2>2. ServersOf(userId)' = ServersOf(userId)
      BY DEF ServersOf
    <2> QED
      BY <1>1, <2>1, <2>2, ProfileKept, ServersKept, ChannelsKept
  <1>6. OrphansFit'
    BY <1>2, ApiSame, OrphansKept DEF AppInv
  <1> QED
    BY <1>2, <1>3, <1>4, <1>5, <1>6 DEF AppInv

\* What the account that is logged in asks for.
LEMMA AskMade ==
  ASSUME AppInv, NEW k \in AllKinds, k # "auth", NEW s \in Servers \cup {NoServer},
         NEW o \in Accounts, userId \in Users, token \in {userId, Nobody},
         k \in {"channels", "createChannel", "acceptInvite", "addMember"} => s \in Servers,
         k = "addMember" => o \in Users /\ o # userId
  PROVE  /\ Ask(k, s, o) \in Requests /\ Sound(Ask(k, s, o))
         /\ Ask(k, s, o).kind = k /\ Ask(k, s, o).user = userId
         /\ Ask(k, s, o).token = token /\ Ask(k, s, o).server = s
         /\ ~Ask(k, s, o).handled
  <1>1. 0 \in 0 .. 2 * MaxLogins /\ token \in Accounts
    BY AppRequestsAssumption DEF AppInv, Typed
  <1> DEFINE r == Request(k, userId, token, s, o, 0)
  <1>2. /\ r \in Requests /\ r.kind = k /\ r.user = userId /\ r.token = token
        /\ r.server = s /\ r.other = o /\ r.handled = FALSE /\ r.list = {} /\ r.n = 0
    BY <1>1 DEF Request, Requests
  <1> HIDE DEF r
  <1>3. Sound(r)
    BY <1>2, NewSound DEF AppInv
  <1> QED
    BY <1>2, <1>3 DEF Ask, r

\* Who is logged in has a token of its own.
LEMMA AccountKnown ==
  ASSUME AppInv, loggedIn
  PROVE  userId \in Users /\ token = userId
  BY DEF AppInv, OneAccount, Typed, Accounts

\* What the user asks for, one request at a time.
LEMMA AsksStep ==
  ASSUME AppInv, UNCHANGED scene,
         \/ CreateServer \/ CreateChannel \/ (\E s \in Servers : AcceptInvite(s))
         \/ LoadUsers \/ (\E u \in Users : InviteUser(u)) \/ UpdateProfile
  PROVE  AppInv'
  <1>1. loggedIn /\ userId \in Users /\ token = userId
    BY AccountKnown DEF CreateServer, CreateChannel, AcceptInvite, LoadUsers, InviteUser,
       UpdateProfile, Asks
  <1>2. Nobody \in Accounts /\ NoServer \in Servers \cup {NoServer}
    BY DEF Accounts
  <1>3. CASE CreateServer
    BY <1>1, <1>2, <1>3, AskMade, AskStep DEF CreateServer, AllKinds, UserKinds
  <1>4. CASE CreateChannel
    <2>1. selected \in Servers
      BY <1>4 DEF CreateChannel, AppInv, Typed
    <2> QED
      BY <1>1, <1>2, <1>4, <2>1, AskMade, AskStep DEF CreateChannel, AllKinds, UserKinds
  <1>5. CASE \E s \in Servers : AcceptInvite(s)
    BY <1>1, <1>2, <1>5, AskMade, AskStep DEF AcceptInvite, AllKinds, UserKinds
  <1>6. CASE LoadUsers
    BY <1>1, <1>2, <1>6, AskMade, AskStep DEF LoadUsers, AllKinds, UserKinds
  <1>7. CASE \E u \in Users : InviteUser(u)
    <2>1. PICK u \in Users : InviteUser(u)
      BY <1>7
    <2>2. u # userId /\ u \in Accounts
      BY <1>1, <2>1 DEF InviteUser, AppInv, NothingOfOthers, Accounts
    <2>3. selected \in Servers
      BY <2>1 DEF InviteUser, CanManageSelectedServer, AppInv, Typed
    <2> QED
      BY <1>1, <2>1, <2>2, <2>3, AskMade, AskStep DEF InviteUser, AllKinds, UserKinds
  <1>8. CASE UpdateProfile
    <2>1. profile.id \in Accounts
      BY DEF AppInv, Typed
    <2> QED
      BY <1>1, <1>2, <1>8, <2>1, AskMade, AskStep DEF UpdateProfile, AllKinds, UserKinds
  <1> QED
    BY <1>3, <1>4, <1>5, <1>6, <1>7, <1>8

-----------------------------------------------------------------------------
\* A new attempt: its generation is the newest, and nothing is stored.
LEMMA LoginStep ==
  ASSUME AppInv, UNCHANGED scene, NEW u \in Users, Login(u)
  PROVE  AppInv'
  <1> USE DEF Login, appVars, apiVars
  <1> DEFINE r == Request("auth", u, token, NoServer, Nobody, generation + 1)
  <1>1. /\ generation \in Nat /\ generation + 1 \in 0 .. 2 * MaxLogins
        /\ token \in Accounts /\ Nobody \in Accounts /\ stored = Nobody
    BY AppRequestsAssumption DEF AppInv, Typed, OneAccount, Accounts
  <1>2. /\ r \in Requests /\ r.kind = "auth" /\ r.user = u
        /\ r.generation = generation + 1 /\ r.other = Nobody /\ ~r.handled
        /\ r.list = {} /\ r.n = 0
    BY <1>1 DEF Request, Requests, AllKinds
  <1>3. requests' = Append(requests, r)
    OBVIOUS
  <1> HIDE DEF r
  <1>4. Sound(r)
    BY <1>2, NewSound DEF AppInv
  <1>5. \A x \in InFlight(requests) : x.kind = "auth" => x.generation <= generation
    BY DEF AppInv, RequestsFit, Attempt
  <1>6. \A x \in InFlight(requests) : x.kind = "auth" => x.generation \in Nat
    BY InFlightTyped, RequestTyped DEF AppInv
  <1>7. /\ requests' \in Seq(Requests)
        /\ InFlight(requests') = InFlight(requests) \cup {r}
        /\ AttemptsDiffer(requests')
    <2>1. \A x \in InFlight(requests) : x.kind = "auth" => x.generation # r.generation
      BY <1>1, <1>2, <1>5, <1>6
    <2> QED
      BY <1>2, <1>3, <2>1, AppendFits DEF AppInv, Typed, RequestsFit
  <1>8. Typed'
    BY <1>1, <1>7 DEF AppInv, Typed, Accounts
  <1>9. OwnedFirst' /\ OneAccount' /\ NothingOfOthers' /\ Following'
    BY <1>1 DEF AppInv, OwnedFirst, OneAccount, NothingOfOthers, NoProfile, Following
  <1>10. RequestsFit'
    <2> SUFFICES ASSUME NEW x \in InFlight(requests') PROVE Sound(x)' /\ Attempt(x)'
      BY <1>7 DEF RequestsFit, InFlight, AttemptsDiffer
    <2>1. CASE x = r
      BY <1>1, <1>2, <1>4, <2>1 DEF Sound, Attempt
    <2>2. CASE x \in InFlight(requests)
      <3>1. Sound(x) /\ Attempt(x)
        BY <2>2 DEF AppInv, RequestsFit
      <3> QED
        BY <1>1, <1>5, <1>6, <2>2, <3>1 DEF Sound, Attempt
    <2> QED
      BY <1>7, <2>1, <2>2
  <1>11. OrphansFit'
    BY <1>8, ApiSame, OrphansKept DEF AppInv
  <1> QED
    BY <1>8, <1>9, <1>10, <1>11 DEF AppInv

\* Whatever is under way is of an older generation.
LEMMA LogoutStep ==
  ASSUME AppInv, UNCHANGED scene, Logout
  PROVE  AppInv'
  <1> USE DEF Logout, apiVars
  <1>1. generation \in Nat /\ generation + 1 \in 0 .. 2 * MaxLogins
    BY AppRequestsAssumption DEF AppInv, Typed, OneAccount
  <1>2. Typed'
    <2>1. Nobody \in Accounts /\ 0 \in 0 .. MaxChannels
      BY AppRequestsAssumption DEF Accounts
    <2> QED
      BY <1>1, <2>1, NoProfileTyped DEF AppInv, Typed
  <1>3. OwnedFirst' /\ OneAccount' /\ NothingOfOthers' /\ Following'
    BY DEF AppInv, OwnedFirst, OneAccount, NothingOfOthers, NoProfile, Following
  <1>4. RequestsFit'
    <2> SUFFICES ASSUME NEW x \in InFlight(requests) PROVE Sound(x)' /\ Attempt(x)'
      BY DEF AppInv, RequestsFit, InFlight, AttemptsDiffer
    <2>1. Sound(x) /\ Attempt(x) /\ x.generation \in Nat
      BY InFlightTyped, RequestTyped DEF AppInv, RequestsFit
    <2> QED
      BY <1>1, <2>1 DEF Sound, Attempt
  <1>5. OrphansFit'
    BY <1>2, ApiSame, OrphansKept DEF AppInv
  <1> QED
    BY <1>2, <1>3, <1>4, <1>5 DEF AppInv

\* Only the restore is waited for after a start.
LEMMA RestartStep ==
  ASSUME AppInv, UNCHANGED scene, Restart
  PROVE  AppInv'
  <1> USE DEF Restart, tables
  <1>0. orphans' \subseteq Requests /\ OrphansFit'
    <2>1. orphans' \subseteq orphans \cup InFlight(requests)
      BY DEF ToSet, InFlight
    <2>2. \A r \in orphans \cup InFlight(requests) : r \in Requests /\ Sound(r)
      BY InFlightTyped DEF AppInv, Typed, OrphansFit, RequestsFit
    <2>3. \A r \in orphans' : Sound(r)'
      BY <2>1, <2>2 DEF Sound
    <2> QED
      BY <2>1, <2>2, <2>3 DEF OrphansFit
  <1>1. /\ 0 \in 0 .. 2 * MaxLogins /\ 1 \in 0 .. 2 * MaxLogins /\ 1 + 1 <= 2 * MaxLogins
        /\ 0 \in 0 .. MaxChannels
        /\ Nobody \in Accounts /\ stored \in Accounts
    BY AppRequestsAssumption DEF AppInv, Typed, Accounts
  <1>2. CASE stored = Nobody
    <2>1. requests' = << >> /\ InFlight(requests') = {} /\ generation' = 0
      BY <1>2 DEF InFlight
    <2>2. Typed'
      <3>1. ~authPending' /\ authPending' \in BOOLEAN
        BY <1>2
      <3>2. requests' \in Seq(Requests)
        BY <2>1
      <3> QED
        BY <1>0, <1>1, <1>2, <2>1, <3>1, <3>2, NoProfileTyped DEF AppInv, Typed
    <2>3. OwnedFirst' /\ OneAccount' /\ NothingOfOthers' /\ Following'
      BY <1>2, <2>1 DEF AppInv, OwnedFirst, OneAccount, NothingOfOthers, NoProfile, Following
    <2>4. RequestsFit'
      BY <2>1 DEF RequestsFit, AttemptsDiffer, InFlight
    <2> QED
      BY <1>0, <2>2, <2>3, <2>4 DEF AppInv
  <1>3. CASE stored # Nobody
    <2>1. PICK r \in Requests :
             /\ r = Request("auth", stored, Nobody, NoServer, stored, 1)
             /\ r.kind = "auth" /\ r.user = stored
             /\ r.generation = 1 /\ r.other = stored /\ ~r.handled
             /\ r.list = {} /\ r.n = 0 /\ stored \in Users
      <3> DEFINE r == Request("auth", stored, Nobody, NoServer, stored, 1)
      <3>1. stored \in Users
        BY <1>1, <1>3 DEF Accounts
      <3>2. /\ r \in Requests /\ r.kind = "auth" /\ r.user = stored
            /\ r.generation = 1 /\ r.other = stored /\ r.handled = FALSE
            /\ r.list = {} /\ r.n = 0
        BY <1>1, <3>1 DEF Request, Requests, AllKinds
      <3> HIDE DEF r
      <3> QED
        BY <3>1, <3>2 DEF r
    <2>2. requests' = <<r>> /\ generation' = 1
      BY <1>3, <2>1
    <2>3. Sound(r)
      BY <2>1, NewSound DEF AppInv
    <2>4. requests' \in Seq(Requests) /\ InFlight(requests') = {r} /\ AttemptsDiffer(requests')
      BY <2>1, <2>2 DEF InFlight, AttemptsDiffer
    <2>5. Typed'
      BY <1>0, <1>1, <1>3, <2>2, <2>4, NoProfileTyped DEF AppInv, Typed
    <2>6. OwnedFirst' /\ OneAccount' /\ NothingOfOthers' /\ Following'
      BY <1>1, <1>3, <2>2 DEF AppInv, OwnedFirst, OneAccount, NothingOfOthers, NoProfile,
         Following
    <2>7. RequestsFit'
      <3>1. Sound(r)'
        BY <2>3 DEF Sound
      <3>2. Attempt(r)'
        <4>1. authPending' /\ wanted' = stored /\ stored' = stored
          BY <1>3
        <4> QED
          BY <2>1, <2>2, <4>1 DEF Attempt
      <3> QED
        BY <2>4, <3>1, <3>2 DEF RequestsFit, InFlight, AttemptsDiffer
    <2> QED
      BY <1>0, <2>5, <2>6, <2>7 DEF AppInv
  <1> QED
    BY <1>2, <1>3

\* Another server is selected, and its channels are asked for.
LEMMA SelectServerStep ==
  ASSUME AppInv, UNCHANGED scene, NEW s \in Servers, SelectServer(s)
  PROVE  AppInv'
  <1> USE DEF SelectServer, authVars, apiVars
  <1>1. loggedIn /\ userId \in Users /\ token = userId
    BY AccountKnown
  <1>2. PICK r \in Requests :
           /\ r = Ask("channels", s, Nobody)
           /\ Sound(r) /\ r.kind = "channels" /\ r.user = userId
           /\ r.token = userId /\ r.server = s /\ ~r.handled
    <2>1. "channels" \in AllKinds /\ Nobody \in Accounts
      BY DEF AllKinds, Accounts
    <2> DEFINE r == Ask("channels", s, Nobody)
    <2>2. /\ r \in Requests /\ Sound(r) /\ r.kind = "channels" /\ r.user = userId
          /\ r.token = userId /\ r.server = s /\ ~r.handled
      BY <1>1, <2>1, AskMade
    <2> HIDE DEF r
    <2> QED
      BY <2>2 DEF r
  <1>3. requests' = Append(requests, r)
    BY <1>2 DEF ReloadChannels
  <1>4. /\ requests' \in Seq(Requests)
        /\ InFlight(requests') = InFlight(requests) \cup {r}
        /\ AttemptsDiffer(requests')
    BY <1>2, <1>3, AppendFits DEF AppInv, Typed, RequestsFit
  <1>5. Typed'
    BY <1>4, AppRequestsAssumption DEF AppInv, Typed
  <1>6. OwnedFirst' /\ OneAccount' /\ NothingOfOthers'
    BY AppRequestsAssumption DEF AppInv, OwnedFirst, OneAccount, NothingOfOthers, NoProfile
  <1>7. RequestsFit'
    <2>1. ApiGrows
      BY ApiSame DEF AppInv
    <2>2. Sound(r)'
      BY <1>2 DEF Sound
    <2> QED
      BY <1>2, <1>4, <1>5, <2>1, <2>2, FitsKept
  <1>8. Following'
    <2>1. ProfileFollows /\ ServersFollow
      BY <1>1 DEF AppInv, Following
    <2>2. ServersOf(userId)' = ServersOf(userId)
      BY DEF ServersOf
    <2>3. ChannelsCome(r)' /\ r \in InFlight(requests')
      BY <1>2, <1>4 DEF ChannelsCome
    <2>4. ChannelsFollow'
      BY <2>3 DEF ChannelsFollow, InFlight
    <2>5. ProfileFollows' /\ ServersFollow'
      BY <1>4, <2>1, <2>2, ProfileKept, ServersKept
    <2> QED
      BY <2>4, <2>5 DEF Following
  <1>9. OrphansFit'
    BY <1>5, ApiSame, OrphansKept DEF AppInv
  <1> QED
    BY <1>5, <1>6, <1>7, <1>8, <1>9 DEF AppInv

-----------------------------------------------------------------------------
\* What is shown stays within what the API holds while the API only grows.
LEMMA GrownOfOthers ==
  ASSUME AppInv, Typed', ApiGrows,
         UNCHANGED <<loggedIn, userId, profile, servers, channels, users, selected>>
  PROVE  NothingOfOthers'
  <1>1. CASE ~loggedIn
    BY <1>1 DEF AppInv, NothingOfOthers, NoProfile
  <1>2. CASE loggedIn
    <2>1. \A s \in servers : userId \in members'[s]
      BY <1>2 DEF AppInv, Typed, NothingOfOthers, ApiGrows
    <2>2. channels > 0 => selected # NoServer /\ channels <= count'[selected]
      <3> SUFFICES ASSUME channels > 0
                   PROVE  selected # NoServer /\ channels <= count'[selected]
        OBVIOUS
      <3>1. selected \in Servers /\ channels <= count[selected]
        BY <1>2 DEF AppInv, Typed, NothingOfOthers
      <3>2. count[selected] <= count'[selected] /\ channels \in Nat
            /\ count[selected] \in Nat /\ count'[selected] \in Nat
        BY <3>1 DEF AppInv, Typed, ApiGrows
      <3> QED
        BY <3>1, <3>2, AppRequestsAssumption
    <2> QED
      BY <1>2, <2>1, <2>2 DEF AppInv, NothingOfOthers
  <1> QED
    BY <1>1, <1>2

-----------------------------------------------------------------------------
\* The answer a request gets.
Answered(r, list, n) == [r EXCEPT !.handled = TRUE, !.list = list, !.n = n]

\* The request a takes the place of r.
TakesPlace(a, r, list, n) ==
    /\ requests' \in Seq(Requests)
    /\ a \in InFlight(requests')
    /\ InFlight(requests') \subseteq InFlight(requests) \cup {a}
    /\ InFlight(requests) \subseteq InFlight(requests') \cup {r}
    /\ AttemptsDiffer(requests')
    /\ a.kind = r.kind /\ a.user = r.user /\ a.token = r.token
    /\ a.server = r.server /\ a.other = r.other
    /\ a.generation = r.generation
    /\ a.handled /\ a.list = list /\ a.n = n

\* What is in flight once the i-th request is answered.
LEMMA HandledFits ==
  ASSUME AppInv, NEW i \in DOMAIN requests, NEW list \in SUBSET Servers, NEW n \in Nat,
         Handled(i, list, n)
  PROVE  \E a \in Requests : TakesPlace(a, requests[i], list, n)
  <1> DEFINE r == requests[i]
             a == Answered(r, list, n)
  <1>1. r \in Requests /\ requests \in Seq(Requests)
    BY AtTyped DEF AppInv, Typed
  <1>2. /\ a \in Requests /\ a.kind = r.kind /\ a.user = r.user /\ a.token = r.token
        /\ a.server = r.server /\ a.other = r.other /\ a.generation = r.generation
        /\ a.handled /\ a.list = list /\ a.n = n
    BY <1>1 DEF Answered, Requests
  <1>3. requests' = [requests EXCEPT ![i] = a]
    BY DEF Handled, Answered
  <1> HIDE DEF a
  <1>4. /\ requests' \in Seq(Requests) /\ DOMAIN requests' = DOMAIN requests
        /\ \A k \in DOMAIN requests : requests'[k] = IF k = i THEN a ELSE requests[k]
    BY <1>1, <1>2, <1>3
  <1>5. /\ a \in InFlight(requests')
        /\ InFlight(requests') \subseteq InFlight(requests) \cup {a}
        /\ InFlight(requests) \subseteq InFlight(requests') \cup {r}
    BY <1>4 DEF InFlight
  <1>6. AttemptsDiffer(requests')
    BY <1>2, <1>4 DEF AppInv, RequestsFit, AttemptsDiffer
  <1> QED
    BY <1>2, <1>4, <1>5, <1>6 DEF TakesPlace

\* A request about which the API did something it may do.
LEMMA HandledKeeps ==
  ASSUME AppInv, UNCHANGED <<scene, authVars, appVars, orphans, wanted>>,
         NEW i \in DOMAIN requests, ~requests[i].handled,
         requests[i].kind = "auth" \/ requests[i].token # Nobody,
         NEW list \in SUBSET Servers, NEW n \in Nat, Handled(i, list, n),
         missed' = missed \cup Elsewhere(requests[i]),
         members' \in [Servers -> SUBSET Users], owner' \in [Servers -> Accounts],
         count' \in [Servers -> 0 .. MaxChannels], names' \in [Users -> 0 .. MaxNames],
         ApiGrows, OwnedFirst',
         requests[i].kind # "servers" => list = {},
         requests[i].kind \in {"auth", "me", "servers", "channels"} => UNCHANGED apiVars,
         requests[i].kind = "servers" => list = ServersOf(requests[i].user),
         requests[i].kind \in {"auth", "me"} => n = names[requests[i].user],
         requests[i].kind = "channels" => n = count[requests[i].server],
         requests[i].kind # "rename" => names' = names,
         count' # count =>
            /\ requests[i].kind = "createChannel"
            /\ \A s \in Servers \ {requests[i].server} : count'[s] = count[s],
         \A u \in Users : ServersOf(u)' # ServersOf(u) =>
            \/ requests[i].kind \in {"createServer", "acceptInvite"} /\ requests[i].user = u
            \/ requests[i].kind = "addMember" /\ requests[i].other = u
  PROVE  AppInv'
  <1> USE DEF authVars, appVars
  <1> DEFINE r == requests[i]
  <1>0. PICK a \in Requests : TakesPlace(a, r, list, n)
    BY HandledFits
  <1> USE DEF TakesPlace
  <1>1. r \in Requests /\ r \in InFlight(requests) /\ Sound(r) /\ Attempt(r)
        /\ r.kind \in AllKinds /\ r.user \in Users
    BY AtTyped, RequestTyped DEF AppInv, RequestsFit
  <1>2. r.kind # "auth" => r.token = r.user
    BY <1>1 DEF Sound
  <1>3. Elsewhere(r) \subseteq {"servers", "channels"}
    BY DEF Elsewhere, Untold
  <1>4. Typed'
    BY <1>0, <1>3 DEF AppInv, Typed
  <1>5. OneAccount'
    BY DEF AppInv, OneAccount
  <1>6. NothingOfOthers'
    BY <1>4, GrownOfOthers
  <1>7. RequestsFit'
    <2> SUFFICES ASSUME NEW x \in InFlight(requests') PROVE Sound(x)' /\ Attempt(x)'
      BY <1>0 DEF RequestsFit, InFlight, AttemptsDiffer
    <2>1. CASE x \in InFlight(requests)
      <3>1. x \in Requests /\ Sound(x) /\ Attempt(x)
        BY <2>1, InFlightTyped DEF AppInv, RequestsFit
      <3> QED
        BY <1>4, <3>1, SoundKept DEF AppInv, Attempt
    <2>2. CASE x = a
      <3>1. \A s \in list : r.user \in members'[s]
        BY <1>1 DEF ServersOf, ApiGrows
      <3>2. a.kind \in {"auth", "me"} => a.n <= names'[a.user]
        BY <1>0, <1>1 DEF apiVars, AppInv, Typed
      <3>3. a.kind = "channels" => a.n <= count'[a.server]
        BY <1>0, <1>1 DEF apiVars, AppInv, Typed, Sound
      <3>4. Sound(a)'
        BY <1>0, <1>1, <1>2, <3>1, <3>2, <3>3 DEF Sound
      <3>5. Attempt(a)'
        BY <1>0, <1>1 DEF Attempt
      <3> QED
        BY <2>2, <3>4, <3>5
    <2> QED
      BY <1>0, <2>1, <2>2
  <1>8. Following'
    <2> SUFFICES ASSUME loggedIn PROVE ProfileFollows' /\ ServersFollow' /\ ChannelsFollow'
      BY DEF Following
    <2>1. ProfileFollows /\ ServersFollow /\ ChannelsFollow /\ userId \in Users
          /\ token = userId
      BY AccountKnown DEF AppInv, Following
    <2>2. ProfileFollows'
      <3>1. CASE ProfileComes(r) \/ r.kind = "rename"
        <4>1. ProfileComes(a)'
          BY <1>0, <1>1, <3>1 DEF ProfileComes, apiVars
        <4> QED
          BY <1>0, <4>1 DEF ProfileFollows, InFlight
      <3>2. CASE ~ProfileComes(r) /\ r.kind # "rename"
        BY <1>0, <2>1, <3>2, ProfileKept
      <3> QED
        BY <3>1, <3>2
    <2>3. ServersFollow'
      <3>1. CASE \/ ServersCome(r)
                 \/ r.kind \in {"createServer", "acceptInvite"} /\ r.user = userId
        <4>1. ServersCome(a)'
          BY <1>0, <1>1, <3>1 DEF ServersCome, apiVars, ServersOf
        <4> QED
          BY <1>0, <4>1 DEF ServersFollow, InFlight
      <3>2. CASE r.kind = "addMember" /\ r.other = userId
        <4>1. "servers" \in missed'
          BY <1>1, <3>2 DEF Sound, Elsewhere, Untold
        <4> QED
          BY <4>1 DEF ServersFollow
      <3>3. CASE /\ ~ServersCome(r)
                 /\ ~(r.kind \in {"createServer", "acceptInvite"} /\ r.user = userId)
                 /\ ~(r.kind = "addMember" /\ r.other = userId)
        <4>1. ServersOf(userId)' = ServersOf(userId)
          BY <2>1, <3>3 DEF ServersOf
        <4> QED
          BY <1>0, <2>1, <3>3, <4>1, ServersKept
      <3> QED
        BY <3>1, <3>2, <3>3
    <2>4. ChannelsFollow'
      <3>1. CASE selected = NoServer
        BY <3>1 DEF ChannelsFollow
      <3>2. CASE selected # NoServer /\ r.kind = "createChannel" /\ r.server = selected
        <4>1. CASE r.user = userId
          <5>1. ChannelsCome(a)'
            BY <1>0, <3>2, <4>1 DEF ChannelsCome
          <5> QED
            BY <1>0, <5>1 DEF ChannelsFollow, InFlight
        <4>2. CASE r.user # userId
          <5>1. "channels" \in missed'
            BY <3>2, <4>2 DEF Elsewhere, Untold
          <5> QED
            BY <5>1 DEF ChannelsFollow
        <4> QED
          BY <4>1, <4>2
      <3>3. CASE selected # NoServer /\ ~(r.kind = "createChannel" /\ r.server = selected)
        <4>1. count'[selected] = count[selected]
          BY <3>3 DEF AppInv, Typed
        <4>2. CASE ChannelsCome(r)
          <5>1. ChannelsCome(a)'
            BY <1>0, <1>1, <3>3, <4>1, <4>2 DEF ChannelsCome, apiVars
          <5> QED
            BY <1>0, <5>1 DEF ChannelsFollow, InFlight
        <4>3. CASE ~ChannelsCome(r)
          BY <1>0, <2>1, <4>1, <4>3, ChannelsKept
        <4> QED
          BY <4>2, <4>3
      <3> QED
        BY <3>1, <3>2, <3>3
    <2> QED
      BY <2>2, <2>3, <2>4
  <1>9. OrphansFit'
    BY <1>4, OrphansKept
  <1> QED
    BY <1>4, <1>5, <1>6, <1>7, <1>8, <1>9 DEF AppInv

-----------------------------------------------------------------------------
\* What the API can change through a request.
LEMMA ApiChangesFits ==
  ASSUME AppInv, NEW r \in Requests, Sound(r), ApiChanges(r)
  PROVE  /\ members' \in [Servers -> SUBSET Users] /\ owner' \in [Servers -> Accounts]
         /\ count' \in [Servers -> 0 .. MaxChannels] /\ names' \in [Users -> 0 .. MaxNames]
         /\ ApiGrows /\ OwnedFirst'
         /\ r.kind \in Changing
         /\ \A u \in Users : names'[u] # names[u] => r.kind = "rename" /\ r.user = u
         /\ r.kind # "rename" => names' = names
         /\ count' # count =>
               /\ r.kind = "createChannel"
               /\ \A s \in Servers \ {r.server} : count'[s] = count[s]
         /\ \A u \in Users : ServersOf(u)' # ServersOf(u) =>
               \/ r.kind \in {"createServer", "acceptInvite"} /\ r.user = u
               \/ r.kind = "addMember" /\ r.other = u
  <1> USE DEF Changing, UserKinds
  <1>1. /\ r.kind \in AllKinds /\ r.user \in Users
        /\ r.server \in Servers \cup {NoServer}
        /\ r.kind # "auth" => r.token = r.user /\ r.token \in Users
    <2>1. r.token # Nobody
      BY DEF ApiChanges
    <2> QED
      BY <2>1, RequestTyped DEF Sound
  <1>2. CASE ApiCreatesServer(r)
    <2>1. /\ r.kind = "createServer"
          /\ count' = count /\ names' = names
      BY <1>2 DEF ApiCreatesServer
    <2>2. PICK s \in Servers :
             /\ owner[s] = Nobody
             /\ owner' = [owner EXCEPT ![s] = r.token]
             /\ members' = [members EXCEPT ![s] = {r.token}]
      BY <1>2 DEF ApiCreatesServer
    <2>3. /\ members' \in [Servers -> SUBSET Users] /\ owner' \in [Servers -> Accounts]
          /\ count' \in [Servers -> 0 .. MaxChannels] /\ names' \in [Users -> 0 .. MaxNames]
      BY <1>1, <2>1, <2>2 DEF AppInv, Typed, Accounts
    <2>4. members[s] = {}
      BY <2>2 DEF AppInv, OwnedFirst
    <2>5. ApiGrows
      BY <2>1, <2>2, <2>4 DEF ApiGrows, AppInv, Typed
    <2>6. OwnedFirst'
      BY <1>1, <2>1, <2>2, AppRequestsAssumption DEF OwnedFirst, AppInv, Typed
    <2>7. \A u \in Users : ServersOf(u)' # ServersOf(u) => r.user = u
      BY <1>1, <2>1, <2>2, <2>4 DEF ServersOf, AppInv, Typed
    <2> QED
      BY <2>1, <2>3, <2>5, <2>6, <2>7
  <1>3. CASE ApiCreatesChannel(r)
    <2>1. /\ r.kind = "createChannel" /\ r.server \in Servers
          /\ count[r.server] < MaxChannels /\ count' = [count EXCEPT ![r.server] = @ + 1]
          /\ members' = members /\ owner' = owner /\ names' = names
      BY <1>3 DEF ApiCreatesChannel, Sound
    <2>2. count' \in [Servers -> 0 .. MaxChannels] /\ \A s \in Servers : count[s] <= count'[s]
      BY <2>1, AppRequestsAssumption DEF AppInv, Typed
    <2>3. /\ members' \in [Servers -> SUBSET Users] /\ owner' \in [Servers -> Accounts]
          /\ names' \in [Users -> 0 .. MaxNames]
          /\ OwnedFirst' /\ \A u : ServersOf(u)' = ServersOf(u)
      BY <2>1 DEF AppInv, Typed, OwnedFirst, ServersOf
    <2>4. ApiGrows
      BY <2>1, <2>2 DEF ApiGrows, AppInv, Typed
    <2>5. \A s \in Servers \ {r.server} : count'[s] = count[s]
      BY <2>1 DEF AppInv, Typed
    <2> QED
      BY <2>1, <2>2, <2>3, <2>4, <2>5
  <1>4. CASE ApiAcceptsInvite(r) \/ ApiAddsMember(r)
    <2>1. PICK u \in Users :
             /\ \/ r.kind = "acceptInvite" /\ u = r.user
                \/ r.kind = "addMember" /\ u = r.other
             /\ r.server \in Servers /\ owner[r.server] # Nobody
             /\ members' = [members EXCEPT ![r.server] = @ \cup {u}]
             /\ owner' = owner /\ count' = count /\ names' = names
      BY <1>1, <1>4, AppRequestsAssumption DEF ApiAcceptsInvite, ApiAddsMember, Sound
    <2>2. /\ members' \in [Servers -> SUBSET Users] /\ owner' \in [Servers -> Accounts]
          /\ count' \in [Servers -> 0 .. MaxChannels] /\ names' \in [Users -> 0 .. MaxNames]
          /\ OwnedFirst'
      BY <2>1 DEF AppInv, Typed, OwnedFirst
    <2>3. ApiGrows
      BY <2>1 DEF ApiGrows, AppInv, Typed
    <2>4. \A v \in Users : ServersOf(v)' # ServersOf(v) => v = u
      BY <2>1 DEF ServersOf, AppInv, Typed
    <2> QED
      BY <2>1, <2>2, <2>3, <2>4
  <1>5. CASE ApiRenames(r)
    <2>1. /\ r.kind = "rename" /\ r.token = r.user /\ r.token \in Users
          /\ names[r.token] < MaxNames /\ names' = [names EXCEPT ![r.token] = @ + 1]
          /\ members' = members /\ owner' = owner /\ count' = count
      BY <1>1, <1>5 DEF ApiRenames
    <2>2. names' \in [Users -> 0 .. MaxNames] /\ \A u \in Users : names[u] <= names'[u]
      BY <2>1, AppRequestsAssumption DEF AppInv, Typed
    <2>3. \A u \in Users : names'[u] # names[u] => r.user = u
      BY <2>1 DEF AppInv, Typed
    <2>4. /\ members' \in [Servers -> SUBSET Users] /\ owner' \in [Servers -> Accounts]
          /\ count' \in [Servers -> 0 .. MaxChannels]
          /\ OwnedFirst' /\ \A u : ServersOf(u)' = ServersOf(u)
      BY <2>1 DEF AppInv, Typed, OwnedFirst, ServersOf
    <2>5. ApiGrows
      BY <2>1, <2>2 DEF ApiGrows, AppInv, Typed
    <2> QED
      BY <2>1, <2>2, <2>3, <2>4, <2>5
  <1> QED
    BY <1>2, <1>3, <1>4, <1>5 DEF ApiChanges

\* What the API does with a request, of whatever kind.
LEMMA ApiHandlesStep ==
  ASSUME AppInv, UNCHANGED scene, NEW i \in DOMAIN requests, ApiHandles(i)
  PROVE  AppInv'
  <1> USE DEF ApiHandles
  <1> DEFINE r == requests[i]
  <1>1. /\ r \in Requests /\ Sound(r) /\ r.kind \in AllKinds /\ r.user \in Users
        /\ r.server \in Servers \cup {NoServer}
        /\ r.kind # "auth" => r.token = r.user /\ r.token \in Users
        /\ 0 \in Nat /\ {} \in SUBSET Servers
    <2>1. r \in Requests /\ Sound(r)
      BY AtTyped DEF AppInv, RequestsFit
    <2>2. r.kind # "auth" => r.token # Nobody
      OBVIOUS
    <2> QED
      BY <2>1, <2>2, RequestTyped DEF Sound
  <1>2. CASE ApiReads(i)
    <2>1. UNCHANGED apiVars /\ ApiGrows
      BY <1>2, ApiSame DEF ApiReads, AppInv, tables, apiVars
    <2>2. /\ members' \in [Servers -> SUBSET Users] /\ owner' \in [Servers -> Accounts]
          /\ count' \in [Servers -> 0 .. MaxChannels] /\ names' \in [Users -> 0 .. MaxNames]
          /\ OwnedFirst' /\ \A u : ServersOf(u)' = ServersOf(u)
      BY <2>1 DEF apiVars, AppInv, Typed, OwnedFirst, ServersOf
    <2>3. names[r.user] \in Nat
      BY <1>1 DEF AppInv, Typed
    <2>4. CASE r.kind = "auth" /\ Handled(i, {}, names[r.user])
      BY <1>1, <2>1, <2>2, <2>3, <2>4, HandledKeeps DEF apiVars
    <2>5. CASE r.kind = "me" /\ Handled(i, {}, names[r.token])
      BY <1>1, <2>1, <2>2, <2>3, <2>5, HandledKeeps DEF apiVars
    <2>6. CASE r.kind = "servers" /\ Handled(i, {s \in Servers : r.token \in members[s]}, 0)
      <3>1. {s \in Servers : r.token \in members[s]} = ServersOf(r.user)
            /\ ServersOf(r.user) \in SUBSET Servers
        BY <1>1, <2>6 DEF ServersOf
      <3> QED
        BY <1>1, <2>1, <2>2, <2>6, <3>1, HandledKeeps DEF apiVars
    <2>7. CASE r.kind = "channels" /\ Handled(i, {}, count[r.server])
      <3>1. count[r.server] \in Nat
        BY <1>1, <2>7 DEF Sound, AppInv, Typed
      <3> QED
        BY <1>1, <2>1, <2>2, <2>7, <3>1, HandledKeeps DEF apiVars
    <2>8. CASE r.kind = "users" /\ Handled(i, {}, 0)
      BY <1>1, <2>1, <2>2, <2>8, HandledKeeps DEF apiVars
    <2> QED
      BY <1>2, <2>4, <2>5, <2>6, <2>7, <2>8 DEF ApiReads
  <1>3. CASE ApiChanges(r) /\ Handled(i, {}, 0)
    <2>1. r.kind \in {"createServer", "createChannel", "acceptInvite", "addMember", "rename"}
      BY <1>1, <1>3, ApiChangesFits DEF Changing, UserKinds
    <2> QED
      BY <1>1, <1>3, <2>1, ApiChangesFits, HandledKeeps
  <1> QED
    BY <1>2, <1>3

\* What a process that has ended asked for is done after all, or is lost.
LEMMA OrphanStep ==
  ASSUME AppInv, UNCHANGED scene, NEW r \in orphans, ApiHandlesOrphan(r) \/ OrphanIsLost(r)
  PROVE  AppInv'
  <1> USE DEF authVars, appVars
  <1>1. r \in Requests /\ Sound(r)
    BY DEF AppInv, Typed, OrphansFit
  <1>2. /\ UNCHANGED <<scene, loggedIn, authPending, userId, token, generation, stored>>
        /\ UNCHANGED <<profile, servers, channels, users, selected, requests, wanted>>
        /\ orphans' \subseteq orphans
    BY DEF ApiHandlesOrphan, OrphanIsLost
  <1>3. CASE OrphanIsLost(r)
    <2>1. UNCHANGED <<members, owner, count, names, missed>>
      BY <1>3 DEF OrphanIsLost, tables
    <2>2. Typed' /\ OwnedFirst' /\ OneAccount'
      BY <1>2, <2>1 DEF AppInv, Typed, OwnedFirst, OneAccount
    <2>3. RequestsFit'
      BY <1>2, <2>1 DEF AppInv, RequestsFit, AttemptsDiffer, InFlight, Sound, Attempt
    <2>4. OrphansFit'
      BY <1>2, <2>1 DEF AppInv, OrphansFit, Sound
    <2>5. NothingOfOthers'
      BY <1>2, <2>1 DEF AppInv, NothingOfOthers, NoProfile
    <2>6. Following'
      BY <1>2, <2>1 DEF AppInv, Following, ProfileFollows, ServersFollow, ChannelsFollow,
         ProfileComes, ServersCome, ChannelsCome, ServersOf, InFlight
    <2> QED
      BY <2>2, <2>3, <2>4, <2>5, <2>6 DEF AppInv
  <1>4. CASE ApiHandlesOrphan(r)
    <2>1. ApiChanges(r) /\ missed' = missed \cup Untold(r)
      BY <1>4 DEF ApiHandlesOrphan
    <2>2. Typed'
      <3>1. Untold(r) \subseteq {"profile", "servers", "channels"}
        BY DEF Untold
      <3> QED
        BY <1>1, <1>2, <2>1, <3>1, ApiChangesFits DEF AppInv, Typed
    <2>3. ApiGrows /\ OwnedFirst'
      BY <1>1, <2>1, ApiChangesFits
    <2>4. OneAccount'
      BY <1>2 DEF AppInv, OneAccount
    <2>5. OrphansFit'
      BY <1>2, <2>2, <2>3, OrphansKept
    <2>6. RequestsFit'
      <3>1. AttemptsDiffer(requests')
        BY <1>2 DEF AppInv, RequestsFit, AttemptsDiffer
      <3>2. \A x \in InFlight(requests') : x \in InFlight(requests)
        BY <1>2 DEF InFlight
      <3> QED
        BY <1>2, <2>2, <2>3, <3>1, <3>2, FitsKept
    <2>7. NothingOfOthers'
      BY <1>2, <2>2, <2>3, GrownOfOthers
    <2>8. Following'
      <3> SUFFICES ASSUME loggedIn PROVE ProfileFollows' /\ ServersFollow' /\ ChannelsFollow'
        BY <1>2 DEF Following
      <3>1. ProfileFollows /\ ServersFollow /\ ChannelsFollow /\ userId \in Users
        BY AccountKnown DEF AppInv, Following
      <3>2. \A x \in InFlight(requests) : x \in InFlight(requests')
        BY <1>2 DEF InFlight
      <3>3. ProfileFollows'
        <4>1. CASE names'[userId] = names[userId]
          BY <1>2, <2>1, <3>1, <3>2, <4>1, ProfileKept
        <4>2. CASE names'[userId] # names[userId]
          <5>1. r.kind = "rename" /\ r.user = userId
            BY <1>1, <2>1, <3>1, <4>2, ApiChangesFits
          <5>2. "profile" \in missed'
            BY <2>1, <5>1 DEF Untold
          <5> QED
            BY <5>2 DEF ProfileFollows
        <4> QED
          BY <4>1, <4>2
      <3>4. ServersFollow'
        <4>1. CASE ServersOf(userId)' = ServersOf(userId)
          BY <1>2, <2>1, <3>1, <3>2, <4>1, ServersKept
        <4>2. CASE ServersOf(userId)' # ServersOf(userId)
          <5>1. \/ r.kind \in {"createServer", "acceptInvite"} /\ r.user = userId
                \/ r.kind = "addMember"
            <6>1. ServersOf(userId)' = {s \in Servers : userId \in members'[s]}
              BY <1>2 DEF ServersOf
            <6> QED
              BY <1>1, <1>2, <2>1, <3>1, <4>2, <6>1, ApiChangesFits DEF ServersOf
          <5>2. "servers" \in missed'
            BY <2>1, <5>1 DEF Untold
          <5> QED
            BY <5>2 DEF ServersFollow
        <4> QED
          BY <4>1, <4>2
      <3>5. ChannelsFollow'
        <4>1. CASE selected # NoServer => count'[selected] = count[selected]
          BY <1>2, <2>1, <3>1, <3>2, <4>1, ChannelsKept
        <4>2. CASE selected # NoServer /\ count'[selected] # count[selected]
          <5>1. r.kind = "createChannel"
            BY <1>1, <2>1, <4>2, ApiChangesFits
          <5>2. "channels" \in missed'
            BY <2>1, <5>1 DEF Untold
          <5> QED
            BY <5>2 DEF ChannelsFollow
        <4> QED
          BY <4>1, <4>2
      <3> QED
        BY <3>3, <3>4, <3>5
    <2> QED
      BY <2>2, <2>3, <2>4, <2>5, <2>6, <2>7, <2>8 DEF AppInv
  <1> QED
    BY <1>3, <1>4

-----------------------------------------------------------------------------
\* What the reply to the i-th request leaves in flight.
Dropped(i) ==
    /\ requests' \in Seq(Requests) /\ AttemptsDiffer(requests')
    /\ InFlight(requests') \subseteq InFlight(requests)
    /\ \A r \in InFlight(requests) : r \in InFlight(requests') \/ r = requests[i]

\* A reply that asks for nothing more is gone, and nothing else is.
LEMMA DropFits ==
  ASSUME AppInv, NEW i \in DOMAIN requests, requests' = Without(i)
  PROVE  Dropped(i)
  BY WithoutFits DEF Dropped, AppInv, Typed, RequestsFit

\* ... when it asks for a as well.
DroppedFor(i, a) ==
    /\ requests' \in Seq(Requests) /\ AttemptsDiffer(requests')
    /\ InFlight(requests') \subseteq InFlight(requests) \cup {a}
    /\ a \in InFlight(requests')
    /\ \A r \in InFlight(requests) : r \in InFlight(requests') \/ r = requests[i]

\* Such a reply is gone and what it asks for is in flight.
LEMMA DropForFits ==
  ASSUME AppInv, NEW i \in DOMAIN requests, NEW a \in Requests, a.kind # "auth",
         requests' = Without(i) \o <<a>>
  PROVE  DroppedFor(i, a)
  <1> DEFINE q == Without(i)
  <1>1. /\ q \in Seq(Requests) /\ AttemptsDiffer(q)
        /\ InFlight(q) \subseteq InFlight(requests)
        /\ \A r \in InFlight(requests) : r \in InFlight(q) \/ r = requests[i]
    BY WithoutFits DEF AppInv, Typed, RequestsFit
  <1> HIDE DEF q
  <1>2. q \o <<a>> = Append(q, a)
    BY <1>1
  <1>3. /\ Append(q, a) \in Seq(Requests)
        /\ InFlight(Append(q, a)) = InFlight(q) \cup {a}
        /\ AttemptsDiffer(Append(q, a))
    BY <1>1, AppendFits
  <1> QED
    BY <1>1, <1>2, <1>3 DEF q, DroppedFor

\* A step of AppState in which only requests come and go.
LEMMA ViewStep ==
  ASSUME AppInv, UNCHANGED <<scene, authVars, apiVars, wanted>>, Typed', NothingOfOthers',
         AttemptsDiffer(requests'),
         \A r \in InFlight(requests') : r \in InFlight(requests) \/ (Sound(r) /\ r.kind # "auth"),
         loggedIn => ProfileFollows' /\ ServersFollow' /\ ChannelsFollow'
  PROVE  AppInv'
  <1> USE DEF authVars, apiVars
  <1>1. OwnedFirst' /\ OneAccount'
    BY DEF AppInv, OwnedFirst, OneAccount
  <1>2. RequestsFit'
    <2>1. ApiGrows
      BY ApiSame DEF AppInv
    <2>2. \A r \in InFlight(requests') :
             r \in InFlight(requests) \/ (Sound(r)' /\ r.kind # "auth")
      BY DEF Sound
    <2> QED
      BY <2>1, <2>2, FitsKept
  <1>3. Following' /\ OrphansFit'
    BY ApiSame, OrphansKept DEF AppInv, Following
  <1> QED
    BY <1>1, <1>2, <1>3 DEF AppInv

\* The servers of an account change with the memberships only.
LEMMA SameServersOf ==
  ASSUME UNCHANGED <<userId, members>>
  PROVE  ServersOf(userId)' = ServersOf(userId)
  BY DEF ServersOf

\* What an answer can have brought.
LEMMA AnswerBounded ==
  ASSUME AppInv, NEW r \in InFlight(requests)
  PROVE  /\ r \in Requests /\ Sound(r) /\ Attempt(r) /\ r.user \in Users /\ r.n \in Nat
         /\ r.user \in Accounts
         /\ r.kind \in {"auth", "me"} =>
               /\ r.n \in 0 .. MaxNames /\ r.n <= names[r.user] /\ names[r.user] \in Nat
         /\ r.kind = "channels" =>
               /\ r.n \in 0 .. MaxChannels /\ r.n <= count[r.server]
               /\ count[r.server] \in Nat /\ r.server \in Servers
  <1>1. r \in Requests /\ Sound(r) /\ Attempt(r) /\ r.user \in Users /\ r.n \in Nat
    BY InFlightTyped, RequestTyped DEF AppInv, RequestsFit
  <1>2. ASSUME r.kind \in {"auth", "me"}
        PROVE  r.n \in 0 .. MaxNames /\ r.n <= names[r.user] /\ names[r.user] \in Nat
    <2>1. r.n <= names[r.user]
      BY <1>1, <1>2 DEF Sound
    <2>2. names[r.user] \in 0 .. MaxNames
      BY <1>1 DEF AppInv, Typed
    <2> QED
      BY <1>1, <2>1, <2>2, AppRequestsAssumption
  <1>3. ASSUME r.kind = "channels"
        PROVE  /\ r.n \in 0 .. MaxChannels /\ r.n <= count[r.server]
               /\ count[r.server] \in Nat /\ r.server \in Servers
    <2>1. r.n <= count[r.server] /\ r.server \in Servers
      BY <1>1, <1>3 DEF Sound
    <2>2. count[r.server] \in 0 .. MaxChannels
      BY <2>1 DEF AppInv, Typed
    <2> QED
      BY <1>1, <2>1, <2>2, AppRequestsAssumption
  <1>4. r.user \in Accounts
    BY <1>1 DEF Accounts
  <1> QED
    BY <1>1, <1>2, <1>3, <1>4

\* A profile is shown for its account only, and an older one is noted.
LEMMA MeReplyStep ==
  ASSUME AppInv, UNCHANGED scene, NEW i \in DOMAIN requests, NEW ok \in BOOLEAN,
         MeReply(i, ok)
  PROVE  AppInv'
  <1>1. PICK r \in InFlight(requests) : r = requests[i]
    BY AtTyped DEF AppInv
  <1>2. /\ r.kind = "me" /\ (ok => r.handled)
        /\ profile' = IF ok /\ SameAccount(r) THEN [id |-> r.user, name |-> r.n] ELSE profile
        /\ MissedIf(SameAccount(r) /\ (~ok \/ r.n < profile.name), "profile")
        /\ requests' = Without(i)
        /\ UNCHANGED <<authVars, servers, channels, users, selected, apiVars, wanted>>
    BY <1>1 DEF MeReply, Delivered
  <1>3. Dropped(i)
    BY <1>2, DropFits
  <1>4. /\ r.n <= names[r.user] /\ names[r.user] \in Nat /\ r.n \in 0 .. MaxNames
        /\ r.n \in Nat /\ r.user \in Accounts
    BY <1>2, AnswerBounded
  <1>5. profile' \in [id : Accounts, name : 0 .. MaxNames]
    BY <1>2, <1>4 DEF AppInv, Typed
  <1>6. Typed'
    BY <1>2, <1>3, <1>5 DEF Dropped, AppInv, Typed, MissedIf, authVars, apiVars
  <1>7. NothingOfOthers'
    BY <1>2 DEF AppInv, NothingOfOthers, SameAccount, NoProfile, authVars, apiVars
  <1>8. ASSUME loggedIn PROVE ProfileFollows' /\ ServersFollow' /\ ChannelsFollow'
    <2>1. ProfileFollows /\ ServersFollow /\ ChannelsFollow /\ userId \in Users
      BY <1>8, AccountKnown DEF AppInv, Following
    <2>2. /\ UNCHANGED <<userId, names, members, count, servers, channels, selected>>
          /\ missed \subseteq missed'
      BY <1>2 DEF authVars, apiVars, MissedIf
    <2>3. ServersFollow' /\ ChannelsFollow'
      <3>1. ~ServersCome(r) /\ ~ChannelsCome(r)
        BY <1>2 DEF ServersCome, ChannelsCome
      <3> QED
        BY <1>1, <1>3, <2>1, <2>2, <3>1, SameServersOf, ServersKept, ChannelsKept DEF Dropped
    <2>4. CASE ~SameAccount(r)
      <3>1. ~ProfileComes(r)
        BY <1>2, <1>8, <2>4 DEF ProfileComes, SameAccount
      <3>2. profile' = profile
        BY <1>2, <2>4
      <3> QED
        BY <1>1, <1>3, <2>1, <2>2, <2>3, <3>1, <3>2, ProfileKept DEF Dropped
    <2>5. CASE SameAccount(r) /\ (~ok \/ r.n < profile.name)
      <3>1. "profile" \in missed'
        BY <1>2, <2>5 DEF MissedIf
      <3> QED
        BY <2>3, <3>1 DEF ProfileFollows
    <2>6. CASE SameAccount(r) /\ ok /\ ~(r.n < profile.name)
      <3>1. profile'.name = r.n /\ r.user = userId /\ r.handled
        BY <1>2, <2>6 DEF SameAccount
      <3>2. CASE profile.name = names[userId]
        <4>1. r.n = names[userId]
          BY <1>4, <2>6, <3>1, <3>2
        <4> QED
          BY <2>2, <2>3, <3>1, <4>1 DEF ProfileFollows
      <3>3. CASE "profile" \in missed
        BY <2>2, <2>3, <3>3 DEF ProfileFollows
      <3>4. CASE \E x \in InFlight(requests) : ProfileComes(x)
        <4>1. PICK x \in InFlight(requests) : ProfileComes(x)
          BY <3>4
        <4>2. CASE x = r
          <5>1. r.n = names[userId]
            BY <1>2, <3>1, <4>1, <4>2 DEF ProfileComes
          <5> QED
            BY <2>2, <2>3, <3>1, <5>1 DEF ProfileFollows
        <4>3. CASE x # r
          <5>1. x \in InFlight(requests') /\ ProfileComes(x)'
            BY <1>1, <1>3, <2>2, <4>1, <4>3 DEF Dropped, ProfileComes
          <5> QED
            BY <2>3, <5>1 DEF ProfileFollows, InFlight
        <4> QED
          BY <4>2, <4>3
      <3> QED
        BY <2>1, <3>2, <3>3, <3>4 DEF ProfileFollows
    <2> QED
      BY <2>4, <2>5, <2>6
  <1> QED
    BY <1>2, <1>3, <1>6, <1>7, <1>8, ViewStep DEF Dropped

\* The list of servers is of the account that is shown, and a shorter one is noted.
LEMMA ServersReplyStep ==
  ASSUME AppInv, UNCHANGED scene, NEW i \in DOMAIN requests, NEW ok \in BOOLEAN,
         ServersReply(i, ok)
  PROVE  AppInv'
  <1>1. PICK r \in InFlight(requests) : r = requests[i]
    BY AtTyped DEF AppInv
  <1>2. /\ r.kind = "servers" /\ (ok => r.handled)
        /\ servers' = IF ok /\ SameAccount(r) THEN r.list ELSE servers
        /\ MissedIf(SameAccount(r) /\ (~ok \/ ~(servers \subseteq r.list)), "servers")
        /\ requests' = Without(i)
        /\ UNCHANGED <<authVars, profile, channels, users, selected, apiVars, wanted>>
    BY <1>1 DEF ServersReply, Delivered
  <1>3. Dropped(i)
    BY <1>2, DropFits
  <1>4. r.list \subseteq Servers /\ \A s \in r.list : r.user \in members[s]
    BY AnswerBounded, RequestTyped DEF Sound
  <1>5. servers' \subseteq Servers
    BY <1>2, <1>4 DEF AppInv, Typed
  <1>6. Typed'
    BY <1>2, <1>3, <1>5 DEF Dropped, AppInv, Typed, MissedIf, authVars, apiVars
  <1>7. NothingOfOthers'
    BY <1>2, <1>4 DEF AppInv, NothingOfOthers, SameAccount, authVars, apiVars
  <1>8. ASSUME loggedIn PROVE ProfileFollows' /\ ServersFollow' /\ ChannelsFollow'
    <2>1. ProfileFollows /\ ServersFollow /\ ChannelsFollow /\ userId \in Users
      BY <1>8, AccountKnown DEF AppInv, Following
    <2>2. /\ UNCHANGED <<userId, names, members, count, profile, channels, selected>>
          /\ missed \subseteq missed' /\ ServersOf(userId)' = ServersOf(userId)
      BY <1>2 DEF authVars, apiVars, MissedIf, ServersOf
    <2>3. ProfileFollows' /\ ChannelsFollow'
      <3>1. ~ProfileComes(r) /\ ~ChannelsCome(r)
        BY <1>2 DEF ProfileComes, ChannelsCome
      <3> QED
        BY <1>1, <1>3, <2>1, <2>2, <3>1, ProfileKept, ChannelsKept DEF Dropped
    <2>4. CASE ~SameAccount(r)
      <3>1. ~ServersCome(r)
        BY <1>8, <2>4 DEF ServersCome, SameAccount
      <3>2. servers' = servers
        BY <1>2, <2>4
      <3> QED
        BY <1>1, <1>3, <2>1, <2>2, <2>3, <3>1, <3>2, ServersKept DEF Dropped
    <2>5. CASE SameAccount(r) /\ (~ok \/ ~(servers \subseteq r.list))
      <3>1. "servers" \in missed'
        BY <1>2, <2>5 DEF MissedIf
      <3> QED
        BY <2>3, <3>1 DEF ServersFollow
    <2>6. CASE SameAccount(r) /\ ok /\ servers \subseteq r.list
      <3>1. servers' = r.list /\ r.user = userId /\ r.handled
            /\ r.list \subseteq ServersOf(userId)
        BY <1>2, <1>4, <2>6 DEF SameAccount, ServersOf
      <3>2. CASE servers = ServersOf(userId)
        <4>1. r.list = ServersOf(userId)
          BY <2>6, <3>1, <3>2
        <4> QED
          BY <2>2, <2>3, <3>1, <4>1 DEF ServersFollow
      <3>3. CASE "servers" \in missed
        BY <2>2, <2>3, <3>3 DEF ServersFollow
      <3>4. CASE \E x \in InFlight(requests) : ServersCome(x)
        <4>1. PICK x \in InFlight(requests) : ServersCome(x)
          BY <3>4
        <4>2. CASE x = r
          <5>1. r.list = ServersOf(userId)
            BY <1>2, <3>1, <4>1, <4>2 DEF ServersCome
          <5> QED
            BY <2>2, <2>3, <3>1, <5>1 DEF ServersFollow
        <4>3. CASE x # r
          <5>1. x \in InFlight(requests') /\ ServersCome(x)'
            BY <1>1, <1>3, <2>2, <4>1, <4>3 DEF Dropped, ServersCome
          <5> QED
            BY <2>3, <5>1 DEF ServersFollow, InFlight
        <4> QED
          BY <4>2, <4>3
      <3> QED
        BY <2>1, <3>2, <3>3, <3>4 DEF ServersFollow
    <2> QED
      BY <2>4, <2>5, <2>6
  <1> QED
    BY <1>2, <1>3, <1>6, <1>7, <1>8, ViewStep DEF Dropped

\* The channels are of the account and of the server that are shown.
LEMMA ChannelsReplyStep ==
  ASSUME AppInv, UNCHANGED scene, NEW i \in DOMAIN requests, NEW ok \in BOOLEAN,
         ChannelsReply(i, ok)
  PROVE  AppInv'
  <1>1. PICK r \in InFlight(requests) : r = requests[i]
    BY AtTyped DEF AppInv
  <1>2. /\ r.kind = "channels" /\ (ok => r.handled)
        /\ channels' = IF ok /\ SameAccount(r) /\ SameServer(r) THEN r.n ELSE channels
        /\ MissedIf(SameAccount(r) /\ SameServer(r) /\ (~ok \/ r.n < channels), "channels")
        /\ requests' = Without(i)
        /\ UNCHANGED <<authVars, profile, servers, users, selected, apiVars, wanted>>
    BY <1>1 DEF ChannelsReply, Delivered
  <1>3. Dropped(i)
    BY <1>2, DropFits
  <1>4. /\ r.n \in 0 .. MaxChannels /\ r.n <= count[r.server] /\ r.n \in Nat
        /\ count[r.server] \in Nat /\ r.server \in Servers /\ NoServer \notin Servers
    BY <1>2, AnswerBounded, AppRequestsAssumption
  <1>5. channels' \in 0 .. MaxChannels
    BY <1>2, <1>4 DEF AppInv, Typed
  <1>6. Typed'
    BY <1>2, <1>3, <1>5 DEF Dropped, AppInv, Typed, MissedIf, authVars, apiVars
  <1>7. NothingOfOthers'
    <2>1. CASE ok /\ SameAccount(r) /\ SameServer(r)
      BY <1>2, <1>4, <2>1 DEF AppInv, NothingOfOthers, SameAccount, SameServer, authVars,
         apiVars
    <2>2. CASE ~(ok /\ SameAccount(r) /\ SameServer(r))
      BY <1>2, <2>2 DEF AppInv, NothingOfOthers, NoProfile, authVars, apiVars
    <2> QED
      BY <2>1, <2>2
  <1>8. ASSUME loggedIn PROVE ProfileFollows' /\ ServersFollow' /\ ChannelsFollow'
    <2>1. ProfileFollows /\ ServersFollow /\ ChannelsFollow /\ userId \in Users
      BY <1>8, AccountKnown DEF AppInv, Following
    <2>2. /\ UNCHANGED <<userId, names, members, count, profile, servers, selected>>
          /\ missed \subseteq missed'
      BY <1>2 DEF authVars, apiVars, MissedIf
    <2>3. ProfileFollows' /\ ServersFollow'
      <3>1. ~ProfileComes(r) /\ ~ServersCome(r)
        BY <1>2 DEF ProfileComes, ServersCome
      <3> QED
        BY <1>1, <1>3, <2>1, <2>2, <3>1, SameServersOf, ProfileKept, ServersKept DEF Dropped
    <2>4. CASE ~(SameAccount(r) /\ SameServer(r))
      <3>1. ~ChannelsCome(r)
        BY <1>8, <2>4 DEF ChannelsCome, SameAccount, SameServer
      <3>2. channels' = channels
        BY <1>2, <2>4
      <3> QED
        BY <1>1, <1>3, <2>1, <2>2, <2>3, <3>1, <3>2, ChannelsKept DEF Dropped
    <2>5. CASE SameAccount(r) /\ SameServer(r) /\ (~ok \/ r.n < channels)
      <3>1. "channels" \in missed'
        BY <1>2, <2>5 DEF MissedIf
      <3> QED
        BY <2>3, <3>1 DEF ChannelsFollow
    <2>6. CASE SameAccount(r) /\ SameServer(r) /\ ok /\ ~(r.n < channels)
      <3>1. channels' = r.n /\ r.user = userId /\ r.handled /\ r.server = selected
        BY <1>2, <2>6 DEF SameAccount, SameServer
      <3>2. CASE channels = count[selected]
        <4>1. r.n = count[selected]
          BY <1>4, <2>6, <3>1, <3>2
        <4> QED
          BY <2>2, <2>3, <3>1, <4>1 DEF ChannelsFollow
      <3>3. CASE "channels" \in missed \/ selected = NoServer
        BY <2>2, <2>3, <3>3 DEF ChannelsFollow
      <3>4. CASE \E x \in InFlight(requests) : ChannelsCome(x)
        <4>1. PICK x \in InFlight(requests) : ChannelsCome(x)
          BY <3>4
        <4>2. CASE x = r
          <5>1. r.n = count[selected]
            BY <1>2, <3>1, <4>1, <4>2 DEF ChannelsCome
          <5> QED
            BY <2>2, <2>3, <3>1, <5>1 DEF ChannelsFollow
        <4>3. CASE x # r
          <5>1. x \in InFlight(requests') /\ ChannelsCome(x)'
            BY <1>1, <1>3, <2>2, <4>1, <4>3 DEF Dropped, ChannelsCome
          <5> QED
            BY <2>3, <5>1 DEF ChannelsFollow, InFlight
        <4> QED
          BY <4>2, <4>3
      <3> QED
        BY <2>1, <3>2, <3>3, <3>4 DEF ChannelsFollow
    <2> QED
      BY <2>4, <2>5, <2>6
  <1> QED
    BY <1>2, <1>3, <1>6, <1>7, <1>8, ViewStep DEF Dropped

\* Users to invite: never the account itself, and nothing that is shown follows them.
LEMMA UsersRepliesStep ==
  ASSUME AppInv, UNCHANGED scene, NEW i \in DOMAIN requests, NEW ok \in BOOLEAN,
         UsersReply(i, ok) \/ AddMemberReply(i, ok)
  PROVE  AppInv'
  <1>1. PICK r \in InFlight(requests) : r = requests[i]
    BY AtTyped DEF AppInv
  <1>2. /\ r.kind \in {"users", "addMember"}
        /\ requests' = Without(i) /\ users' \subseteq Users
        /\ loggedIn => userId \notin users'
        /\ ~loggedIn => users' = users
        /\ UNCHANGED <<authVars, profile, servers, channels, selected, apiVars, wanted,
                       missed>>
    BY <1>1 DEF UsersReply, AddMemberReply, Delivered, SameAccount, AppInv, Typed,
       NothingOfOthers
  <1>3. Dropped(i)
    BY <1>2, DropFits
  <1>4. Typed'
    BY <1>2, <1>3 DEF Dropped, AppInv, Typed, authVars, apiVars
  <1>5. NothingOfOthers'
    BY <1>2 DEF AppInv, NothingOfOthers, NoProfile, authVars, apiVars
  <1>6. ASSUME loggedIn PROVE ProfileFollows' /\ ServersFollow' /\ ChannelsFollow'
    <2>1. ProfileFollows /\ ServersFollow /\ ChannelsFollow
      BY <1>6 DEF AppInv, Following
    <2>2. UNCHANGED <<userId, names, members, count, profile, servers, channels, selected,
                      missed>>
      BY <1>2 DEF authVars, apiVars
    <2>3. ~ProfileComes(r) /\ ~ServersCome(r) /\ ~ChannelsCome(r)
      BY <1>2 DEF ProfileComes, ServersCome, ChannelsCome
    <2> QED
      BY <1>1, <1>3, <2>1, <2>2, <2>3, SameServersOf, ProfileKept, ServersKept, ChannelsKept
         DEF Dropped
  <1> QED
    BY <1>2, <1>3, <1>4, <1>5, <1>6, ViewStep DEF Dropped

-----------------------------------------------------------------------------
\* ... and when it asks for two more; an attempt that ended is not under way.
DroppedForBoth(i, a, b) ==
    /\ requests' \in Seq(Requests) /\ AttemptsDiffer(requests')
    /\ InFlight(requests') \subseteq InFlight(requests) \cup {a, b}
    /\ a \in InFlight(requests') /\ b \in InFlight(requests')
    /\ \A r \in InFlight(requests) : r \in InFlight(requests') \/ r = requests[i]
    /\ requests[i].kind = "auth" =>
          \A x \in InFlight(requests') :
             x.kind = "auth" => x.generation # requests[i].generation

\* Such a reply is gone and both are in flight.
LEMMA DropForBothFits ==
  ASSUME AppInv, NEW i \in DOMAIN requests, NEW a \in Requests, NEW b \in Requests,
         a.kind # "auth", b.kind # "auth", requests' = Without(i) \o <<a, b>>
  PROVE  DroppedForBoth(i, a, b)
  <1> DEFINE q == Without(i)
  <1>1. /\ q \in Seq(Requests) /\ AttemptsDiffer(q)
        /\ InFlight(q) \subseteq InFlight(requests)
        /\ \A r \in InFlight(requests) : r \in InFlight(q) \/ r = requests[i]
        /\ requests[i].kind = "auth" =>
              \A x \in InFlight(q) : x.kind = "auth" => x.generation # requests[i].generation
    BY WithoutFits DEF AppInv, Typed, RequestsFit
  <1> HIDE DEF q
  <1>2. q \o <<a, b>> = Append(Append(q, a), b)
    BY <1>1, ConcatAppends
  <1> DEFINE p == Append(q, a)
  <1>3. /\ p \in Seq(Requests) /\ InFlight(p) = InFlight(q) \cup {a} /\ AttemptsDiffer(p)
    BY <1>1, AppendFits
  <1> HIDE DEF p
  <1>4. /\ Append(p, b) \in Seq(Requests)
        /\ InFlight(Append(p, b)) = InFlight(p) \cup {b}
        /\ AttemptsDiffer(Append(p, b))
    BY <1>3, AppendFits
  <1>5. requests' = Append(p, b)
    BY <1>2 DEF p, q
  <1> QED
    BY <1>1, <1>3, <1>4, <1>5 DEF DroppedForBoth

\* A request that the API handled was missed, or nothing was to come of it.
LEMMA CreateReplyStep ==
  ASSUME AppInv, UNCHANGED scene, NEW i \in DOMAIN requests, NEW ok \in BOOLEAN,
         CreateReply(i, ok)
  PROVE  AppInv'
  <1>1. PICK r \in InFlight(requests) : r = requests[i]
    BY AtTyped DEF AppInv
  <1>2. /\ r.kind \in {"createServer", "createChannel"} /\ (ok => r.handled)
        /\ requests' = Without(i) \o
             IF ~ok \/ ~SameAccount(r) THEN <<>>
             ELSE IF r.kind = "createServer" THEN AfterCreateServer
             ELSE AfterCreateChannel(r)
        /\ MissedIf(~ok /\ r.handled,
                    IF r.kind = "createServer" THEN "servers" ELSE "channels")
        /\ UNCHANGED <<authVars, appVars, apiVars, wanted>>
    BY <1>1 DEF CreateReply, Delivered
  <1>3. /\ UNCHANGED <<userId, names, members, count, profile, servers, channels, users,
                       selected, loggedIn>>
        /\ missed \subseteq missed' /\ missed' \subseteq missed \cup {"servers", "channels"}
    BY <1>2 DEF authVars, appVars, apiVars, MissedIf
  <1>4. NothingOfOthers'
    BY <1>3 DEF AppInv, NothingOfOthers, NoProfile
  <1>5. ~ProfileComes(r)
    BY <1>2 DEF ProfileComes
  <1>6. Typed' \/ ~(requests' \in Seq(Requests))
    BY <1>2, <1>3 DEF AppInv, Typed, authVars, appVars, apiVars
  <1>7. CASE requests' = Without(i) \o <<>> /\ (~ok \/ ~SameAccount(r) \/ ~SameServer(r))
             /\ (ok /\ SameAccount(r) => r.kind = "createChannel")
    <2>1. Dropped(i)
      <3>1. Without(i) \in Seq(Requests)
        BY WithoutFits DEF AppInv, Typed
      <3> QED
        BY <1>7, <3>1, ConcatAppends, DropFits, AtTyped DEF AppInv
    <2>2. Typed'
      BY <1>6, <2>1 DEF Dropped
    <2>3. ASSUME loggedIn PROVE ProfileFollows' /\ ServersFollow' /\ ChannelsFollow'
      <3>1. ProfileFollows /\ ServersFollow /\ ChannelsFollow
        BY <2>3 DEF AppInv, Following
      <3>2. ProfileFollows'
        BY <1>1, <1>3, <1>5, <2>1, <3>1, ProfileKept DEF Dropped
      <3>3. CASE ~ok /\ r.handled
        <4>1. (IF r.kind = "createServer" THEN "servers" ELSE "channels") \in missed'
          BY <1>2, <3>3 DEF MissedIf
        <4>2. CASE r.kind = "createServer"
          <5>1. ServersFollow' /\ ~ChannelsCome(r)
            BY <4>1, <4>2 DEF ServersFollow, ChannelsCome
          <5> QED
            BY <1>1, <1>3, <2>1, <3>1, <3>2, <5>1, ChannelsKept DEF Dropped
        <4>3. CASE r.kind = "createChannel"
          <5>1. ChannelsFollow' /\ ~ServersCome(r)
            BY <4>1, <4>3 DEF ChannelsFollow, ServersCome
          <5> QED
            BY <1>1, <1>3, <2>1, <3>1, <3>2, <5>1, SameServersOf, ServersKept DEF Dropped
        <4> QED
          BY <1>2, <4>2, <4>3
      <3>4. CASE ~(~ok /\ r.handled)
        <4>1. ~ServersCome(r) /\ ~ChannelsCome(r)
          BY <1>2, <1>7, <2>3, <3>4 DEF ServersCome, ChannelsCome, SameAccount, SameServer
        <4> QED
          BY <1>1, <1>3, <2>1, <3>1, <3>2, <4>1, SameServersOf, ServersKept, ChannelsKept
             DEF Dropped
      <3> QED
        BY <3>3, <3>4
    <2> QED
      BY <1>2, <1>4, <2>1, <2>2, <2>3, ViewStep DEF Dropped
  <1>8. CASE ok /\ SameAccount(r) /\ (r.kind = "createChannel" => SameServer(r))
    <2>1. loggedIn /\ userId \in Users /\ token = userId
      BY <1>8, AccountKnown DEF SameAccount
    <2>2. r.kind = "createChannel" => r.server = selected /\ r.server \in Servers
      BY <1>8, AnswerBounded DEF Sound, SameServer
    <2>3. PICK a \in Requests :
             /\ Sound(a) /\ a.user = userId /\ a.token = userId /\ ~a.handled
             /\ a.kind = IF r.kind = "createServer" THEN "servers" ELSE "channels"
             /\ a.kind = "channels" => a.server = selected
             /\ requests' = Without(i) \o <<a>>
      <3>1. /\ "servers" \in AllKinds /\ "channels" \in AllKinds /\ Nobody \in Accounts
            /\ NoServer \in Servers \cup {NoServer}
        BY DEF AllKinds, Accounts
      <3>2. CASE r.kind = "createServer"
        <4> DEFINE a == Ask("servers", NoServer, Nobody)
        <4>1. /\ a \in Requests /\ Sound(a) /\ a.user = userId /\ a.token = userId
              /\ ~a.handled /\ a.kind = "servers"
          BY <2>1, <3>1, AskMade
        <4>2. requests' = Without(i) \o <<a>>
          BY <1>2, <1>8, <3>2 DEF AfterCreateServer, ReloadServers
        <4> HIDE DEF a
        <4> QED
          BY <3>2, <4>1, <4>2
      <3>3. CASE r.kind = "createChannel"
        <4> DEFINE a == Ask("channels", r.server, Nobody)
        <4>1. /\ a \in Requests /\ Sound(a) /\ a.user = userId /\ a.token = userId
              /\ ~a.handled /\ a.kind = "channels" /\ a.server = selected
          BY <2>1, <2>2, <3>1, <3>3, AskMade
        <4>2. requests' = Without(i) \o <<a>>
          BY <1>2, <1>8, <3>3 DEF AfterCreateChannel, ReloadChannels
        <4> HIDE DEF a
        <4> QED
          BY <3>3, <4>1, <4>2
      <3> QED
        BY <1>2, <3>2, <3>3
    <2>4. DroppedFor(i, a)
      BY <2>3, DropForFits
    <2>5. Typed'
      BY <1>6, <2>4 DEF DroppedFor
    <2>6. ProfileFollows /\ ServersFollow /\ ChannelsFollow
      BY <2>1 DEF AppInv, Following
    <2>7. ProfileFollows'
      BY <1>1, <1>3, <1>5, <2>4, <2>6, ProfileKept DEF DroppedFor
    <2>8. CASE r.kind = "createServer"
      <3>1. ServersCome(a)' /\ a \in InFlight(requests') /\ ~ChannelsCome(r)
        BY <1>3, <2>3, <2>4, <2>8 DEF ServersCome, ChannelsCome, DroppedFor
      <3>2. ServersFollow'
        BY <3>1 DEF ServersFollow, InFlight
      <3>3. ChannelsFollow'
        BY <1>1, <1>3, <2>4, <2>6, <3>1, ChannelsKept DEF DroppedFor
      <3> QED
        BY <1>2, <1>4, <2>3, <2>4, <2>5, <2>7, <3>2, <3>3, ViewStep DEF DroppedFor
    <2>9. CASE r.kind = "createChannel"
      <3>1. ChannelsCome(a)' /\ a \in InFlight(requests') /\ ~ServersCome(r)
        BY <1>3, <2>3, <2>4, <2>9 DEF ServersCome, ChannelsCome, DroppedFor
      <3>2. ChannelsFollow'
        BY <3>1 DEF ChannelsFollow, InFlight
      <3>3. ServersFollow'
        BY <1>1, <1>3, <2>4, <2>6, <3>1, SameServersOf, ServersKept DEF DroppedFor
      <3> QED
        BY <1>2, <1>4, <2>3, <2>4, <2>5, <2>7, <3>2, <3>3, ViewStep DEF DroppedFor
    <2> QED
      BY <1>2, <2>8, <2>9
  <1> QED
    BY <1>2, <1>7, <1>8 DEF AfterCreateChannel

\* An accepted invite selects its server and asks for both lists.
LEMMA AcceptInviteReplyStep ==
  ASSUME AppInv, UNCHANGED scene, NEW i \in DOMAIN requests, NEW ok \in BOOLEAN,
         AcceptInviteReply(i, ok)
  PROVE  AppInv'
  <1>1. PICK r \in InFlight(requests) : r = requests[i]
    BY AtTyped DEF AppInv
  <1>2. /\ r.kind = "acceptInvite" /\ (ok => r.handled)
        /\ UNCHANGED <<authVars, profile, servers, users, apiVars, wanted>>
    BY <1>1 DEF AcceptInviteReply, Delivered
  <1>3. UNCHANGED <<userId, names, members, count, profile, servers, users, loggedIn>>
    BY <1>2 DEF authVars, apiVars
  <1>4. r.server \in Servers /\ NoServer \notin Servers
    BY <1>2, AnswerBounded, AppRequestsAssumption DEF Sound
  <1>5. ~ProfileComes(r) /\ ~ChannelsCome(r)
    BY <1>2 DEF ProfileComes, ChannelsCome
  <1>6. CASE ~(ok /\ SameAccount(r))
    <2>1. /\ requests' = Without(i) /\ MissedIf(~ok /\ r.handled, "servers")
          /\ UNCHANGED <<selected, channels>>
      BY <1>1, <1>6 DEF AcceptInviteReply
    <2>2. Dropped(i) /\ missed \subseteq missed'
      BY <2>1, DropFits DEF MissedIf
    <2>3. Typed'
      BY <1>2, <2>1, <2>2 DEF AppInv, Typed, authVars, apiVars, Dropped, MissedIf
    <2>4. NothingOfOthers'
      BY <1>3, <2>1 DEF AppInv, NothingOfOthers, NoProfile
    <2>5. ASSUME loggedIn PROVE ProfileFollows' /\ ServersFollow' /\ ChannelsFollow'
      <3>1. ProfileFollows /\ ServersFollow /\ ChannelsFollow
        BY <2>5 DEF AppInv, Following
      <3>2. ProfileFollows' /\ ChannelsFollow'
        BY <1>1, <1>3, <1>5, <2>1, <2>2, <3>1, ProfileKept, ChannelsKept DEF Dropped
      <3>3. CASE ~ok /\ r.handled
        <4>1. ServersFollow'
          BY <2>1, <3>3 DEF MissedIf, ServersFollow
        <4> QED
          BY <3>2, <4>1
      <3>4. CASE ~(~ok /\ r.handled)
        <4>1. ~ServersCome(r)
          BY <1>2, <1>6, <2>5, <3>4 DEF ServersCome, SameAccount
        <4> QED
          BY <1>1, <1>3, <2>2, <3>1, <3>2, <4>1, SameServersOf, ServersKept DEF Dropped
      <3> QED
        BY <3>3, <3>4
    <2> QED
      BY <1>2, <2>2, <2>3, <2>4, <2>5, ViewStep DEF Dropped
  <1>7. CASE ok /\ SameAccount(r)
    <2>1. loggedIn /\ userId \in Users /\ token = userId
      BY <1>7, AccountKnown DEF SameAccount
    <2>2. /\ "servers" \in AllKinds /\ "channels" \in AllKinds /\ Nobody \in Accounts
          /\ NoServer \in Servers \cup {NoServer} /\ 0 \in 0 .. MaxChannels
      BY AppRequestsAssumption DEF AllKinds, Accounts
    <2>3. PICK a \in Requests :
             /\ a = Ask("servers", NoServer, Nobody)
             /\ Sound(a) /\ a.user = userId /\ a.token = userId /\ ~a.handled
             /\ a.kind = "servers"
      <3> DEFINE a == Ask("servers", NoServer, Nobody)
      <3>1. /\ a \in Requests /\ Sound(a) /\ a.user = userId /\ a.token = userId
            /\ ~a.handled /\ a.kind = "servers"
        BY <2>1, <2>2, AskMade
      <3> HIDE DEF a
      <3> QED
        BY <3>1 DEF a
    <2>4. PICK b \in Requests :
             /\ b = Ask("channels", r.server, Nobody)
             /\ Sound(b) /\ b.user = userId /\ b.token = userId /\ ~b.handled
             /\ b.kind = "channels" /\ b.server = r.server
      <3> DEFINE b == Ask("channels", r.server, Nobody)
      <3>1. /\ b \in Requests /\ Sound(b) /\ b.user = userId /\ b.token = userId
            /\ ~b.handled /\ b.kind = "channels" /\ b.server = r.server
        BY <1>4, <2>1, <2>2, AskMade
      <3> HIDE DEF b
      <3> QED
        BY <3>1 DEF b
    <2>5. /\ requests' = Without(i) \o <<a, b>>
          /\ selected' = r.server /\ channels' = 0 /\ missed' = missed \ {"channels"}
      BY <1>1, <1>7, <2>3, <2>4 DEF AcceptInviteReply, ReloadServers, ReloadChannels
    <2>6. DroppedForBoth(i, a, b)
      <3>1. a.kind # "auth" /\ b.kind # "auth"
        BY <2>3, <2>4
      <3>2. requests' = Without(i) \o <<a, b>>
        BY <2>5
      <3> QED
        BY <3>1, <3>2, DropForBothFits
    <2>7. Typed'
      BY <1>2, <1>4, <2>2, <2>5, <2>6 DEF AppInv, Typed, authVars, apiVars, DroppedForBoth
    <2>8. NothingOfOthers'
      BY <1>3, <2>1, <2>5 DEF AppInv, NothingOfOthers
    <2>9. ProfileFollows'
      <3>1. ProfileFollows
        BY <2>1 DEF AppInv, Following
      <3> QED
        BY <1>1, <1>3, <1>5, <2>5, <2>6, <3>1, ProfileKept DEF DroppedForBoth
    <2>10. ServersFollow'
      <3>1. ServersCome(a)' /\ a \in InFlight(requests')
        BY <1>3, <2>3, <2>6 DEF ServersCome, DroppedForBoth
      <3> QED
        BY <3>1 DEF ServersFollow, InFlight
    <2>11. ChannelsFollow'
      <3>1. ChannelsCome(b)' /\ b \in InFlight(requests')
        BY <1>3, <2>4, <2>5, <2>6 DEF ChannelsCome, DroppedForBoth
      <3> QED
        BY <3>1 DEF ChannelsFollow, InFlight
    <2> QED
      BY <1>2, <2>3, <2>4, <2>6, <2>7, <2>8, <2>9, <2>10, <2>11, ViewStep
         DEF DroppedForBoth
  <1> QED
    BY <1>6, <1>7

\* A rename is followed by the profile of the account.
LEMMA RenameReplyStep ==
  ASSUME AppInv, UNCHANGED scene, NEW i \in DOMAIN requests, NEW ok \in BOOLEAN,
         RenameReply(i, ok)
  PROVE  AppInv'
  <1>1. PICK r \in InFlight(requests) : r = requests[i]
    BY AtTyped DEF AppInv
  <1>2. /\ r.kind = "rename" /\ (ok => r.handled)
        /\ requests' = Without(i) \o IF ok THEN FetchProfile ELSE <<>>
        /\ MissedIf(~ok /\ r.handled, "profile")
        /\ UNCHANGED <<authVars, appVars, apiVars, wanted>>
    BY <1>1 DEF RenameReply, Delivered
  <1>3. /\ UNCHANGED <<userId, names, members, count, profile, servers, channels, users,
                       selected, loggedIn>>
        /\ missed \subseteq missed' /\ missed' \subseteq missed \cup {"profile"}
    BY <1>2 DEF authVars, appVars, apiVars, MissedIf
  <1>4. NothingOfOthers'
    BY <1>3 DEF AppInv, NothingOfOthers, NoProfile
  <1>5. ~ServersCome(r) /\ ~ChannelsCome(r)
    BY <1>2 DEF ServersCome, ChannelsCome
  <1>6. Typed' \/ ~(requests' \in Seq(Requests))
    BY <1>2, <1>3 DEF AppInv, Typed, authVars, appVars, apiVars
  <1>7. CASE ~ok \/ userId = Nobody
    <2>1. Dropped(i)
      <3>1. Without(i) \in Seq(Requests)
        BY WithoutFits DEF AppInv, Typed
      <3>2. requests' = Without(i) \o <<>>
        BY <1>2, <1>7 DEF FetchProfile
      <3> QED
        BY <3>1, <3>2, ConcatAppends, DropFits, AtTyped DEF AppInv
    <2>2. Typed'
      BY <1>6, <2>1 DEF Dropped
    <2>3. ASSUME loggedIn PROVE ProfileFollows' /\ ServersFollow' /\ ChannelsFollow'
      <3>1. ProfileFollows /\ ServersFollow /\ ChannelsFollow /\ ~ok
        BY <1>7, <2>3 DEF AppInv, Following, OneAccount
      <3>2. ServersFollow' /\ ChannelsFollow'
        BY <1>1, <1>3, <1>5, <2>1, <3>1, SameServersOf, ServersKept, ChannelsKept
           DEF Dropped
      <3>3. CASE r.handled
        <4>1. ProfileFollows'
          BY <1>2, <3>1, <3>3 DEF MissedIf, ProfileFollows
        <4> QED
          BY <3>2, <4>1
      <3>4. CASE ~r.handled
        <4>1. ~ProfileComes(r)
          BY <1>2, <3>4 DEF ProfileComes
        <4> QED
          BY <1>1, <1>3, <2>1, <3>1, <3>2, <4>1, ProfileKept DEF Dropped
      <3> QED
        BY <3>3, <3>4
    <2> QED
      BY <1>2, <1>4, <2>1, <2>2, <2>3, ViewStep DEF Dropped
  <1>8. CASE ok /\ userId # Nobody
    <2>1. /\ userId \in Users /\ token \in {userId, Nobody}
          /\ loggedIn => token = userId
      BY <1>8 DEF AppInv, Typed, OneAccount, Accounts
    <2>2. PICK a \in Requests :
             /\ Sound(a) /\ a.user = userId /\ a.token = token /\ ~a.handled
             /\ a.kind = "me" /\ requests' = Without(i) \o <<a>>
      <3>1. /\ "me" \in AllKinds /\ Nobody \in Accounts
            /\ NoServer \in Servers \cup {NoServer}
        BY DEF AllKinds, Accounts
      <3> DEFINE a == Ask("me", NoServer, Nobody)
      <3>2. /\ a \in Requests /\ Sound(a) /\ a.user = userId /\ a.token = token
            /\ ~a.handled /\ a.kind = "me"
        BY <2>1, <3>1, AskMade
      <3>3. requests' = Without(i) \o <<a>>
        BY <1>2, <1>8 DEF FetchProfile
      <3> HIDE DEF a
      <3> QED
        BY <3>2, <3>3
    <2>3. DroppedFor(i, a)
      BY <2>2, DropForFits
    <2>4. Typed'
      BY <1>6, <2>3 DEF DroppedFor
    <2>5. ASSUME loggedIn PROVE ProfileFollows' /\ ServersFollow' /\ ChannelsFollow'
      <3>1. ServersFollow /\ ChannelsFollow
        BY <2>5 DEF AppInv, Following
      <3>2. ServersFollow' /\ ChannelsFollow'
        BY <1>1, <1>3, <1>5, <2>3, <3>1, SameServersOf, ServersKept, ChannelsKept
           DEF DroppedFor
      <3>3. ProfileComes(a)' /\ a \in InFlight(requests')
        BY <1>3, <2>1, <2>2, <2>3, <2>5 DEF ProfileComes, DroppedFor
      <3>4. ProfileFollows'
        BY <3>3 DEF ProfileFollows, InFlight
      <3> QED
        BY <3>2, <3>4
    <2> QED
      BY <1>2, <1>4, <2>2, <2>3, <2>4, <2>5, ViewStep DEF DroppedFor
  <1> QED
    BY <1>7, <1>8

-----------------------------------------------------------------------------
\* An attempt ends: only the last one has consequences.
LEMMA AuthReplyStep ==
  ASSUME AppInv, UNCHANGED scene, NEW i \in DOMAIN requests, NEW ok \in BOOLEAN,
         AuthReply(i, ok)
  PROVE  AppInv'
  <1>1. PICK r \in InFlight(requests) : r = requests[i]
    BY AtTyped DEF AppInv
  <1>2. /\ r.kind = "auth" /\ (ok => r.handled)
        /\ UNCHANGED <<generation, apiVars, wanted, missed>>
    BY <1>1 DEF AuthReply, Delivered
  <1>3. /\ r.user \in Users /\ r.user \in Accounts /\ Attempt(r)
        /\ r.n <= names[r.user] /\ r.n \in 0 .. MaxNames /\ names[r.user] \in Nat
    BY <1>2, AnswerBounded
  <1>4. ~ProfileComes(r) /\ ~ServersCome(r) /\ ~ChannelsCome(r)
    BY <1>2 DEF ProfileComes, ServersCome, ChannelsCome
  <1>5. UNCHANGED <<members, owner, count, names, orphans>> /\ OwnedFirst'
    BY <1>2 DEF apiVars, AppInv, OwnedFirst
  <1>6. CASE ~LastAttempt(r)
    <2>1. /\ requests' = Without(i)
          /\ UNCHANGED <<authPending, loggedIn, userId, token, stored, appVars>>
      BY <1>1, <1>6 DEF AuthReply
    <2>2. Dropped(i)
      BY <2>1, DropFits
    <2>3. UNCHANGED <<profile, servers, channels, users, selected, authVars>>
      BY <1>2, <2>1 DEF appVars, authVars
    <2>4. Typed'
      BY <1>2, <1>5, <2>2, <2>3 DEF AppInv, Typed, Dropped, authVars
    <2>5. NothingOfOthers'
      BY <1>5, <2>1, <2>3 DEF AppInv, NothingOfOthers, NoProfile
    <2>6. ASSUME loggedIn PROVE ProfileFollows' /\ ServersFollow' /\ ChannelsFollow'
      <3>1. ProfileFollows /\ ServersFollow /\ ChannelsFollow
        BY <2>6 DEF AppInv, Following
      <3> QED
        BY <1>1, <1>2, <1>4, <1>5, <2>1, <2>2, <2>3, <3>1, SameServersOf, ProfileKept,
           ServersKept, ChannelsKept DEF Dropped
    <2> QED
      BY <1>2, <2>2, <2>3, <2>4, <2>5, <2>6, ViewStep DEF Dropped
  <1>7. CASE LastAttempt(r)
    <2>1. /\ r.generation = generation /\ authPending /\ r.user = wanted /\ r.other = stored
          /\ ~loggedIn /\ token = Nobody /\ generation + 1 <= 2 * MaxLogins
      BY <1>2, <1>3, <1>7 DEF Attempt, LastAttempt, AppInv, OneAccount
    <2>2. /\ authPending' = FALSE
          /\ IF ok THEN ApplyTokenResponse(r, Without(i)) ELSE AttemptFails(r, Without(i))
      BY <1>1, <1>7 DEF AuthReply, PendingAfter
    <2>3. /\ profile = NoProfile /\ servers = {} /\ channels = 0 /\ users = {}
          /\ selected = NoServer
      BY <2>1 DEF AppInv, NothingOfOthers
    \* No other attempt has this generation.
    <2>4. ASSUME AttemptsDiffer(requests'),
                 \A x \in InFlight(requests') :
                    /\ x \in InFlight(requests) \/ (Sound(x) /\ x.kind # "auth")
                    /\ x.kind = "auth" => x.generation # r.generation
          PROVE  RequestsFit'
      <3> SUFFICES ASSUME NEW x \in InFlight(requests') PROVE Sound(x)' /\ Attempt(x)'
        BY <2>4 DEF RequestsFit, InFlight, AttemptsDiffer
      <3>1. Sound(x) /\ (x.kind = "auth" => Attempt(x))
        BY <2>4 DEF AppInv, RequestsFit
      <3>2. Sound(x)'
        BY <1>5, <3>1 DEF Sound
      <3>3. Attempt(x)'
        BY <1>2, <2>1, <2>4, <3>1 DEF Attempt
      <3> QED
        BY <3>2, <3>3
    <2>5. CASE ok
      <3>1. /\ token' = r.user /\ userId' = r.user /\ loggedIn' /\ loggedIn' \in BOOLEAN
            /\ stored' = r.user /\ profile' = [id |-> r.user, name |-> r.n]
            /\ requests' = Without(i) \o InitialRequests(r.user)
            /\ UNCHANGED <<servers, channels, users, selected>>
        BY <2>2, <2>5 DEF ApplyTokenResponse
      <3>2. /\ "me" \in AllKinds /\ "servers" \in AllKinds /\ Nobody \in Accounts
            /\ NoServer \in Servers \cup {NoServer} /\ 0 \in 0 .. 2 * MaxLogins
            /\ Nobody \notin Users
        BY AppRequestsAssumption DEF AllKinds, Accounts
      <3>3. PICK a \in Requests :
               /\ a = Request("me", r.user, r.user, NoServer, Nobody, 0)
               /\ Sound(a) /\ a.user = r.user /\ a.token = r.user /\ ~a.handled
               /\ a.kind = "me"
        <4> DEFINE a == Request("me", r.user, r.user, NoServer, Nobody, 0)
        <4>1. /\ a \in Requests /\ a.kind = "me" /\ a.user = r.user /\ a.token = r.user
              /\ ~a.handled /\ a.list = {} /\ a.n = 0
          BY <1>3, <3>2 DEF Request, Requests
        <4> HIDE DEF a
        <4>2. Sound(a)
          BY <4>1, NewSound DEF AppInv
        <4> QED
          BY <4>1, <4>2 DEF a
      <3>4. PICK b \in Requests :
               /\ b = Request("servers", r.user, r.user, NoServer, Nobody, 0)
               /\ Sound(b) /\ b.user = r.user /\ b.token = r.user /\ ~b.handled
               /\ b.kind = "servers"
        <4> DEFINE b == Request("servers", r.user, r.user, NoServer, Nobody, 0)
        <4>1. /\ b \in Requests /\ b.kind = "servers" /\ b.user = r.user
              /\ b.token = r.user /\ ~b.handled /\ b.list = {} /\ b.n = 0
          BY <1>3, <3>2 DEF Request, Requests
        <4> HIDE DEF b
        <4>2. Sound(b)
          BY <4>1, NewSound DEF AppInv
        <4> QED
          BY <4>1, <4>2 DEF b
      <3>5. DroppedForBoth(i, a, b)
        <4>1. a.kind # "auth" /\ b.kind # "auth"
          BY <3>3, <3>4
        <4>2. requests' = Without(i) \o <<a, b>>
          BY <3>1, <3>3, <3>4 DEF InitialRequests
        <4> QED
          BY <4>1, <4>2, DropForBothFits
      <3>6. profile' \in [id : Accounts, name : 0 .. MaxNames]
        BY <1>3, <3>1
      <3>7. Typed'
        BY <1>2, <1>3, <1>5, <2>2, <3>1, <3>5, <3>6 DEF AppInv, Typed, DroppedForBoth
      <3>8. OneAccount'
        BY <1>2, <1>3, <2>1, <2>2, <3>1, <3>2 DEF OneAccount
      <3>9. NothingOfOthers'
        BY <2>3, <3>1 DEF NothingOfOthers
      <3>10. RequestsFit'
        BY <1>1, <1>2, <2>4, <3>3, <3>4, <3>5 DEF DroppedForBoth
      <3>11. Following'
        <4>1. ProfileComes(a)' /\ a \in InFlight(requests')
          BY <3>1, <3>3, <3>5 DEF ProfileComes, DroppedForBoth
        <4>2. ServersCome(b)' /\ b \in InFlight(requests')
          BY <3>1, <3>4, <3>5 DEF ServersCome, DroppedForBoth
        <4>3. selected' = NoServer
          BY <2>3, <3>1
        <4> QED
          BY <4>1, <4>2, <4>3 DEF Following, ProfileFollows, ServersFollow,
             ChannelsFollow, InFlight
      <3> QED
        BY <1>2, <1>5, <3>7, <3>8, <3>9, <3>10, <3>11, ApiSame, OrphansKept DEF AppInv, apiVars
    <2>6. CASE ~ok
      <3>1. /\ requests' = Without(i) /\ stored' = Nobody /\ userId' \in Accounts
            /\ UNCHANGED <<loggedIn, token, profile, servers, channels, users, selected>>
        BY <2>1, <2>2, <2>6 DEF AttemptFails, appVars, AppInv, Typed, Accounts
      <3>2. Dropped(i)
        BY <3>1, DropFits
      <3>3. \A x \in InFlight(requests') : x.kind = "auth" => x.generation # r.generation
        <4>1. \A x \in InFlight(Without(i)) :
                 x.kind = "auth" => x.generation # r.generation
          BY <1>1, <1>2, WithoutFits DEF AppInv, Typed, RequestsFit
        <4> QED
          BY <3>1, <4>1 DEF InFlight
      <3>4. Typed'
        BY <1>2, <1>5, <2>2, <3>1, <3>2 DEF AppInv, Typed, Dropped, Accounts
      <3>5. OneAccount' /\ NothingOfOthers' /\ Following'
        BY <2>1, <2>2, <2>3, <3>1 DEF OneAccount, NothingOfOthers, Following, NoProfile
      <3>6. RequestsFit'
        BY <2>4, <3>2, <3>3 DEF Dropped
      <3> QED
        BY <1>2, <1>5, <3>4, <3>5, <3>6, ApiSame, OrphansKept DEF AppInv, apiVars
    <2> QED
      BY <2>5, <2>6
  <1> QED
    BY <1>6, <1>7

\* Every step keeps the invariant.
LEMMA AppStep ==
  ASSUME AppInv, [AppNext]_<<scene, stateVars>>
  PROVE  AppInv'
  <1>1. CASE UNCHANGED <<scene, stateVars>>
    <2>1. /\ UNCHANGED <<scene, loggedIn, authPending, userId, token, generation, stored>>
          /\ UNCHANGED <<profile, servers, channels, users, selected, requests>>
          /\ UNCHANGED <<members, owner, count, names, orphans, wanted, missed>>
      BY <1>1 DEF stateVars, authVars, appVars, apiVars
    <2>2. Typed' /\ OwnedFirst' /\ OneAccount'
      BY <2>1 DEF AppInv, Typed, OwnedFirst, OneAccount
    <2>3. RequestsFit' /\ OrphansFit'
      BY <2>1 DEF AppInv, RequestsFit, OrphansFit, AttemptsDiffer, InFlight, Sound, Attempt
    <2>4. NothingOfOthers'
      BY <2>1 DEF AppInv, NothingOfOthers, NoProfile
    <2>5. Following'
      <3> SUFFICES ASSUME loggedIn' PROVE ProfileFollows' /\ ServersFollow' /\ ChannelsFollow'
        BY DEF Following
      <3>1. ProfileFollows /\ ServersFollow /\ ChannelsFollow
        BY <2>1 DEF AppInv, Following
      <3>2. \A r \in InFlight(requests) : r \in InFlight(requests')
        BY <2>1 DEF InFlight
      <3> QED
        BY <2>1, <3>1, <3>2, SameServersOf, ProfileKept, ServersKept, ChannelsKept
    <2> QED
      BY <2>2, <2>3, <2>4, <2>5 DEF AppInv
  <1>2. CASE UNCHANGED scene /\ UserActs
    BY <1>2, LoginStep, LogoutStep, RestartStep, SelectServerStep, AsksStep DEF UserActs
  <1>3. CASE UNCHANGED scene /\ \E i \in DOMAIN requests : ApiHandles(i)
    BY <1>3, ApiHandlesStep
  <1>4. CASE UNCHANGED scene /\ Reply
    <2>1. PICK i \in DOMAIN requests, ok \in BOOLEAN :
             \/ AuthReply(i, ok) \/ MeReply(i, ok) \/ ServersReply(i, ok)
             \/ ChannelsReply(i, ok) \/ CreateReply(i, ok) \/ AcceptInviteReply(i, ok)
             \/ UsersReply(i, ok) \/ AddMemberReply(i, ok) \/ RenameReply(i, ok)
      BY <1>4 DEF Reply
    <2>2. CASE AuthReply(i, ok)
      BY <1>4, <2>2, AuthReplyStep
    <2>3. CASE MeReply(i, ok)
      BY <1>4, <2>3, MeReplyStep
    <2>4. CASE ServersReply(i, ok)
      BY <1>4, <2>4, ServersReplyStep
    <2>5. CASE ChannelsReply(i, ok)
      BY <1>4, <2>5, ChannelsReplyStep
    <2>6. CASE CreateReply(i, ok)
      BY <1>4, <2>6, CreateReplyStep
    <2>7. CASE AcceptInviteReply(i, ok)
      BY <1>4, <2>7, AcceptInviteReplyStep
    <2>8. CASE UsersReply(i, ok) \/ AddMemberReply(i, ok)
      BY <1>4, <2>8, UsersRepliesStep
    <2>9. CASE RenameReply(i, ok)
      BY <1>4, <2>9, RenameReplyStep
    <2> QED
      BY <2>1, <2>2, <2>3, <2>4, <2>5, <2>6, <2>7, <2>8, <2>9
  <1>5. CASE UNCHANGED scene /\ \E r \in orphans : ApiHandlesOrphan(r) \/ OrphanIsLost(r)
    BY <1>5, OrphanStep
  <1> QED
    BY <1>1, <1>2, <1>3, <1>4, <1>5 DEF AppNext

\* The invariant of the requests in flight holds in every state.
THEOREM AppInvariant == AppSpec => []AppInv
  <1>1. AppInv /\ [AppNext]_<<scene, stateVars>> => AppInv'
    BY AppStep
  <1> QED
    BY AppStart, <1>1, PTL DEF AppSpec

\* AuthManager: whoever is logged in is the account asked for last, with its own
\* token and stored session, and a late reply brings no session back.
THEOREM SessionIsAsAsked == AppSpec => []SessionAsAsked
  <1>1. AppInv => SessionAsAsked
    BY TypedIsAppTypeOK DEF AppInv, OneAccount, SessionAsAsked
  <1> QED
    BY <1>1, AppInvariant, PTL

\* AppState: however late a reply arrives, nothing of another account or of
\* another server is shown, and nothing at all after logout.
THEOREM NothingOfOthersIsShown == AppSpec => []NothingOfOthers
  <1>1. AppInv => NothingOfOthers
    BY DEF AppInv
  <1> QED
    BY <1>1, AppInvariant, PTL

\* AppState: once every reply is in, the profile, the servers and the channels
\* shown are those the API holds, but for what a failed or overtaken reply left
\* out, or another account's request or one of a process that has ended changed.
THEOREM ShownIsAlwaysCurrent == AppSpec => []ShownIsCurrent
  <1>1. AppInv => ShownIsCurrent
    <2> SUFFICES ASSUME AppInv, loggedIn, requests = <<>> PROVE ShownIsCurrent
      BY DEF ShownIsCurrent
    <2>1. InFlight(requests) = {}
      BY DEF InFlight
    <2> QED
      BY <2>1 DEF AppInv, Following, ProfileFollows, ServersFollow, ChannelsFollow,
         ServersOf, ShownIsCurrent
  <1> QED
    BY <1>1, AppInvariant, PTL
=============================================================================
