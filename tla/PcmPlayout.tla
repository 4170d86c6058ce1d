------------------------------ MODULE PcmPlayout ------------------------------
(***************************************************************************)
(* GoogleWebRtcPcmPlayout, the playout of the sound of watched screens: a  *)
(* queue for one producer and one consumer (boost's spsc_queue, external). *)
(* Three threads meet in it: the controller, which starts and stops the    *)
(* playout under the client's screen_lifecycle_mutex, the producer, which  *)
(* pushes mixed sound, and the device's callback.                          *)
(*                                                                         *)
(* The queue's reset() may not overlap a push or a pop.  accepting_ and    *)
(* active_pushes_ keep the producer away, device_.stop() the callback.     *)
(*                                                                         *)
(* The client stops the playout before it starts it again, also when the   *)
(* device could not be opened (ScreenClient!ScreenAsRequested); only ~Impl *)
(* stops it a second time.                                                 *)
(***************************************************************************)
EXTENDS Naturals, Sequences

CONSTANTS
    Capacity,   \* of the queue, in blocks of samples
    MaxRuns     \* bound on the starts

VARIABLES
    ctl,        \* what the controller does next
    accepting,  \* accepting_
    active,     \* active_pushes_
    prod,       \* what the producer does next
    accepted,   \* the run in which the producer found accepting_ set
    dev,        \* the device: "closed", "open", or "reading" in its callback
    queue,      \* the run in which each block was accepted
    level,      \* output_level_ is not zero
    run,        \* starts so far
    heard       \* the run of the block that was played last, and when

vars == <<ctl, accepting, active, prod, accepted, dev, queue, level, run, heard>>

Silence == <<0, 0>>

-----------------------------------------------------------------------------
\* queue_.reset().
Emptied == <<>>

\* start(): queue_.reset(), then accepting_, then the device.
Start ==
    /\ ctl = "off" /\ run < MaxRuns
    /\ ctl' = "reset" /\ run' = run + 1
    /\ UNCHANGED <<accepting, active, prod, accepted, dev, queue, level, heard>>

StartReset ==
    /\ ctl = "reset"
    /\ ctl' = "accept" /\ queue' = Emptied
    /\ UNCHANGED <<accepting, active, prod, accepted, dev, level, run, heard>>

Accept ==
    /\ ctl = "accept"
    /\ ctl' = "open" /\ accepting' = TRUE
    /\ UNCHANGED <<active, prod, accepted, dev, queue, level, run, heard>>

\* MaDevice::start, which may fail; accepting_ is then taken back.
OpenDevice ==
    /\ ctl = "open"
    /\ \/ ctl' = "on" /\ dev' = "open"
       \/ ctl' = "refuse" /\ UNCHANGED dev
    /\ UNCHANGED <<accepting, active, prod, accepted, queue, level, run, heard>>

Refuse ==
    /\ ctl = "refuse"
    /\ ctl' = "failed" /\ accepting' = FALSE
    /\ UNCHANGED <<active, prod, accepted, dev, queue, level, run, heard>>

\* stop().
Stop ==
    /\ ctl \in {"on", "failed", "off"}
    /\ ctl' = "wait" /\ accepting' = FALSE
    /\ UNCHANGED <<active, prod, accepted, dev, queue, level, run, heard>>

NoPushes == active = 0

\* The loop over active_pushes_ ends.
StopWait ==
    /\ ctl = "wait" /\ NoPushes
    /\ ctl' = "close"
    /\ UNCHANGED <<accepting, active, prod, accepted, dev, queue, level, run, heard>>

\* ma_device_stop returns when the callback has.
DeviceClosed == dev # "reading" /\ dev' = "closed"

CloseDevice ==
    /\ ctl = "close" /\ DeviceClosed
    /\ ctl' = "clear"
    /\ UNCHANGED <<accepting, active, prod, accepted, queue, level, run, heard>>

StopReset ==
    /\ ctl = "clear"
    /\ ctl' = "quiet" /\ queue' = Emptied
    /\ UNCHANGED <<accepting, active, prod, accepted, dev, level, run, heard>>

LevelAfterStop == FALSE

Quiet ==
    /\ ctl = "quiet"
    /\ ctl' = "off" /\ level' = LevelAfterStop
    /\ UNCHANGED <<accepting, active, prod, accepted, dev, queue, run, heard>>

-----------------------------------------------------------------------------
\* push(): the counter, accepting_ and the room in the queue, the write.
PushBegins ==
    /\ prod = "out"
    /\ prod' = "check" /\ active' = active + 1
    /\ UNCHANGED <<ctl, accepting, accepted, dev, queue, level, run, heard>>

Takes == accepting /\ Len(queue) < Capacity

PushChecks ==
    /\ prod = "check"
    /\ IF Takes THEN prod' = "write" /\ accepted' = run
       ELSE prod' = "leave" /\ UNCHANGED accepted
    /\ UNCHANGED <<ctl, accepting, active, dev, queue, level, run, heard>>

PushWrites ==
    /\ prod = "write"
    /\ prod' = "leave" /\ queue' = Append(queue, accepted)
    /\ UNCHANGED <<ctl, accepting, active, accepted, dev, level, run, heard>>

CountedOut == active - 1

PushEnds ==
    /\ prod = "leave"
    /\ prod' = "out" /\ active' = CountedOut
    /\ UNCHANGED <<ctl, accepting, accepted, dev, queue, level, run, heard>>

\* data_callback and render(): pop, or silence when there is nothing.
RenderBegins ==
    /\ dev = "open"
    /\ dev' = "reading"
    /\ UNCHANGED <<ctl, accepting, active, prod, accepted, queue, level, run, heard>>

RenderEnds ==
    /\ dev = "reading"
    /\ dev' = "open"
    /\ IF queue = <<>> THEN level' = FALSE /\ UNCHANGED <<queue, heard>>
       ELSE level' = TRUE /\ queue' = Tail(queue) /\ heard' = <<Head(queue), run>>
    /\ UNCHANGED <<ctl, accepting, active, prod, accepted, run>>

-----------------------------------------------------------------------------
Init ==
    /\ ctl = "off" /\ accepting = FALSE /\ active = 0
    /\ prod = "out" /\ accepted = 0 /\ dev = "closed"
    /\ queue = <<>> /\ level = FALSE /\ run = 0 /\ heard = Silence

Controller ==
    \/ Start \/ StartReset \/ Accept \/ OpenDevice \/ Refuse
    \/ Stop \/ StopWait \/ CloseDevice \/ StopReset \/ Quiet

Producer == PushBegins \/ PushChecks \/ PushWrites \/ PushEnds

Device == RenderBegins \/ RenderEnds

Next == Controller \/ Producer \/ Device

Spec == Init /\ [][Next]_vars

-----------------------------------------------------------------------------
Steps == {"off", "reset", "accept", "open", "on", "refuse", "failed", "wait", "close",
          "clear", "quiet"}

TypeOK ==
    /\ ctl \in Steps /\ accepting \in BOOLEAN /\ active \in 0..1
    /\ prod \in {"out", "check", "write", "leave"}
    /\ dev \in {"closed", "open", "reading"} /\ level \in BOOLEAN
    /\ run \in Nat /\ accepted \in 0..run /\ queue \in Seq(0..run)
    /\ heard \in (0..run) \X (0..run)

\* Neither a push nor the device is inside the queue when the controller resets it,
\* in start() or in stop(), though it holds no lock.
ResetAlone ==
    ctl \in {"reset", "clear"} => prod # "write" /\ dev # "reading"

\* What is played was accepted since the last start: sound of an earlier session is
\* never heard in the next one.
FreshSound == heard[1] = heard[2]

\* When stop() has returned, nothing is played any more and the level that the
\* statistics show is zero, whatever the other threads were doing.
StoppedIsSilent ==
    ctl = "off" => dev = "closed" /\ ~level

\* FreshSound by induction: how far the producer and the device may be at each step
\* of the controller, and that everything under way is of this run.
PlayoutInv ==
    /\ TypeOK
    /\ active = IF prod = "out" THEN 0 ELSE 1
    /\ prod = "write" => ctl \in {"open", "on", "refuse", "failed", "wait"}
                         /\ accepted = run
    /\ accepting => ctl \in {"open", "on", "refuse"}
    /\ dev # "closed" => ctl \in {"on", "wait", "close"}
    /\ \A i \in 1..Len(queue) : queue[i] = run
    /\ ctl \in {"off", "reset", "accept", "quiet"} => queue = <<>>
    /\ level => ctl \in {"on", "wait", "close", "clear", "quiet"}
    /\ FreshSound
=============================================================================
