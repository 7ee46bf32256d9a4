--------------------------- MODULE TraceCollector ---------------------------
(***************************************************************************)
(* The event channel of a Runtime and the TraceCollector that records it   *)
(* (crates/picante/src/debug.rs:358-496).  The channel is a tokio broadcast *)
(* of Capacity events (1024, runtime.rs:315): senders never wait, and a     *)
(* receiver that falls behind by more is told so (Lagged) once, after which *)
(* it would go on with the oldest event still there.                       *)
(***************************************************************************)
EXTENDS Naturals, Sequences, SequencesExt

CONSTANTS
    Capacity,  \* of the channel
    MaxSent,   \* bound on the number of events
    NoEvent

ASSUME ChannelHasRoom == Capacity \in Nat \ {0} /\ MaxSent \in Nat /\ NoEvent \notin 1..MaxSent

EventKind ==
    {"RevisionBumped", "RevisionSet", "InputSet", "InputRemoved",
     "QueryInvalidated", "QueryChanged"}

VARIABLES
    sent,       \* the kinds of the events sent since the collector subscribed
    closed,     \* the Runtime is gone, and the sender with it
    read,       \* the number of them that the receiver is past
    inHand,     \* the event received and not yet recorded
    ended,      \* the loop of the collector's task has been left
    trace       \* events: what is recorded, as numbers of events

traceVars == <<sent, closed, read, inHand, ended, trace>>

TraceInit ==
    /\ sent = <<>> /\ closed = FALSE
    /\ read = 0 /\ inHand = NoEvent /\ ended = FALSE
    /\ trace = <<>>

Send(kind) ==
    /\ ~closed /\ Len(sent) < MaxSent
    /\ sent' = Append(sent, kind)
    /\ UNCHANGED <<closed, read, inHand, ended, trace>>

DropRuntime ==
    /\ ~closed
    /\ closed' = TRUE
    /\ UNCHANGED <<sent, read, inHand, ended, trace>>

Receiving == ~ended /\ inHand = NoEvent
Behind == Len(sent) - read

\* Mutant: only inputs and what they invalidate is recorded.
SkippedMost(kind) == kind \notin {"InputSet", "QueryInvalidated"}

\* Loads of a cache are not recorded.
Skipped(kind) == kind = "RevisionSet"

Receive ==
    /\ Receiving
    /\ Behind \in 1..Capacity
    /\ read' = read + 1
    /\ inHand' = IF Skipped(sent[read + 1]) THEN NoEvent ELSE read + 1
    /\ UNCHANGED <<sent, closed, ended, trace>>

\* Mutant: the loop goes on after a lag.
GoOn(e) == FALSE

\* The loop condition is `while let Ok`.
Leaves(e) == e \in {"Lagged", "Closed"}

\* recv returns an error: the collector was too slow, or nothing can come.
ReceiveError(e) ==
    /\ Receiving
    /\ \/ e = "Lagged" /\ Behind > Capacity /\ read' = Len(sent) - Capacity
       \/ e = "Closed" /\ Behind = 0 /\ closed /\ read' = read
    /\ ended' = Leaves(e)
    /\ UNCHANGED <<sent, closed, inHand, trace>>

\* The event is pushed under the lock that stop and snapshot take too.
Record ==
    /\ inHand # NoEvent
    /\ trace' = Append(trace, inHand)
    /\ inHand' = NoEvent
    /\ UNCHANGED <<sent, closed, read, ended>>

Collect == Receive \/ Record \/ \E e \in {"Lagged", "Closed"} : ReceiveError(e)

TraceNext == Collect \/ DropRuntime \/ \E kind \in EventKind : Send(kind)

\* The collector's task is polled again when it is woken.
TraceFairness == WF_traceVars(Collect)

TraceSpec == TraceInit /\ [][TraceNext]_traceVars /\ TraceFairness

-----------------------------------------------------------------------------
(* What is recorded are the first events that were sent, all of them up to  *)
(* the last one recorded and in their order: a collector that cannot keep up stops, and *)
(* does not go on with a gap.  It does not record "all events" (debug.rs:340): *)
(* after a lag there are none, and stop does not tell.                      *)
TraceHasNoGap ==
    /\ \A k \in DOMAIN trace : trace[k] \in {n \in 1..Len(sent) : sent[n] # "RevisionSet"}
    /\ \A k, l \in DOMAIN trace : k < l => trace[k] < trace[l]
    /\ \A k \in DOMAIN trace : \A n \in 1..trace[k] :
        sent[n] # "RevisionSet" => n \in ToSet(trace)

(* Until it has been lagging, the collector records every event, however    *)
(* the sending and the recording interleave, and also when the runtime is   *)
(* dropped with events in the channel.                                      *)
EventsAreRecorded ==
    \A n \in 1..MaxSent :
        (n <= Len(sent) /\ sent[n] # "RevisionSet")
            ~> (n \in ToSet(trace) \/ (ended /\ read < Len(sent)) \/ Behind > Capacity)
=============================================================================
