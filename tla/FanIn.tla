------------------------------- MODULE FanIn -------------------------------
(***************************************************************************)
(* The head of a non-source task: SystemInputFormat.  open subscribes one  *)
(* receiver for its memory parents and one for its network parents (a     *)
(* channel made by named_channel_with_base, bounded or unbounded);          *)
(* element_iter wraps one receiver in a ChannelIterator and two in a        *)
(* MultiChannelIterator, which selects a ready receiver and try_recvs it.  *)
(* Each iterator checks the coordinator status after it has received an    *)
(* element.                                                                *)
(*                                                                         *)
(* The upstream tasks of a kind are one sender: it publishes elements and  *)
(* eventually may drop its end (Disconnect).  Elements of a channel are    *)
(* numbered modulo Wrap so that the upstream may send forever.             *)
(***************************************************************************)
EXTENDS Naturals, Sequences, FiniteSets

CONSTANTS
  ChannelSize,  \* pub_sub channel_size: capacity of a bounded channel
  MaxQueue,     \* bound: length of an unbounded channel
  Wrap          \* elements of a channel are numbered 0 .. Wrap-1, cyclically

ASSUME FanInAssumption ==
  /\ ChannelSize \in Nat \ {0}
  /\ MaxQueue \in Nat \ {0}
  /\ Wrap \in Nat /\ Wrap >= 2

Kinds == {"Memory", "Network"}
Bases == {"Bounded", "Unbounded"}

VARIABLES
  parents,    \* kinds of the task's upstream execution edges
  base,       \* channel_base_on of the application
  receivers,  \* kinds that open subscribed a receiver for
  ch,         \* ch[k]: elements queued in the channel of kind k
  alive,      \* alive[k]: some upstream sender of kind k is connected
  sent,       \* sent[k]: number of the next element kind k publishes
  got,        \* got[k]: number of the next element of kind k the task expects
  status,     \* coordinator status: "Running" or "Terminated"
  it          \* the head: "new", "opened", "single", "multi", "done", "panic"

vars == <<parents, base, receivers, ch, alive, sent, got, status, it>>

Capacity == IF base = "Bounded" THEN ChannelSize ELSE MaxQueue

\* A receive operation of the select is ready: an element is queued or
\* every sender is gone.
Ready(k) == k \in receivers /\ (ch[k] # << >> \/ ~alive[k])
-----------------------------------------------------------------------------
(***************************************************************************)
(* Plausible faults, each a variant of one operation below.               *)
(***************************************************************************)

\* send does not block on a full bounded channel.
PublishNoBlock(k) ==
  /\ k \in receivers
  /\ alive[k]
  /\ ch' = [ch EXCEPT ![k] = Append(@, sent[k])]
  /\ sent' = [sent EXCEPT ![k] = (@ + 1) % Wrap]
  /\ UNCHANGED <<parents, base, receivers, alive, got, status, it>>

\* The select always takes the first ready receiver of the Vec (memory).
MultiChannelIteratorNextFirstReady(k) ==
  /\ it = "multi"
  /\ Ready(k)
  /\ k = "Network" => ~Ready("Memory")
  /\ IF ch[k] = << >>
       THEN /\ it' = "panic"
            /\ UNCHANGED <<ch, got>>
       ELSE /\ ch' = [ch EXCEPT ![k] = Tail(@)]
            /\ IF status = "Terminated"
                 THEN it' = "done" /\ got' = got
                 ELSE it' = it /\ got' = [got EXCEPT ![k] = (@ + 1) % Wrap]
  /\ UNCHANGED <<parents, base, receivers, alive, sent, status>>
-----------------------------------------------------------------------------
Init ==
  /\ parents \in SUBSET Kinds \ {{}}
  /\ base \in Bases
  /\ receivers = {}
  /\ ch = [k \in Kinds |-> << >>]
  /\ alive = [k \in Kinds |-> TRUE]
  /\ sent = [k \in Kinds |-> 0]
  /\ got = [k \in Kinds |-> 0]
  /\ status = "Running"
  /\ it = "new"

\* SystemInputFormat::open: memory::subscribe for the memory parents and
\* network::subscribe for the network parents, each when there is one.
Open ==
  /\ it = "new"
  /\ receivers' = parents
  /\ it' = "opened"
  /\ UNCHANGED <<parents, base, ch, alive, sent, got, status>>

\* SystemInputFormat::element_iter: no receiver panics ("unsupported").
ElementIter ==
  /\ it = "opened"
  /\ it' = CASE Cardinality(receivers) = 0 -> "panic"
             [] Cardinality(receivers) = 1 -> "single"
             [] OTHER                      -> "multi"
  /\ UNCHANGED <<parents, base, receivers, ch, alive, sent, got, status>>

\* An upstream task publishes into the channel; send blocks while a
\* bounded channel is full.
Publish(k) ==
  /\ k \in receivers
  /\ alive[k]
  /\ Len(ch[k]) < Capacity
  /\ ch' = [ch EXCEPT ![k] = Append(@, sent[k])]
  /\ sent' = [sent EXCEPT ![k] = (@ + 1) % Wrap]
  /\ UNCHANGED <<parents, base, receivers, alive, got, status, it>>

\* The last upstream sender of kind k is dropped.
Disconnect(k) ==
  /\ k \in receivers
  /\ alive[k]
  /\ alive' = [alive EXCEPT ![k] = FALSE]
  /\ UNCHANGED <<parents, base, receivers, ch, sent, got, status, it>>

\* The coordinator reports termination (heart_beat status).
Terminate ==
  /\ status = "Running"
  /\ status' = "Terminated"
  /\ UNCHANGED <<parents, base, receivers, ch, alive, sent, got, it>>

\* ChannelIterator::next: recv blocks until an element is queued or the
\* channel is disconnected and empty (Err: panic).  After a receive it
\* returns None when the coordinator has terminated.
ChannelIteratorNext ==
  /\ it = "single"
  /\ \E k \in receivers :
       /\ ch[k] # << >> \/ ~alive[k]
       /\ IF ch[k] = << >>
            THEN it' = "panic" /\ UNCHANGED <<ch, got>>
            ELSE /\ ch' = [ch EXCEPT ![k] = Tail(@)]
                 /\ IF status = "Terminated"
                      THEN it' = "done" /\ got' = got
                      ELSE it' = it /\ got' = [got EXCEPT ![k] = (@ + 1) % Wrap]
  /\ UNCHANGED <<parents, base, receivers, alive, sent, status>>

\* MultiChannelIterator::next: sel.ready() returns one ready receive
\* (crossbeam picks among the ready ones at random), then try_recv on it:
\* Ok as above, Disconnected panics.  (Empty, the continue, needs another
\* consumer of the receiver; the task is its only one.)
MultiChannelIteratorNext(k) ==
  /\ it = "multi"
  /\ Ready(k)
  /\ IF ch[k] = << >>
       THEN /\ it' = "panic"
            /\ UNCHANGED <<ch, got>>
       ELSE /\ ch' = [ch EXCEPT ![k] = Tail(@)]
            /\ IF status = "Terminated"
                 THEN it' = "done" /\ got' = got
                 ELSE it' = it /\ got' = [got EXCEPT ![k] = (@ + 1) % Wrap]
  /\ UNCHANGED <<parents, base, receivers, alive, sent, status>>

Next ==
  \/ Open
  \/ ElementIter
  \/ \E k \in Kinds : Publish(k) \/ Disconnect(k)
  \/ Terminate
  \/ ChannelIteratorNext
  \/ \E k \in Kinds : MultiChannelIteratorNext(k)

\* The task thread runs its loop; the random choice of select gives every
\* receive that is ready infinitely often its turn (strong fairness).
\* Upstream tasks and the coordinator are the environment.
Fairness ==
  /\ WF_vars(Open)
  /\ WF_vars(ElementIter)
  /\ WF_vars(ChannelIteratorNext)
  /\ \A k \in Kinds : SF_vars(MultiChannelIteratorNext(k))

Spec == Init /\ [][Next]_vars
FairSpec == Spec /\ Fairness
-----------------------------------------------------------------------------
(* Types, and backpressure: a channel never holds more than its capacity *)
(* (send blocks on a full bounded channel).                               *)
TypeOK ==
  /\ parents \in SUBSET Kinds
  /\ base \in Bases
  /\ receivers \in SUBSET Kinds
  /\ ch \in [Kinds -> Seq(0 .. (Wrap - 1))]
  /\ \A k \in Kinds : Len(ch[k]) <= Capacity
  /\ alive \in [Kinds -> BOOLEAN]
  /\ sent \in [Kinds -> 0 .. (Wrap - 1)]
  /\ got \in [Kinds -> 0 .. (Wrap - 1)]
  /\ status \in {"Running", "Terminated"}
  /\ it \in {"new", "opened", "single", "multi", "done", "panic"}

(* No starvation at the fan-in (spec, pub/sub transport): while the head  *)
(* runs, an element queued on one receiver is eventually taken, however   *)
(* busy the other receiver is.                                            *)
NoStarvation ==
  \A k \in Kinds : \A n \in 0 .. (Wrap - 1) :
    (it \in {"single", "multi"} /\ ch[k] # << >> /\ got[k] = n)
      ~> (got[k] # n \/ it \in {"done", "panic"})

(* The spec (termination; ChannelDisconnected): the task's input ends only *)
(* when every upstream channel is drained and disconnected, or when the    *)
(* coordinator has terminated.                                            *)
DrainBeforeClose ==
  it \in {"done", "panic"} =>
    \/ status = "Terminated"
    \/ \A k \in receivers : ch[k] = << >> /\ ~alive[k]
=============================================================================
