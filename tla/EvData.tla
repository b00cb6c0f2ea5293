------------------------------- MODULE EvData -------------------------------
(***************************************************************************)
(* The data event of util/event.c: how other threads hand messages to the  *)
(* main thread.  A sender puts its message in a queue and rings a bell, a  *)
(* byte written to a pipe, with ed->mutex held throughout.  libevent calls *)
(* consume in the main thread while the pipe can be read: it empties the   *)
(* bell, takes the whole queue in one go and then runs a callback for each *)
(* message, with the mutex free again.                                     *)
(*                                                                         *)
(* The pipe blocks: a sender that finds it full waits, the mutex in hand,  *)
(* until the main thread has read some of it.                              *)
(***************************************************************************)
EXTENDS Naturals, Sequences, Functions

CONSTANTS Senders,      \* the threads that send
          Consumer,     \* the main thread; it is in Senders if callbacks send
          Messages,     \* what may be sent, each message at most once
          Nobody,       \* the owner of a free mutex
          PipeSize,     \* the bytes the pipe holds
          GULP          \* the bytes reset_bell reads at most

ASSUME PipeAssumption == PipeSize \in Nat \ {0} /\ GULP \in Nat \ {0}
ASSUME NobodyAssumption == Nobody \notin Senders

VARIABLES
  queue,      \* ed->queue
  ringer,     \* who holds ed->mutex to ring the bell, or Nobody
  pipe,       \* the bytes in ed->pipe
  phase,      \* the main thread: in its loop, in consume before or after the swap
  batch,      \* the array consume took, from the next message on
  sent,       \* every message, in the order evdata_send queued it
  delivered   \* every message, in the order its callback ran

vars == <<queue, ringer, pipe, phase, batch, sent, delivered>>

Init == /\ queue = <<>>
        /\ ringer = Nobody
        /\ pipe = 0
        /\ phase = "loop"
        /\ batch = <<>>
        /\ sent = <<>>
        /\ delivered = <<>>

\* evdata_send up to ring_bell.  The main thread may send too, from a callback
\* or before it enters its loop, but does nothing else until it has rung.
Send(s, m) ==
  /\ ringer = Nobody
  /\ s = Consumer => phase # "swap"
  /\ m \notin Range(sent)
  /\ queue' = Append(queue, m)
  /\ sent' = Append(sent, m)
  /\ ringer' = s
  /\ UNCHANGED <<pipe, phase, batch, delivered>>

\* ring_bell and the end of evdata_send: write waits for room in the pipe.
RingBell(s) ==
  /\ ringer = s
  /\ pipe < PipeSize
  /\ pipe' = pipe + 1
  /\ ringer' = Nobody
  /\ UNCHANGED <<queue, phase, batch, sent, delivered>>

\* libevent finds the pipe readable and calls consume: reset_bell
ResetBell ==
  /\ phase = "loop"
  /\ ringer # Consumer
  /\ pipe > 0
  /\ pipe' = IF pipe > GULP THEN pipe - GULP ELSE 0
  /\ phase' = "swap"
  /\ UNCHANGED <<queue, ringer, batch, sent, delivered>>

\* Swap that forgets to empty the queue
SwapCopies ==
  /\ phase = "swap"
  /\ ringer = Nobody
  /\ batch' = queue
  /\ phase' = "run"
  /\ UNCHANGED <<queue, ringer, pipe, sent, delivered>>

\* consume takes the queue, under the mutex.
Swap ==
  /\ phase = "swap"
  /\ ringer = Nobody
  /\ batch' = queue
  /\ queue' = <<>>
  /\ phase' = "run"
  /\ UNCHANGED <<ringer, pipe, sent, delivered>>

\* consume calls ed->cb on the next message.
Deliver ==
  /\ phase = "run"
  /\ ringer # Consumer
  /\ batch # <<>>
  /\ delivered' = Append(delivered, Head(batch))
  /\ batch' = Tail(batch)
  /\ UNCHANGED <<queue, ringer, pipe, phase, sent>>

\* Return that empties the bell once more on the way out
ReturnHushed ==
  /\ phase = "run"
  /\ ringer # Consumer
  /\ batch = <<>>
  /\ pipe' = 0
  /\ phase' = "loop"
  /\ UNCHANGED <<queue, ringer, batch, sent, delivered>>

\* consume returns to the event loop.
Return ==
  /\ phase = "run"
  /\ ringer # Consumer
  /\ batch = <<>>
  /\ phase' = "loop"
  /\ UNCHANGED <<queue, ringer, pipe, batch, sent, delivered>>

Next == \/ \E s \in Senders : (\E m \in Messages : Send(s, m)) \/ RingBell(s)
        \/ ResetBell \/ Swap \/ Deliver \/ Return

Spec == Init /\ [][Next]_vars

\* The main thread never stops and no sender dies with the mutex in hand.
Fairness == /\ WF_vars(ResetBell) /\ WF_vars(Swap)
            /\ WF_vars(Deliver) /\ WF_vars(Return)
            /\ \A s \in Senders : WF_vars(RingBell(s))

FairSpec == Spec /\ Fairness

-----------------------------------------------------------------------------
TypeOK == /\ queue \in Seq(Messages)
          /\ ringer \in Senders \cup {Nobody}
          /\ pipe \in 0..PipeSize
          /\ phase \in {"loop", "swap", "run"}
          /\ batch \in Seq(Messages)
          /\ sent \in Seq(Messages)
          /\ delivered \in Seq(Messages)

(***************************************************************************)
(* The bell is never lost: while messages are queued either the pipe still *)
(* holds a byte, or a sender is about to write one, or the main thread has *)
(* yet to take the queue.  consume must empty the bell before it takes the *)
(* queue: the other way round, a message sent in between would stay there  *)
(* until the next one, and with it the request that waits for it.          *)
(***************************************************************************)
NoLostBell == queue # <<>> => pipe > 0 \/ ringer # Nobody \/ phase = "swap"

(***************************************************************************)
(* Messages are delivered in the order they were sent, none twice and none *)
(* passed over, across the swap of the queue and the batches before it:    *)
(* sq_free tears the event down in the callback of A_QUIT and relies on it *)
(* being the last.                                                         *)
(***************************************************************************)
InOrder == sent = delivered \o batch \o queue

(***************************************************************************)
(* Every message sent reaches its callback: each is the answer a request,  *)
(* and behind it a reader of the file system, is waiting for.              *)
(***************************************************************************)
EverySendDelivered ==
  \A m \in Messages : m \in Range(sent) ~> m \in Range(delivered)
=============================================================================
