----------------------------- MODULE EvDataProofs -----------------------------
(***************************************************************************)
(* The invariants of the data event, for any senders, messages and pipe.   *)
(***************************************************************************)
EXTENDS EvData, SequenceTheorems, TLAPS

\* consume takes the queue only when it has run every callback of the last one.
BatchRun == phase # "run" => batch = <<>>

IInv == TypeOK /\ NoLostBell /\ BatchRun /\ InOrder

(***************************************************************************)
(* Moving the head of the second of two sequences to the end of the first  *)
(* leaves their concatenation as it was.                                   *)
(***************************************************************************)
LEMMA HeadMovesOver ==
  ASSUME NEW s \in Seq(Messages), NEW t \in Seq(Messages), t # <<>>
  PROVE  Append(s, Head(t)) \o Tail(t) = s \o t
<1> DEFINE h == Head(t)
<1>1. h \in Messages /\ Tail(t) \in Seq(Messages) /\ <<h>> \in Seq(Messages)
  BY HeadTailProperties
<1>2. Append(s, h) = s \o <<h>>
  BY <1>1, AppendIsConcat
<1>3. (s \o <<h>>) \o Tail(t) = s \o (<<h>> \o Tail(t))
  BY <1>1, ConcatAssociative
<1>4. <<h>> \o Tail(t) = t
  <2>1. Len(t) \in Nat \ {0} /\ Len(Tail(t)) = Len(t) - 1
    BY <1>1, HeadTailProperties, EmptySeq
  <2>2. /\ <<h>> \o Tail(t) \in Seq(Messages)
        /\ Len(<<h>> \o Tail(t)) = Len(t)
        /\ \A i \in 1..Len(t) :
             (<<h>> \o Tail(t))[i] = IF i <= 1 THEN <<h>>[i] ELSE Tail(t)[i - 1]
    BY <1>1, <2>1, ConcatProperties
  <2>3. \A i \in 1..Len(t) : (<<h>> \o Tail(t))[i] = t[i]
    BY <2>1, <2>2, HeadTailProperties
  <2> QED BY <2>2, <2>3, SeqEqual
<1> QED BY <1>2, <1>3, <1>4

(***************************************************************************)
(* A message joins the end of three concatenated sequences with the third. *)
(***************************************************************************)
LEMMA LastJoinsLast ==
  ASSUME NEW s \in Seq(Messages), NEW t \in Seq(Messages), NEW u \in Seq(Messages),
         NEW m \in Messages
  PROVE  Append(s \o t \o u, m) = s \o t \o Append(u, m)
<1>1. s \o t \in Seq(Messages) /\ s \o t \o u \in Seq(Messages)
  BY ConcatProperties
<1>2. Append(s \o t \o u, m) = (s \o t \o u) \o <<m>> /\ Append(u, m) = u \o <<m>>
  BY <1>1, AppendIsConcat
<1>3. <<m>> \in Seq(Messages)
  OBVIOUS
<1>4. ((s \o t) \o u) \o <<m>> = (s \o t) \o (u \o <<m>>)
  BY <1>1, <1>3, ConcatAssociative
<1> QED BY <1>2, <1>4

LEMMA Inductive == IInv /\ [Next]_vars => IInv'
<1> SUFFICES ASSUME IInv, [Next]_vars PROVE IInv'
  OBVIOUS
<1> USE DEF IInv
<1>1. ASSUME NEW s \in Senders, NEW m \in Messages, Send(s, m) PROVE IInv'
  <2>1. queue' \in Seq(Messages) /\ sent' \in Seq(Messages)
    BY <1>1, AppendProperties DEF Send, TypeOK
  <2>2. TypeOK' /\ NoLostBell' /\ BatchRun'
    BY <1>1, <2>1, NobodyAssumption DEF Send, TypeOK, NoLostBell, BatchRun
  <2>3. InOrder'
    <3>1. /\ sent' = Append(delivered \o batch \o queue, m)
          /\ queue' = Append(queue, m) /\ batch' = batch /\ delivered' = delivered
      BY <1>1 DEF Send, InOrder
    <3>2. queue \in Seq(Messages) /\ batch \in Seq(Messages) /\ delivered \in Seq(Messages)
      BY DEF TypeOK
    <3>3. Append(delivered \o batch \o queue, m) = delivered \o batch \o Append(queue, m)
      BY <3>2, LastJoinsLast
    <3> QED BY <3>1, <3>3 DEF InOrder
  <2> QED BY <2>2, <2>3
<1>2. ASSUME NEW s \in Senders, RingBell(s) PROVE IInv'
  <2>1. pipe' \in 0..PipeSize /\ pipe' > 0
    BY <1>2, PipeAssumption DEF RingBell, TypeOK
  <2> QED BY <1>2, <2>1 DEF RingBell, TypeOK, NoLostBell, BatchRun, InOrder
<1>3. CASE ResetBell
  <2>1. pipe' \in 0..PipeSize
    BY <1>3, PipeAssumption DEF ResetBell, TypeOK
  <2> QED BY <1>3, <2>1 DEF ResetBell, TypeOK, NoLostBell, BatchRun, InOrder
<1>4. CASE Swap
  <2>1. TypeOK' /\ NoLostBell' /\ BatchRun'
    BY <1>4, EmptySeq DEF Swap, TypeOK, NoLostBell, BatchRun
  <2>2. InOrder'
    <3>1. /\ sent = delivered \o <<>> \o queue
          /\ sent' = sent /\ delivered' = delivered
          /\ batch' = queue /\ queue' = <<>>
      BY <1>4 DEF Swap, BatchRun, InOrder
    <3>2. /\ delivered \o <<>> = delivered
          /\ (delivered \o queue) \o <<>> = delivered \o queue
      BY ConcatEmptySeq, ConcatProperties DEF TypeOK
    <3> QED BY <3>1, <3>2 DEF InOrder
  <2> QED BY <2>1, <2>2
<1>5. CASE Deliver
  <2>1. /\ delivered' \in Seq(Messages) /\ batch' \in Seq(Messages)
    BY <1>5, HeadTailProperties, AppendProperties DEF Deliver, TypeOK
  <2>2. TypeOK' /\ NoLostBell' /\ BatchRun'
    BY <1>5, <2>1 DEF Deliver, TypeOK, NoLostBell, BatchRun
  <2>3. InOrder'
    BY <1>5, HeadMovesOver DEF Deliver, TypeOK, InOrder
  <2> QED BY <2>2, <2>3
<1>6. CASE Return
  BY <1>6 DEF Return, TypeOK, NoLostBell, BatchRun, InOrder
<1>7. CASE UNCHANGED vars
  BY <1>7 DEF vars, TypeOK, NoLostBell, BatchRun, InOrder
<1> QED
  BY <1>1, <1>2, <1>3, <1>4, <1>5, <1>6, <1>7 DEF Next

LEMMA InitIInv == Init => IInv
<1> SUFFICES ASSUME Init PROVE IInv
  OBVIOUS
<1>1. TypeOK /\ NoLostBell /\ BatchRun
  BY EmptySeq, PipeAssumption DEF Init, TypeOK, NoLostBell, BatchRun
<1>2. InOrder
  BY ConcatEmptySeq, EmptySeq DEF Init, InOrder
<1> QED BY <1>1, <1>2 DEF IInv

LEMMA Invariance == Spec => []IInv
BY InitIInv, Inductive, PTL DEF Spec

(***************************************************************************)
(* The queues hold messages, the pipe never more than it has room for.     *)
(***************************************************************************)
THEOREM TypeCorrect == Spec => []TypeOK
<1>1. IInv => TypeOK
  BY DEF IInv
<1> QED BY Invariance, <1>1, PTL

(***************************************************************************)
(* However many bytes a gulp takes or the pipe holds, messages are not     *)
(* left in the queue with nothing to call the main thread to it.           *)
(***************************************************************************)
THEOREM BellIsNotLost == Spec => []NoLostBell
<1>1. IInv => NoLostBell
  BY DEF IInv
<1> QED BY Invariance, <1>1, PTL

(***************************************************************************)
(* The main thread sees messages in the order the queue took them, each    *)
(* once and with none left out.                                            *)
(***************************************************************************)
THEOREM DeliveredInOrder == Spec => []InOrder
<1>1. IInv => InOrder
  BY DEF IInv
<1> QED BY Invariance, <1>1, PTL
=============================================================================
