---------------------------- MODULE MessageQueue ----------------------------
(***************************************************************************)
(* lib/thread.c, lib/message.c and the loop of lag/lacp/lacp_main.c and    *)
(* stp/stp_main.c: module threads that park on a condition variable,       *)
(* receive messages and return acknowledgements to the source's queue.     *)
(*                                                                         *)
(* A step runs from one point where another thread can get in between to   *)
(* the next.  A thread holds its oLock from the end of xThread_wait to the *)
(* next xThread_wait, xMessage_send and xMessageDst_remove hold the read   *)
(* locks on oThreadData and oMessageData while they wait for an oLock.     *)
(*                                                                         *)
(* xMessage_send has no caller in the repository yet: a message is sent    *)
(* from a context that holds no oLock, on behalf of the module Src[m], and *)
(* one queue is sent from by one context at a time (oTxList has no lock).  *)
(***************************************************************************)
EXTENDS Integers, FiniteSets, SequencesExt

CONSTANTS
  Thread,   \* the module threads; each has a queue of the same index
  Msg,      \* the messages
  Src,      \* the queue each message is sent from
  Dst,      \* its destinations, in the order of oDstList
  AckInline \* the destinations flagged xMessage_flagsAckInline_c

ASSUME MessageQueueAssumption ==
  /\ Msg # {}
  /\ Src \in [Msg -> Thread]
  /\ Dst \in [Msg -> Seq(Thread)]
  /\ \A m \in Msg : Len(Dst[m]) > 0 /\ IsInjective(Dst[m]) /\ AckInline[m] \subseteq ToSet(Dst[m])

VARIABLES
  pc,      \* where each thread is
  flag,    \* its xThreadInfo_flagsMessage_c
  txList,  \* the messages on the oTxList of each queue
  rxList,  \* the oRxList of each queue, oldest first
  ackList, \* the oAckList of each queue, oldest first
  dstList, \* the destinations left on the oDstList of each message
  rxCount, \* its u16RxCount
  sendAt,  \* the next destination of a send in progress, 0 if there is none
  added,   \* its bMsgAdded
  current, \* the message each thread acknowledges
  drained  \* TRUE when a thread has last parked with all its lists read (history)

vars == <<pc, flag, txList, rxList, ackList, dstList, rxCount, sendAt, added, current, drained>>
lists == <<txList, rxList, ackList>>
message == <<dstList, rxCount, sendAt, added>>

PC == {"absent",    \* xThread_create not called yet
       "spawned",   \* before xThread_taskInit registers the thread
       "started",   \* registered, before its first xThread_wait
       "waiting",   \* in the condition variable's wait set
       "signalled", \* woken, oLock not yet taken again
       "drainAck", "drainRx", "ackSource"}

TypeOK ==
  /\ pc \in [Thread -> PC] /\ flag \in [Thread -> BOOLEAN]
  /\ txList \in [Thread -> SUBSET Msg]
  /\ rxList \in [Thread -> Seq(Msg)] /\ ackList \in [Thread -> Seq(Msg)]
  /\ dstList \in [Msg -> SUBSET Thread] /\ rxCount \in [Msg -> Nat]
  /\ sendAt \in [Msg -> Nat] /\ added \in [Msg -> BOOLEAN]
  /\ current \in [Thread -> Msg] /\ drained \in [Thread -> BOOLEAN]

Registered(t) == pc[t] \notin {"absent", "spawned"}

\* The thread holds its own oLock.
Running(t) == pc[t] \in {"drainAck", "drainRx", "ackSource"}

\* Someone has the read lock of oThreadData.
ReadLocked == (\E t \in Thread : pc[t] = "ackSource") \/ (\E m \in Msg : sendAt[m] # 0)

InUse(m) == m \in txList[Src[m]] \/ m \in ToSet(ackList[Src[m]]) \/ \E t \in Thread : m \in ToSet(rxList[t])

Init ==
  /\ pc = [t \in Thread |-> "absent"] /\ flag = [t \in Thread |-> FALSE]
  /\ txList = [t \in Thread |-> {}]
  /\ rxList = [t \in Thread |-> <<>>] /\ ackList = [t \in Thread |-> <<>>]
  /\ dstList = [m \in Msg |-> {}] /\ rxCount = [m \in Msg |-> 0]
  /\ sendAt = [m \in Msg |-> 0] /\ added = [m \in Msg |-> FALSE]
  /\ current = [t \in Thread |-> CHOOSE m \in Msg : TRUE]
  /\ drained = [t \in Thread |-> FALSE]

-----------------------------------------------------------------------------
(* The life of a thread.                                                   *)

\* lacp_main with ModuleOp_start_c: the queue is created, then the thread.
Start(t) ==
  /\ pc[t] = "absent"
  /\ pc' = [pc EXCEPT ![t] = "spawned"]
  /\ UNCHANGED <<flag, lists, message, current, drained>>

\* xThread_taskInit takes the write lock of oThreadData.
Register(t) ==
  /\ pc[t] = "spawned" /\ ~ReadLocked
  /\ pc' = [pc EXCEPT ![t] = "started"]
  /\ UNCHANGED <<flag, lists, message, current, drained>>

\* xThread_waitPrepare and the first xThread_wait: no look at the flag.
FirstWait(t) ==
  /\ pc[t] = "started"
  /\ pc' = [pc EXCEPT ![t] = "waiting"]
  /\ UNCHANGED <<flag, lists, message, current, drained>>

\* pthread_cond_wait may return without a signal.
SpuriousWake(t) ==
  /\ pc[t] = "waiting"
  /\ pc' = [pc EXCEPT ![t] = "signalled"]
  /\ UNCHANGED <<flag, lists, message, current, drained>>

\* xThread_wait has oLock again; without the flag the loop waits again.
Resume(t) ==
  /\ pc[t] = "signalled"
  /\ pc' = [pc EXCEPT ![t] = IF flag[t] THEN "drainAck" ELSE "waiting"]
  /\ UNCHANGED <<flag, lists, message, current, drained>>

\* xMessageAck_remove: the source gets its message back and frees it.
AckRemove(t) ==
  /\ pc[t] = "drainAck" /\ ackList[t] # <<>>
  /\ ackList' = [ackList EXCEPT ![t] = Tail(@)]
  /\ UNCHANGED <<pc, flag, txList, rxList, message, current, drained>>

AcksDone(t) ==
  /\ pc[t] = "drainAck" /\ ackList[t] = <<>>
  /\ pc' = [pc EXCEPT ![t] = "drainRx"]
  /\ UNCHANGED <<flag, lists, message, current, drained>>

\* Mutants: the count goes down; the first receiver completes the message.
Counted_Down(m) == rxCount[m] - 1
Completes_AtOnce(m) == TRUE

\* The message is handled, then xMessageDst_remove up to the look-up of the
\* source.  The last receiver frees the destinations that ask for no
\* acknowledgement; if none is left, the source is not told.
Counted(m) == rxCount[m] + 1
Completes(m) == Cardinality(dstList[m]) = Counted(m)
Unfreed(m) == AckInline[m]

Receive(t) ==
  /\ pc[t] = "drainRx" /\ rxList[t] # <<>>
  /\ LET m == Head(rxList[t])
         left == IF Completes(m) THEN Unfreed(m) ELSE dstList[m]
     IN  /\ rxCount' = [rxCount EXCEPT ![m] = Counted(m)]
         /\ dstList' = [dstList EXCEPT ![m] = left]
         /\ current' = [current EXCEPT ![t] = m]
         /\ pc' = [pc EXCEPT ![t] = IF Completes(m) /\ left # {} THEN "ackSource" ELSE @]
  /\ rxList' = [rxList EXCEPT ![t] = Tail(@)]
  /\ UNCHANGED <<flag, txList, ackList, sendAt, added, drained>>

\* Mutant of Signalled: the thread is not woken.
Signalled_Silent(t, p) == p

\* Push, set the flag and broadcast, under the oLock of thread t.
Signalled(t, p) == [p EXCEPT ![t] = IF @ = "waiting" THEN "signalled" ELSE @]

\* Mutants of AckSource: the oLock of the source is not taken; the message
\* stays on the oTxList; the source is not woken.
AckSource_NoLock(t) ==
  /\ pc[t] = "ackSource"
  /\ LET m == current[t]
         s == Src[m]
     IN  /\ Registered(s)
         /\ txList' = [txList EXCEPT ![s] = @ \ {m}]
         /\ ackList' = [ackList EXCEPT ![s] = Append(@, m)]
         /\ flag' = [flag EXCEPT ![s] = TRUE]
         /\ pc' = Signalled(s, [pc EXCEPT ![t] = "drainRx"])
  /\ UNCHANGED <<rxList, message, current, drained>>
AckSource_KeepsTx(t) ==
  /\ pc[t] = "ackSource"
  /\ LET m == current[t]
         s == Src[m]
     IN  /\ Registered(s) /\ ~Running(s)
         /\ ackList' = [ackList EXCEPT ![s] = Append(@, m)]
         /\ flag' = [flag EXCEPT ![s] = TRUE]
         /\ pc' = Signalled(s, [pc EXCEPT ![t] = "drainRx"])
  /\ UNCHANGED <<txList, rxList, message, current, drained>>

AckSource_Silent(t) ==
  /\ pc[t] = "ackSource"
  /\ LET m == current[t]
         s == Src[m]
     IN  /\ Registered(s) /\ ~Running(s)
         /\ txList' = [txList EXCEPT ![s] = @ \ {m}]
         /\ ackList' = [ackList EXCEPT ![s] = Append(@, m)]
         /\ flag' = [flag EXCEPT ![s] = TRUE]
  /\ pc' = [pc EXCEPT ![t] = "drainRx"]
  /\ UNCHANGED <<rxList, message, current, drained>>

\* The rest of xMessageDst_remove: the message moves to the oAckList of its
\* source, once the source lets go of its oLock.
AckSource(t) ==
  /\ pc[t] = "ackSource"
  /\ LET m == current[t]
         s == Src[m]
     IN  /\ Registered(s) /\ ~Running(s)
         /\ txList' = [txList EXCEPT ![s] = @ \ {m}]
         /\ ackList' = [ackList EXCEPT ![s] = Append(@, m)]
         /\ flag' = [flag EXCEPT ![s] = TRUE]
         /\ pc' = Signalled(s, [pc EXCEPT ![t] = "drainRx"])
  /\ UNCHANGED <<rxList, message, current, drained>>

\* xMessageDst_remove fails when the source's thread is not registered: the
\* loop breaks off and clears the flag although messages may be left.
GiveUp(t) ==
  /\ pc[t] = "ackSource" /\ ~Registered(Src[current[t]])
  /\ flag' = [flag EXCEPT ![t] = FALSE]
  /\ pc' = [pc EXCEPT ![t] = "waiting"]
  /\ drained' = [drained EXCEPT ![t] = FALSE]
  /\ UNCHANGED <<lists, message, current>>

\* xMessage_cleanupThread and the next xThread_wait.
Park(t) ==
  /\ pc[t] = "drainRx" /\ rxList[t] = <<>>
  /\ flag' = [flag EXCEPT ![t] = FALSE]
  /\ pc' = [pc EXCEPT ![t] = "waiting"]
  /\ drained' = [drained EXCEPT ![t] = TRUE]
  /\ UNCHANGED <<lists, message, current>>

-----------------------------------------------------------------------------
(* A send.                                                                 *)

\* xMessage_allocate, xMessageDst_create for each destination, and
\* xMessage_send up to its loop.
BeginSend(m) ==
  /\ sendAt[m] = 0 /\ ~InUse(m)
  /\ txList' = [txList EXCEPT ![Src[m]] = @ \cup {m}]
  /\ dstList' = [dstList EXCEPT ![m] = ToSet(Dst[m])]
  /\ rxCount' = [rxCount EXCEPT ![m] = 0]
  /\ sendAt' = [sendAt EXCEPT ![m] = 1]
  /\ added' = [added EXCEPT ![m] = FALSE]
  /\ UNCHANGED <<pc, flag, rxList, ackList, current, drained>>

\* One turn of the loop.  A destination without a registered thread is left
\* out, but stays on oDstList.
Deliver(m) ==
  /\ sendAt[m] \in 1 .. Len(Dst[m])
  /\ LET d == Dst[m][sendAt[m]] IN
       \/ /\ Registered(d) /\ ~Running(d)
          /\ rxList' = [rxList EXCEPT ![d] = Append(@, m)]
          /\ flag' = [flag EXCEPT ![d] = TRUE]
          /\ pc' = Signalled(d, pc)
          /\ added' = [added EXCEPT ![m] = TRUE]
       \/ /\ ~Registered(d)
          /\ UNCHANGED <<rxList, flag, pc, added>>
  /\ sendAt' = [sendAt EXCEPT ![m] = @ + 1]
  /\ UNCHANGED <<txList, ackList, dstList, rxCount, current, drained>>

EndSend(m) ==
  /\ sendAt[m] = Len(Dst[m]) + 1
  /\ sendAt' = [sendAt EXCEPT ![m] = 0]
  /\ txList' = IF added[m] THEN txList ELSE [txList EXCEPT ![Src[m]] = @ \ {m}]
  /\ UNCHANGED <<pc, flag, rxList, ackList, dstList, rxCount, added, current, drained>>

-----------------------------------------------------------------------------
ThreadStep(t) ==
  \/ Start(t) \/ Register(t) \/ FirstWait(t) \/ Resume(t)
  \/ AckRemove(t) \/ AcksDone(t) \/ Receive(t) \/ AckSource(t) \/ GiveUp(t) \/ Park(t)

SendStep(m) == Deliver(m) \/ EndSend(m)

Next ==
  \/ \E t \in Thread : ThreadStep(t) \/ SpuriousWake(t)
  \/ \E m \in Msg : BeginSend(m) \/ SendStep(m)

\* The scheduler runs every thread, and every sender that is in a send; who
\* waits for an oLock that is let go again and again gets it at last.
Fairness ==
  /\ \A t \in Thread : WF_vars(ThreadStep(t)) /\ SF_vars(AckSource(t))
  /\ \A m \in Msg : WF_vars(SendStep(m)) /\ SF_vars(Deliver(m))

Spec == Init /\ [][Next]_vars /\ Fairness

-----------------------------------------------------------------------------
(* Properties.                                                             *)

\* No wake-up is lost once a thread has parked with its lists read: while it
\* waits, nothing is on its lists and its flag is clear, although the lists
\* are read without the queue's lock and the flag is cleared after the last
\* look at them.
NoLostWakeup ==
  \A t \in Thread : pc[t] = "waiting" /\ drained[t] =>
    ~flag[t] /\ rxList[t] = <<>> /\ ackList[t] = <<>>

\* A message comes back acknowledged only when all its destinations have read
\* it, and not while it is still being handed to one of them.
AckMeansReceived ==
  \A m \in Msg : m \in ToSet(ackList[Src[m]]) =>
    /\ rxCount[m] = Len(Dst[m])
    /\ sendAt[m] \in {0, Len(Dst[m]) + 1}
    /\ \A t \in Thread : m \notin ToSet(rxList[t])

\* A message is on one list of its source at most, and on each list once.
NoDuplicates ==
  /\ \A m \in Msg : ~(m \in txList[Src[m]] /\ m \in ToSet(ackList[Src[m]]))
  /\ \A t \in Thread : IsInjective(rxList[t]) /\ IsInjective(ackList[t])

AllUp == \A t \in Thread : Registered(t) /\ drained[t]

\* With all threads up and past their first messages, a message that was put
\* on a thread's list is read.
MessagesRead ==
  \A t \in Thread, m \in Msg : (AllUp /\ m \in ToSet(rxList[t])) ~> m \notin ToSet(rxList[t])

\* ... and a message that wants an acknowledgement comes back and is freed.
AcksReturn ==
  \A m \in Msg : (AllUp /\ sendAt[m] = 1 /\ AckInline[m] # {}) ~> ~InUse(m)
=============================================================================
