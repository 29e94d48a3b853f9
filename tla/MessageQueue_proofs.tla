------------------------ MODULE MessageQueue_proofs ------------------------
(***************************************************************************)
(* Proofs about MessageQueue: its types, and that no wake-up is lost, for  *)
(* every set of threads and messages.  NoLostWakeup is not inductive: a    *)
(* thread may be woken for nothing and wait again, and it parks on what it *)
(* saw of its two lists in that order; Safe says what holds meanwhile.     *)
(***************************************************************************)
EXTENDS MessageQueue, FiniteSetTheorems, SequenceTheorems, TLAPS

\* A thread that has not waited yet has not read its lists either.
Fresh == \A t \in Thread : pc[t] \in {"absent", "spawned", "started"} => ~drained[t]

\* A thread woken for nothing still has nothing to read.
Idle == \A t \in Thread : pc[t] = "signalled" /\ drained[t] /\ ~flag[t] =>
          rxList[t] = <<>> /\ ackList[t] = <<>>

\* While a thread reads messages, no acknowledgement reaches it.
AcksRead == \A t \in Thread : pc[t] \in {"drainRx", "ackSource"} => ackList[t] = <<>>

Safe == TypeOK /\ NoLostWakeup /\ Fresh /\ Idle /\ AcksRead

\* What the constants give: the destinations and the sources are threads.
LEMMA ConstantTypes ==
  ASSUME NEW m \in Msg
  PROVE  /\ Src[m] \in Thread
         /\ ToSet(Dst[m]) \in SUBSET Thread
         /\ AckInline[m] \in SUBSET Thread
         /\ Len(Dst[m]) \in Nat
         /\ \A i \in 1 .. Len(Dst[m]) : Dst[m][i] \in Thread
<1>1. Dst[m] \in Seq(Thread) /\ Src[m] \in Thread /\ AckInline[m] \subseteq ToSet(Dst[m])
  BY MessageQueueAssumption
<1>2. \A i \in 1 .. Len(Dst[m]) : Dst[m][i] \in Thread
  BY <1>1
<1>3. ToSet(Dst[m]) \in SUBSET Thread
  BY <1>2 DEF ToSet
<1> QED BY <1>1, <1>2, <1>3

LEMMA InitSafe == Init => Safe
<1> SUFFICES ASSUME Init PROVE Safe
  OBVIOUS
<1>1. (CHOOSE m \in Msg : TRUE) \in Msg
  BY MessageQueueAssumption
<1>2. TypeOK
  BY <1>1 DEF Init, TypeOK, PC
<1>3. NoLostWakeup /\ Fresh /\ Idle /\ AcksRead
  BY DEF Init, NoLostWakeup, Fresh, Idle, AcksRead
<1> QED BY <1>2, <1>3 DEF Safe

\* The steps of a thread that touch no list.
LEMMA QuietSafe ==
  ASSUME Safe, NEW t \in Thread,
         \/ Start(t) \/ Register(t) \/ FirstWait(t) \/ SpuriousWake(t)
         \/ Resume(t) \/ AcksDone(t) \/ GiveUp(t) \/ Park(t)
  PROVE  Safe'
<1> USE DEF Safe, lists, message
<1>1. CASE Start(t) \/ Register(t) \/ FirstWait(t) \/ SpuriousWake(t)
  <2>1. TypeOK'
    BY <1>1 DEF TypeOK, PC, Start, Register, FirstWait, SpuriousWake
  <2>2. NoLostWakeup' /\ Fresh'
    BY ZenonT(60), <1>1 DEF TypeOK, NoLostWakeup, Fresh, Start, Register, FirstWait, SpuriousWake
  <2>3. Idle' /\ AcksRead'
    BY ZenonT(60), <1>1 DEF TypeOK, NoLostWakeup, Idle, AcksRead, Start, Register, FirstWait, SpuriousWake
  <2> QED BY <2>1, <2>2, <2>3
<1>2. CASE Resume(t)
  <2>1. TypeOK'
    BY <1>2 DEF TypeOK, PC, Resume
  <2>2. NoLostWakeup' /\ Fresh' /\ Idle' /\ AcksRead'
    BY <1>2 DEF TypeOK, NoLostWakeup, Fresh, Idle, AcksRead, Resume
  <2> QED BY <2>1, <2>2
<1>3. CASE AcksDone(t)
  <2>1. TypeOK'
    BY <1>3 DEF TypeOK, PC, AcksDone
  <2>2. NoLostWakeup' /\ Fresh' /\ Idle' /\ AcksRead'
    BY <1>3 DEF TypeOK, NoLostWakeup, Fresh, Idle, AcksRead, AcksDone
  <2> QED BY <2>1, <2>2
<1>4. CASE GiveUp(t)
  <2>1. TypeOK'
    BY <1>4 DEF TypeOK, PC, GiveUp
  <2>2. NoLostWakeup' /\ Fresh' /\ Idle' /\ AcksRead'
    BY <1>4 DEF TypeOK, NoLostWakeup, Fresh, Idle, AcksRead, GiveUp
  <2> QED BY <2>1, <2>2
<1>5. CASE Park(t)
  <2>1. TypeOK'
    BY <1>5 DEF TypeOK, PC, Park
  <2>2. NoLostWakeup' /\ Fresh' /\ Idle' /\ AcksRead'
    BY <1>5 DEF TypeOK, NoLostWakeup, Fresh, Idle, AcksRead, Park
  <2> QED BY <2>1, <2>2
<1> QED BY <1>1, <1>2, <1>3, <1>4, <1>5

\* A thread reads one of its own lists.
LEMMA ReadSafe ==
  ASSUME Safe, NEW t \in Thread, AckRemove(t) \/ Receive(t)
  PROVE  Safe'
<1> USE DEF Safe, message
<1>1. CASE AckRemove(t)
  <2>1. TypeOK'
    BY <1>1 DEF TypeOK, AckRemove
  <2>2. NoLostWakeup' /\ Fresh' /\ Idle' /\ AcksRead'
    BY <1>1 DEF TypeOK, NoLostWakeup, Fresh, Idle, AcksRead, AckRemove
  <2> QED BY <2>1, <2>2
<1>2. CASE Receive(t)
  <2> DEFINE m == Head(rxList[t])
  <2>1. m \in Msg /\ Tail(rxList[t]) \in Seq(Msg)
    BY <1>2 DEF TypeOK, Receive
  <2>2. Counted(m) \in Nat /\ dstList[m] \in SUBSET Thread /\ Unfreed(m) \in SUBSET Thread
    BY <2>1, ConstantTypes DEF TypeOK, Counted, Unfreed
  <2>3. /\ rxCount' = [rxCount EXCEPT ![m] = Counted(m)]
        /\ dstList' = [dstList EXCEPT ![m] = IF Completes(m) THEN Unfreed(m) ELSE dstList[m]]
        /\ current' = [current EXCEPT ![t] = m]
        /\ rxList' = [rxList EXCEPT ![t] = Tail(@)]
        /\ pc[t] = "drainRx" /\ pc' \in {pc, [pc EXCEPT ![t] = "ackSource"]}
        /\ UNCHANGED <<flag, txList, ackList, sendAt, added, drained>>
    <3>1. pc' = pc \/ pc' = [pc EXCEPT ![t] = "ackSource"]
      BY <1>2 DEF Receive, TypeOK
    <3> QED BY <1>2, <3>1 DEF Receive
  <2> HIDE DEF m
  <2>4. TypeOK'
    BY <2>1, <2>2, <2>3 DEF TypeOK, PC
  <2>5. NoLostWakeup' /\ Fresh' /\ Idle' /\ AcksRead'
    BY <2>3 DEF TypeOK, NoLostWakeup, Fresh, Idle, AcksRead
  <2> QED BY <2>4, <2>5
<1> QED BY <1>1, <1>2

\* An acknowledgement or a message reaches a thread that does not hold its
\* lock: if it waited, it is woken.
LEMMA HandOver ==
  ASSUME Safe, NEW d \in Thread, Registered(d), ~Running(d),
         NEW rx \in Seq(Msg), NEW ack \in Seq(Msg),
         NEW p \in [Thread -> PC], p[d] = pc[d],
         \A t \in Thread : p[t] = pc[t] \/ (pc[t] = "ackSource" /\ p[t] = "drainRx"),
         rxList' = [rxList EXCEPT ![d] = rx], ackList' = [ackList EXCEPT ![d] = ack],
         flag' = [flag EXCEPT ![d] = TRUE], pc' = Signalled(d, p), drained' = drained
  PROVE  /\ pc' \in [Thread -> PC] /\ flag' \in [Thread -> BOOLEAN]
         /\ rxList' \in [Thread -> Seq(Msg)] /\ ackList' \in [Thread -> Seq(Msg)]
         /\ NoLostWakeup' /\ Fresh' /\ Idle' /\ AcksRead'
<1>1. pc[d] \in {"started", "waiting", "signalled"}
  BY DEF Safe, TypeOK, PC, Registered, Running
<1>2. /\ pc' \in [Thread -> PC]
      /\ pc'[d] \in {"started", "signalled"} /\ (pc'[d] = "started" => pc[d] = "started")
      /\ \A t \in Thread : t # d => pc'[t] = p[t]
  BY <1>1 DEF Signalled, PC
<1>3. /\ flag' \in [Thread -> BOOLEAN]
      /\ rxList' \in [Thread -> Seq(Msg)] /\ ackList' \in [Thread -> Seq(Msg)]
      /\ flag'[d]
      /\ \A t \in Thread : t # d => flag'[t] = flag[t] /\ rxList'[t] = rxList[t] /\ ackList'[t] = ackList[t]
  BY DEF Safe, TypeOK
<1>4. ASSUME NEW t \in Thread, t # d
      PROVE  /\ pc'[t] = pc[t] \/ (pc[t] = "ackSource" /\ pc'[t] = "drainRx")
             /\ flag'[t] = flag[t] /\ rxList'[t] = rxList[t] /\ ackList'[t] = ackList[t]
  BY <1>2, <1>3, <1>4
<1>5. NoLostWakeup'
  <2> SUFFICES ASSUME NEW t \in Thread, pc'[t] = "waiting", drained'[t]
               PROVE  ~flag'[t] /\ rxList'[t] = <<>> /\ ackList'[t] = <<>>
    BY DEF NoLostWakeup
  <2>1. t # d
    BY <1>2
  <2> QED BY <1>4, <2>1 DEF Safe, NoLostWakeup
<1>6. Idle'
  <2> SUFFICES ASSUME NEW t \in Thread, pc'[t] = "signalled", drained'[t], ~flag'[t]
               PROVE  rxList'[t] = <<>> /\ ackList'[t] = <<>>
    BY DEF Idle
  <2>1. t # d
    BY <1>3
  <2> QED BY <1>4, <2>1 DEF Safe, Idle
<1>7. Fresh'
  BY <1>2, <1>4 DEF Safe, Fresh
<1>8. AcksRead'
  BY <1>2, <1>4 DEF Safe, AcksRead
<1> QED BY <1>2, <1>3, <1>5, <1>6, <1>7, <1>8

LEMMA AckSourceSafe ==
  ASSUME Safe, NEW t \in Thread, AckSource(t)
  PROVE  Safe'
<1> DEFINE m == current[t]
<1> DEFINE s == Src[m]
<1> DEFINE p == [pc EXCEPT ![t] = "drainRx"]
<1>1. m \in Msg /\ s \in Thread
  BY ConstantTypes DEF Safe, TypeOK
<1>2. /\ pc[t] = "ackSource" /\ Registered(s) /\ ~Running(s) /\ t # s
      /\ txList' = [txList EXCEPT ![s] = @ \ {m}]
      /\ ackList' = [ackList EXCEPT ![s] = Append(ackList[s], m)]
      /\ flag' = [flag EXCEPT ![s] = TRUE] /\ pc' = Signalled(s, p)
      /\ UNCHANGED <<rxList, message, current, drained>>
  BY DEF AckSource, Running
<1> HIDE DEF m, s
<1>3. /\ p \in [Thread -> PC] /\ p[s] = pc[s]
      /\ \A u \in Thread : p[u] = pc[u] \/ (pc[u] = "ackSource" /\ p[u] = "drainRx")
  BY <1>1, <1>2 DEF Safe, TypeOK, PC
<1>4. /\ rxList[s] \in Seq(Msg) /\ Append(ackList[s], m) \in Seq(Msg)
      /\ rxList' = [rxList EXCEPT ![s] = rxList[s]]
  BY <1>1, <1>2 DEF Safe, TypeOK
<1> HIDE DEF p
<1>5. /\ pc' \in [Thread -> PC] /\ flag' \in [Thread -> BOOLEAN]
      /\ rxList' \in [Thread -> Seq(Msg)] /\ ackList' \in [Thread -> Seq(Msg)]
      /\ NoLostWakeup' /\ Fresh' /\ Idle' /\ AcksRead'
  BY <1>1, <1>2, <1>3, <1>4, HandOver
<1>6. TypeOK'
  BY <1>1, <1>2, <1>5 DEF Safe, TypeOK, message
<1> QED BY <1>5, <1>6 DEF Safe

\* The steps of a sender.
LEMMA SendSafe ==
  ASSUME Safe, NEW m \in Msg, BeginSend(m) \/ Deliver(m) \/ EndSend(m)
  PROVE  Safe'
<1>1. CASE BeginSend(m)
  <2>1. TypeOK'
    BY SMTT(60), <1>1, ConstantTypes DEF Safe, TypeOK, BeginSend
  <2>2. NoLostWakeup' /\ Fresh' /\ Idle' /\ AcksRead'
    BY <1>1 DEF Safe, NoLostWakeup, Fresh, Idle, AcksRead, BeginSend
  <2> QED BY <2>1, <2>2 DEF Safe
<1>2. CASE Deliver(m)
  <2> DEFINE d == Dst[m][sendAt[m]]
  <2>1. d \in Thread /\ sendAt[m] \in Nat
    BY SMTT(60), <1>2, ConstantTypes DEF Deliver, Safe, TypeOK
  <2>2. UNCHANGED <<txList, ackList, dstList, rxCount, current, drained>>
        /\ sendAt' = [sendAt EXCEPT ![m] = @ + 1]
    BY <1>2 DEF Deliver
  <2>3. CASE Registered(d)
    <3>1. /\ ~Running(d) /\ flag' = [flag EXCEPT ![d] = TRUE] /\ pc' = Signalled(d, pc)
          /\ rxList' = [rxList EXCEPT ![d] = Append(rxList[d], m)]
          /\ added' = [added EXCEPT ![m] = TRUE]
      BY Zenon, <1>2, <2>3 DEF Deliver
    <3> HIDE DEF d
    <3>2. /\ pc \in [Thread -> PC] /\ Append(rxList[d], m) \in Seq(Msg) /\ ackList[d] \in Seq(Msg)
          /\ ackList' = [ackList EXCEPT ![d] = ackList[d]] /\ drained' = drained
      BY <2>1, <2>2 DEF Safe, TypeOK
    <3>3. /\ pc' \in [Thread -> PC] /\ flag' \in [Thread -> BOOLEAN]
          /\ rxList' \in [Thread -> Seq(Msg)] /\ ackList' \in [Thread -> Seq(Msg)]
          /\ NoLostWakeup' /\ Fresh' /\ Idle' /\ AcksRead'
      BY <2>1, <2>3, <3>1, <3>2, HandOver
    <3>4. TypeOK'
      BY SMTT(60), <2>1, <2>2, <3>1, <3>3 DEF Safe, TypeOK
    <3> QED BY Zenon, <3>3, <3>4 DEF Safe
  <2>4. CASE ~Registered(d)
    <3>1. UNCHANGED <<rxList, flag, pc, added>>
      BY <1>2, <2>4 DEF Deliver
    <3>2. TypeOK'
      BY <2>1, <2>2, <3>1 DEF Safe, TypeOK
    <3>3. NoLostWakeup' /\ Fresh' /\ Idle' /\ AcksRead'
      BY <2>2, <3>1 DEF Safe, NoLostWakeup, Fresh, Idle, AcksRead
    <3> QED BY <3>2, <3>3 DEF Safe
  <2> QED BY <2>3, <2>4
<1>3. CASE EndSend(m)
  <2>1. TypeOK'
    <3>1. txList' \in [Thread -> SUBSET Msg]
      BY <1>3, ConstantTypes DEF Safe, TypeOK, EndSend
    <3> QED BY <1>3, <3>1 DEF Safe, TypeOK, EndSend
  <2>2. NoLostWakeup' /\ Fresh' /\ Idle' /\ AcksRead'
    BY <1>3 DEF Safe, NoLostWakeup, Fresh, Idle, AcksRead, EndSend
  <2> QED BY <2>1, <2>2 DEF Safe
<1> QED BY <1>1, <1>2, <1>3

LEMMA NextSafe == Safe /\ [Next]_vars => Safe'
<1> SUFFICES ASSUME Safe, [Next]_vars PROVE Safe'
  OBVIOUS
<1>1. CASE \E t \in Thread : ThreadStep(t) \/ SpuriousWake(t)
  BY <1>1, QuietSafe, ReadSafe, AckSourceSafe DEF ThreadStep
<1>2. CASE \E m \in Msg : BeginSend(m) \/ SendStep(m)
  BY <1>2, SendSafe DEF SendStep
<1>3. CASE UNCHANGED vars
  BY <1>3 DEF vars, Safe, TypeOK, NoLostWakeup, Fresh, Idle, AcksRead
<1> QED BY <1>1, <1>2, <1>3 DEF Next

LEMMA AlwaysSafe == Spec => []Safe
BY InitSafe, NextSafe, PTL DEF Spec

\* The lists, flags and counters of threads and messages stay well-typed:
\* whatever the threads do, every entry of a list is a message.
THEOREM TypeCorrect == Spec => []TypeOK
<1>1. Safe => TypeOK
  BY DEF Safe
<1> QED BY <1>1, AlwaysSafe, PTL

\* However many threads and messages there are, a thread that parked with its
\* lists read never sleeps on a message, an acknowledgement or a set flag.
THEOREM WakeupsKept == Spec => []NoLostWakeup
<1>1. Safe => NoLostWakeup
  BY DEF Safe
<1> QED BY <1>1, AlwaysSafe, PTL

-----------------------------------------------------------------------------
(***************************************************************************)
(* Proofs about MessageQueue: an acknowledgement means that all have read, *)
(* and no message is twice on a list, for every set of threads, messages   *)
(* and destinations.  What makes both true is a count: each message has    *)
(* been read by as many receivers, and is on the lists of as many, as the  *)
(* send has handed it to; so the reader that finds the count complete is   *)
(* the last, and no other thread has the message.                          *)
(***************************************************************************)

\* The threads that have message m on their oRxList, and those that are on
\* their way to its source with it.
Readers(m) == {t \in Thread : m \in ToSet(rxList[t])}
Tellers(m) == {t \in Thread : pc[t] = "ackSource" /\ current[t] = m}

\* How many destinations xMessage_send has dealt with.
Handed(m) == IF sendAt[m] = 0 THEN Len(Dst[m]) ELSE sendAt[m] - 1

OnTx(m) == m \in txList[Src[m]]
OnAck(m) == m \in ToSet(ackList[Src[m]])

\* The message goes only to threads that the send has come to, and has been
\* read or is still to be read by no more than that.
Counts(m) ==
  /\ sendAt[m] \in 0 .. Len(Dst[m]) + 1
  /\ \A t \in Readers(m) : \E j \in 1 .. Handed(m) : Dst[m][j] = t
  /\ rxCount[m] + Cardinality(Readers(m)) <= Handed(m)
  /\ sendAt[m] # 0 /\ (rxCount[m] > 0 \/ Readers(m) # {}) => added[m]

\* Until the last has read it, its destinations are the ones it began with,
\* and it is on the list of its source.
Pending(m) ==
  Readers(m) # {} \/ sendAt[m] \in 1 .. Len(Dst[m]) => dstList[m] = ToSet(Dst[m]) /\ OnTx(m)

\* One thread at most takes it back, when all have read it.
Returning(m) ==
  /\ \A t, u \in Tellers(m) : t = u
  /\ Tellers(m) # {} => rxCount[m] = Len(Dst[m]) /\ OnTx(m)

Returned(m) == OnAck(m) => rxCount[m] = Len(Dst[m]) /\ ~OnTx(m)

Sound(m) == Counts(m) /\ Pending(m) /\ Returning(m) /\ Returned(m)

\* Each list holds a message once, and a queue gets back what was sent from it.
Once(t) ==
  /\ IsInjective(rxList[t]) /\ IsInjective(ackList[t])
  /\ \A m \in ToSet(ackList[t]) : Src[m] = t

Whole == TypeOK /\ (\A m \in Msg : Sound(m)) /\ (\A t \in Thread : Once(t))

-----------------------------------------------------------------------------
(* Facts about sequences without repetitions and about the destinations.   *)

LEMMA TailOnce ==
  ASSUME NEW S, NEW s \in Seq(S), s # <<>>, IsInjective(s)
  PROVE  /\ Head(s) \in ToSet(s) /\ IsInjective(Tail(s))
         /\ ToSet(Tail(s)) = ToSet(s) \ {Head(s)}
<1>1. /\ Tail(s) \in Seq(S) /\ Len(Tail(s)) = Len(s) - 1 /\ Len(s) \in Nat \ {0}
      /\ \A i \in 1 .. Len(s) - 1 : Tail(s)[i] = s[i + 1]
  BY HeadTailProperties, EmptySeq
<1>2. DOMAIN s = 1 .. Len(s) /\ DOMAIN Tail(s) = 1 .. Len(s) - 1 /\ Head(s) = s[1]
  BY <1>1
<1>3. IsInjective(Tail(s))
  BY <1>1, <1>2 DEF IsInjective
<1>4. ASSUME NEW e \in ToSet(Tail(s)) PROVE e \in ToSet(s) \ {Head(s)}
  <2>1. PICK i \in 1 .. Len(s) - 1 : Tail(s)[i] = e
    BY <1>2, <1>4 DEF ToSet
  <2>2. i + 1 \in DOMAIN s /\ 1 \in DOMAIN s /\ i + 1 # 1 /\ s[i + 1] = e
    BY <1>1, <1>2, <2>1
  <2> QED BY <1>2, <2>2 DEF ToSet, IsInjective
<1>5. ASSUME NEW e \in ToSet(s), e # Head(s) PROVE e \in ToSet(Tail(s))
  <2>1. PICK i \in 1 .. Len(s) : s[i] = e
    BY <1>2 DEF ToSet
  <2>2. i - 1 \in DOMAIN Tail(s) /\ Tail(s)[i - 1] = e
    BY <1>1, <1>2, <1>5, <2>1
  <2> QED BY <2>2 DEF ToSet
<1>6. Head(s) \in ToSet(s)
  BY <1>1, <1>2 DEF ToSet
<1> QED BY <1>3, <1>4, <1>5, <1>6

LEMMA AppendOnce ==
  ASSUME NEW S, NEW s \in Seq(S), NEW e \in S, IsInjective(s), e \notin ToSet(s)
  PROVE  IsInjective(Append(s, e)) /\ ToSet(Append(s, e)) = ToSet(s) \cup {e}
<1> DEFINE l == Append(s, e)
<1>1. /\ Len(s) \in Nat /\ DOMAIN s = 1 .. Len(s) /\ DOMAIN l = 1 .. Len(s) + 1
      /\ l[Len(s) + 1] = e /\ \A i \in 1 .. Len(s) : l[i] = s[i]
  OBVIOUS
<1> HIDE DEF l
<1>2. \A i \in 1 .. Len(s) : s[i] # e
  BY <1>1 DEF ToSet
<1>3. IsInjective(l)
  BY <1>1, <1>2 DEF IsInjective
<1>4. ToSet(l) = ToSet(s) \cup {e}
  <2>1. \A x \in ToSet(l) : x \in ToSet(s) \cup {e}
    BY <1>1 DEF ToSet
  <2>2. \A x \in ToSet(s) : x \in ToSet(l)
    BY <1>1 DEF ToSet
  <2>3. e \in ToSet(l)
    BY <1>1 DEF ToSet
  <2> QED BY <2>1, <2>2, <2>3
<1> QED BY <1>3, <1>4 DEF l

\* A message has as many destinations as its list is long.
LEMMA DstCount ==
  ASSUME NEW m \in Msg
  PROVE  IsFiniteSet(ToSet(Dst[m])) /\ Cardinality(ToSet(Dst[m])) = Len(Dst[m])
<1> DEFINE n == Len(Dst[m])
<1> DEFINE T == ToSet(Dst[m])
<1>1. n \in Nat /\ DOMAIN Dst[m] = 1 .. n /\ IsInjective(Dst[m])
  BY MessageQueueAssumption
<1>2. T = {Dst[m][i] : i \in 1 .. n} /\ Dst[m] \in [1 .. n -> T]
  BY <1>1, MessageQueueAssumption DEF ToSet
<1>3. Dst[m] \in Surjection(1 .. n, T)
  BY <1>2 DEF Surjection
<1>4. Dst[m] \in Injection(1 .. n, T)
  BY <1>1, <1>2 DEF Injection, IsInjective
<1>5. IsFiniteSet(1 .. n) /\ Cardinality(1 .. n) = n
  BY <1>1, FS_Interval
<1> HIDE DEF n, T
<1>6. IsFiniteSet(T) /\ Cardinality(T) = n
  BY <1>3, <1>4, <1>5, FS_Surjection
<1> QED BY <1>6 DEF n, T

\* Few have a message: the readers are among the destinations.
LEMMA ReadersCount ==
  ASSUME TypeOK, NEW m \in Msg, Counts(m)
  PROVE  /\ IsFiniteSet(Readers(m)) /\ Cardinality(Readers(m)) \in Nat
         /\ Readers(m) = {} <=> Cardinality(Readers(m)) = 0
         /\ Handed(m) \in 0 .. Len(Dst[m]) /\ rxCount[m] \in Nat /\ Len(Dst[m]) \in Nat \ {0}
<1>1. /\ Len(Dst[m]) \in Nat \ {0} /\ DOMAIN Dst[m] = 1 .. Len(Dst[m])
      /\ rxCount[m] \in Nat /\ sendAt[m] \in 0 .. Len(Dst[m]) + 1
  BY MessageQueueAssumption DEF TypeOK, Counts
<1>2. Handed(m) \in 0 .. Len(Dst[m])
  BY <1>1 DEF Handed
<1>3. Readers(m) \subseteq ToSet(Dst[m])
  BY <1>1, <1>2 DEF Counts, ToSet
<1>4. IsFiniteSet(Readers(m))
  BY <1>3, DstCount, FS_Subset
<1> QED BY <1>1, <1>2, <1>4, FS_CardinalityType, FS_EmptySet

\* A message that a step is not about, or that it only takes off a list of
\* acknowledgements or leaves to be told of later.
LEMMA Apart ==
  ASSUME NEW m \in Msg, Sound(m),
         Readers(m)' = Readers(m), Tellers(m)' \subseteq Tellers(m),
         rxCount'[m] = rxCount[m], sendAt'[m] = sendAt[m],
         added'[m] = added[m], dstList'[m] = dstList[m],
         OnTx(m)' <=> OnTx(m), OnAck(m)' => OnAck(m)
  PROVE  Sound(m)'
<1>1. Handed(m)' = Handed(m)
  BY DEF Handed
<1>2. Counts(m)'
  BY <1>1 DEF Sound, Counts
<1>3. Pending(m)' /\ Returning(m)' /\ Returned(m)'
  BY DEF Sound, Pending, Returning, Returned
<1> QED BY <1>2, <1>3 DEF Sound

-----------------------------------------------------------------------------
(* The steps.                                                              *)

LEMMA InitWhole == Init => Whole
<1> SUFFICES ASSUME Init PROVE Whole
  OBVIOUS
<1>1. TypeOK
  BY InitSafe DEF Safe
<1>2. ASSUME NEW t \in Thread PROVE Once(t) /\ ToSet(rxList[t]) = {} /\ ToSet(ackList[t]) = {}
  BY DEF Init, Once, IsInjective, ToSet
<1>3. ASSUME NEW m \in Msg PROVE Sound(m)
  <2>1. Readers(m) = {} /\ Tellers(m) = {} /\ ~OnAck(m) /\ sendAt[m] = 0 /\ rxCount[m] = 0
    BY <1>2, ConstantTypes DEF Init, Readers, Tellers, OnAck
  <2>2. Len(Dst[m]) \in Nat \ {0} /\ Cardinality(Readers(m)) = 0 /\ Handed(m) = Len(Dst[m])
    BY <2>1, FS_EmptySet, MessageQueueAssumption DEF Handed
  <2>3. Counts(m)
    BY <2>1, <2>2 DEF Counts
  <2>4. Pending(m) /\ Returning(m) /\ Returned(m)
    BY <2>1, <2>2 DEF Pending, Returning, Returned
  <2> QED BY <2>3, <2>4 DEF Sound
<1> QED BY <1>1, <1>2, <1>3 DEF Whole

\* The steps of a thread that put nothing on a list and take no message.
LEMMA QuietWhole ==
  ASSUME Whole, TypeOK', NEW t \in Thread,
         \/ Start(t) \/ Register(t) \/ FirstWait(t) \/ SpuriousWake(t) \/ Resume(t)
         \/ AcksDone(t) \/ GiveUp(t) \/ Park(t) \/ AckRemove(t)
  PROVE  Whole'
<1>1. /\ pc' \in [Thread -> PC] /\ \A u \in Thread : pc'[u] = "ackSource" => pc[u] = "ackSource"
      /\ UNCHANGED <<txList, rxList, dstList, rxCount, sendAt, added, current>>
  BY ZenonT(60) DEF Whole, TypeOK, PC, lists, message, Start, Register, FirstWait, SpuriousWake, Resume,
         AcksDone, GiveUp, Park, AckRemove
<1>2. ASSUME NEW u \in Thread
      PROVE  IsInjective(ackList[u]) => IsInjective(ackList'[u]) /\ ToSet(ackList'[u]) \subseteq ToSet(ackList[u])
  <2>1. CASE ackList'[u] = ackList[u]
    BY <2>1
  <2>2. CASE ackList'[u] # ackList[u]
    <3>1. AckRemove(t) /\ u = t /\ ackList[t] # <<>> /\ ackList'[t] = Tail(ackList[t]) /\ ackList[t] \in Seq(Msg)
      BY <2>2 DEF Whole, TypeOK, lists, Start, Register, FirstWait, SpuriousWake, Resume,
                  AcksDone, GiveUp, Park, AckRemove
    <3> QED BY <3>1, TailOnce
  <2> QED BY <2>1, <2>2
<1>3. ASSUME NEW u \in Thread PROVE Once(u)'
  BY <1>1, <1>2 DEF Whole, Once
<1>4. ASSUME NEW m \in Msg PROVE Sound(m)'
  <2>1. Readers(m)' = Readers(m) /\ Tellers(m)' \subseteq Tellers(m)
    BY <1>1 DEF Readers, Tellers
  <2>2. (OnTx(m)' <=> OnTx(m)) /\ (OnAck(m)' => OnAck(m))
    BY <1>1, <1>2, ConstantTypes DEF OnTx, OnAck, Whole, Once
  <2> QED BY <1>1, <2>1, <2>2, Apart DEF Whole
<1> QED BY <1>3, <1>4 DEF Whole

\* A receiver reads a message: the count of those that have it stays, and if
\* it was the last, it is the one that takes it back.
LEMMA ReceiveWhole ==
  ASSUME Whole, TypeOK', NEW t \in Thread, Receive(t)
  PROVE  Whole'
<1>0. Head(rxList[t]) \in Msg
  BY HeadTailProperties DEF Receive, Whole, TypeOK
<1> PICK m \in Msg : m = Head(rxList[t])
  BY <1>0
<1> DEFINE n == Len(Dst[m])
<1>1. /\ m \in Msg /\ rxList[t] \in Seq(Msg) /\ m \in ToSet(rxList[t])
      /\ IsInjective(Tail(rxList[t])) /\ ToSet(Tail(rxList[t])) = ToSet(rxList[t]) \ {m}
  BY HeadTailProperties, TailOnce DEF Receive, Whole, Once, TypeOK
<1>2. /\ rxCount' = [rxCount EXCEPT ![m] = rxCount[m] + 1]
      /\ ~Completes(m) => dstList' = [dstList EXCEPT ![m] = dstList[m]] /\ pc' = pc
      /\ \A k \in Msg : k # m => dstList'[k] = dstList[k]
      /\ current' = [current EXCEPT ![t] = m] /\ rxList' = [rxList EXCEPT ![t] = Tail(rxList[t])]
      /\ pc[t] = "drainRx" /\ (pc' = pc \/ pc' = [pc EXCEPT ![t] = "ackSource"])
      /\ UNCHANGED <<txList, ackList, sendAt, added>>
  BY ZenonT(60), <1>1 DEF Receive, Counted, Whole, TypeOK
<1>3. ASSUME NEW u \in Thread PROVE Once(u)'
  BY ZenonT(60), <1>1, <1>2 DEF Whole, Once, TypeOK
<1>4. ASSUME NEW k \in Msg PROVE (OnTx(k)' <=> OnTx(k)) /\ (OnAck(k)' <=> OnAck(k))
  BY <1>2 DEF OnTx, OnAck
<1>5. ASSUME NEW k \in Msg, k # m PROVE Sound(k)'
  <2>1. Readers(k)' = Readers(k)
    BY <1>1, <1>2, <1>5 DEF Readers, Whole, TypeOK
  <2>2. Tellers(k)' \subseteq Tellers(k)
    BY SMTT(60), <1>2, <1>5 DEF Tellers, Whole, TypeOK
  <2> QED BY ZenonT(60), <1>1, <1>2, <1>4, <1>5, <2>1, <2>2, Apart DEF Whole, TypeOK
<1>6. Sound(m)'
  <2>1. t \in Readers(m) /\ Readers(m)' = Readers(m) \ {t}
    BY <1>1, <1>2 DEF Readers, Whole, TypeOK
  <2>2. Sound(m) /\ Counts(m)
    BY <1>1 DEF Whole, Sound
  <2>3. /\ IsFiniteSet(Readers(m)) /\ Cardinality(Readers(m)) \in Nat /\ Cardinality(Readers(m)) # 0
        /\ Handed(m) \in 0 .. n /\ rxCount[m] \in Nat /\ n \in Nat \ {0}
        /\ Cardinality(Readers(m)') = Cardinality(Readers(m)) - 1
        /\ Readers(m)' = {} <=> Cardinality(Readers(m)') = 0
    BY <1>1, <2>1, <2>2, ReadersCount, FS_RemoveElement, FS_EmptySet DEF Whole
  <2>4. rxCount'[m] = rxCount[m] + 1 /\ sendAt'[m] = sendAt[m] /\ added'[m] = added[m] /\ Handed(m)' = Handed(m)
    BY <1>1, <1>2 DEF Whole, TypeOK, Handed
  <2> HIDE DEF n
  <2>5. dstList[m] = ToSet(Dst[m]) /\ OnTx(m) /\ rxCount[m] < n /\ Tellers(m) = {} /\ ~OnAck(m)
    <3>1. dstList[m] = ToSet(Dst[m]) /\ OnTx(m)
      BY <2>1, <2>2 DEF Sound, Pending
    <3>2. rxCount[m] < n
      BY <2>2, <2>3 DEF Counts
    <3> QED BY <2>2, <2>3, <3>1, <3>2 DEF Sound, Returning, Returned, n
  <2>6. Counts(m)'
    <3>1. \A u \in Readers(m)' : \E j \in 1 .. Handed(m)' : Dst[m][j] = u
      BY <2>1, <2>2, <2>4 DEF Counts
    <3>2. rxCount'[m] + Cardinality(Readers(m)') <= Handed(m)'
      BY <2>2, <2>3, <2>4 DEF Counts
    <3>3. sendAt'[m] # 0 => added'[m]
      BY <2>1, <2>2, <2>4 DEF Counts
    <3> QED BY <2>2, <2>4, <3>1, <3>2, <3>3 DEF Counts
  <2>7. Completes(m) <=> rxCount'[m] = n
    BY <1>1, <2>3, <2>4, <2>5, DstCount DEF Completes, Counted, n
  <2>8. Pending(m)'
    <3> SUFFICES ASSUME Readers(m)' # {} \/ sendAt[m] \in 1 .. n
                 PROVE  dstList'[m] = ToSet(Dst[m]) /\ OnTx(m)'
      BY <2>4 DEF Pending, n
    <3>1. Cardinality(Readers(m)') \in Nat /\ (Readers(m)' = {} => Handed(m) < n)
      BY <2>1, <2>3 DEF Handed
    <3>2. rxCount'[m] < n
      BY SMTT(60), <2>3, <2>4, <2>6, <3>1 DEF Counts
    <3>3. dstList'[m] = dstList[m]
      BY <1>1, <1>2, <2>7, <3>2 DEF Whole, TypeOK
    <3> QED BY <1>1, <1>4, <2>5, <3>3
  <2>9. Returning(m)' /\ Returned(m)'
    <3>1. Tellers(m)' \subseteq {t}
      BY ZenonT(60), <1>2, <2>5 DEF Tellers, Whole, TypeOK
    <3>2. Tellers(m)' # {} => Completes(m)
      BY <1>2, <2>5, <3>1 DEF Tellers, Whole, TypeOK
    <3>3. Returning(m)'
      BY <1>1, <1>4, <2>5, <2>7, <3>1, <3>2 DEF Returning, n
    <3>4. Returned(m)'
      BY <1>1, <1>4, <2>5 DEF Returned
    <3> QED BY <3>3, <3>4
  <2> QED BY <2>6, <2>8, <2>9 DEF Sound
<1> QED BY <1>3, <1>5, <1>6 DEF Whole

\* The message goes back to its source: from the one list to the other.
LEMMA AckSourceWhole ==
  ASSUME Whole, TypeOK', NEW t \in Thread, AckSource(t)
  PROVE  Whole'
<1>0. current[t] \in Msg
  BY DEF Whole, TypeOK
<1> PICK m \in Msg : m = current[t]
  BY <1>0
<1> DEFINE s == Src[m]
<1>1. /\ s \in Thread /\ pc[t] = "ackSource" /\ t \in Tellers(m)
      /\ txList' = [txList EXCEPT ![s] = txList[s] \ {m}]
      /\ ackList' = [ackList EXCEPT ![s] = Append(ackList[s], m)]
      /\ pc' = Signalled(s, [pc EXCEPT ![t] = "drainRx"])
      /\ UNCHANGED <<rxList, dstList, rxCount, sendAt, added, current>>
  BY ConstantTypes DEF AckSource, Tellers, message
<1>2. Sound(m) /\ OnTx(m) /\ rxCount[m] = Len(Dst[m]) /\ Tellers(m) = {t} /\ ~OnAck(m)
  BY <1>1 DEF Whole, Sound, Returning, Returned
<1>3. /\ IsInjective(ackList'[s]) /\ ToSet(ackList'[s]) = ToSet(ackList[s]) \cup {m}
      /\ \A u \in Thread : u # s => ackList'[u] = ackList[u]
  BY <1>1, <1>2, AppendOnce DEF Whole, TypeOK, Once, OnAck
<1>4. ASSUME NEW u \in Thread PROVE Once(u)'
  BY <1>1, <1>3 DEF Whole, Once
<1>5. \A u \in Thread : pc'[u] = "ackSource" => pc[u] = "ackSource" /\ u # t
  BY <1>1 DEF Signalled, Whole, TypeOK
<1>6. ASSUME NEW k \in Msg PROVE Readers(k)' = Readers(k) /\ Tellers(k)' \subseteq Tellers(k) \ {t}
  BY <1>1, <1>5 DEF Readers, Tellers
<1>7. ASSUME NEW k \in Msg, k # m PROVE Sound(k)'
  <2>1. OnTx(k)' <=> OnTx(k)
    BY <1>1, <1>7, ConstantTypes DEF OnTx, Whole, TypeOK
  <2>2. OnAck(k)' <=> OnAck(k)
    BY <1>3, <1>7, ConstantTypes DEF OnAck
  <2> QED BY <1>1, <1>6, <2>1, <2>2, Apart DEF Whole
<1>8. Sound(m)'
  <2>1. Handed(m)' = Handed(m)
    BY <1>1 DEF Handed
  <2>2. Counts(m) /\ Counts(m)'
    BY <1>1, <1>2, <1>6, <2>1 DEF Sound, Counts
  <2>3. Readers(m) = {} /\ sendAt[m] \notin 1 .. Len(Dst[m])
    BY SMTT(60), <1>2, <2>2, ReadersCount DEF Counts, Handed, Whole
  <2>4. Pending(m)'
    BY <1>1, <1>6, <2>3 DEF Pending
  <2>5. ~OnTx(m)'
    BY <1>1 DEF OnTx, Whole, TypeOK
  <2>6. Returning(m)' /\ Returned(m)'
    BY <1>1, <1>2, <1>6, <2>5 DEF Returning, Returned
  <2> QED BY <2>2, <2>4, <2>6 DEF Sound
<1> QED BY <1>4, <1>7, <1>8 DEF Whole

-----------------------------------------------------------------------------
(* A send begins when the message is nowhere, hands it to one destination   *)
(* after the other, and takes it back if none is there.                     *)

LEMMA BeginSendWhole ==
  ASSUME Whole, TypeOK', NEW m \in Msg, BeginSend(m)
  PROVE  Whole'
<1>1. /\ Src[m] \in Thread /\ sendAt[m] = 0 /\ ~OnTx(m) /\ ~OnAck(m) /\ Readers(m) = {}
      /\ txList' = [txList EXCEPT ![Src[m]] = txList[Src[m]] \cup {m}]
      /\ dstList' = [dstList EXCEPT ![m] = ToSet(Dst[m])] /\ rxCount' = [rxCount EXCEPT ![m] = 0]
      /\ sendAt' = [sendAt EXCEPT ![m] = 1] /\ added' = [added EXCEPT ![m] = FALSE]
      /\ UNCHANGED <<pc, rxList, ackList, current>>
  BY ConstantTypes DEF BeginSend, InUse, OnTx, OnAck, Readers
<1>2. \A k \in Msg : Readers(k)' = Readers(k) /\ Tellers(k)' = Tellers(k) /\ (OnAck(k)' <=> OnAck(k))
  BY <1>1 DEF Readers, Tellers, OnAck
<1>3. ASSUME NEW u \in Thread PROVE Once(u)'
  BY <1>1 DEF Whole, Once
<1>4. ASSUME NEW k \in Msg, k # m PROVE Sound(k)'
  <2>1. OnTx(k)' <=> OnTx(k)
    BY <1>1, <1>4, ConstantTypes DEF OnTx, Whole, TypeOK
  <2>2. /\ rxCount'[k] = rxCount[k] /\ sendAt'[k] = sendAt[k]
        /\ added'[k] = added[k] /\ dstList'[k] = dstList[k]
    BY <1>1, <1>4 DEF Whole, TypeOK
  <2> QED BY <1>2, <2>1, <2>2, Apart DEF Whole
<1>5. Sound(m)'
  <2>1. Tellers(m) = {} /\ Len(Dst[m]) \in Nat \ {0}
    BY <1>1, MessageQueueAssumption DEF Whole, Sound, Returning
  <2>2. rxCount'[m] = 0 /\ sendAt'[m] = 1 /\ dstList'[m] = ToSet(Dst[m])
    BY <1>1 DEF Whole, TypeOK
  <2>3. OnTx(m)' /\ Handed(m)' = 0 /\ Cardinality(Readers(m)') = 0
    <3>1. OnTx(m)'
      BY <1>1 DEF OnTx, Whole, TypeOK
    <3>2. Handed(m)' = 0
      BY <2>2 DEF Handed
    <3>3. Cardinality(Readers(m)') = 0
      BY <1>1, <1>2, FS_EmptySet
    <3> QED BY <3>1, <3>2, <3>3
  <2>4. Counts(m)'
    BY <1>1, <1>2, <2>1, <2>2, <2>3 DEF Counts
  <2>5. Pending(m)' /\ Returning(m)' /\ Returned(m)'
    BY <1>1, <1>2, <2>1, <2>2, <2>3 DEF Pending, Returning, Returned
  <2> QED BY <2>4, <2>5 DEF Sound
<1> QED BY <1>3, <1>4, <1>5 DEF Whole

LEMMA DeliverWhole ==
  ASSUME Whole, TypeOK', NEW m \in Msg, Deliver(m)
  PROVE  Whole'
<1> DEFINE n == Len(Dst[m])
<1> DEFINE d == Dst[m][sendAt[m]]
<1>1. /\ sendAt[m] \in 1 .. n /\ d \in Thread /\ n \in Nat \ {0}
      /\ sendAt' = [sendAt EXCEPT ![m] = sendAt[m] + 1]
      /\ UNCHANGED <<txList, ackList, dstList, rxCount, current>>
  BY ConstantTypes, MessageQueueAssumption DEF Deliver
<1>2. /\ Sound(m) /\ Counts(m) /\ dstList[m] = ToSet(Dst[m]) /\ OnTx(m)
      /\ Handed(m) = sendAt[m] - 1 /\ sendAt'[m] = sendAt[m] + 1 /\ Handed(m)' = Handed(m) + 1
  BY <1>1 DEF Whole, TypeOK, Sound, Pending, Handed
<1>3. \A k \in Msg : (OnTx(k)' <=> OnTx(k)) /\ (OnAck(k)' <=> OnAck(k))
  BY <1>1 DEF OnTx, OnAck
<1>4. /\ \A u \in Thread : pc'[u] = "ackSource" => pc[u] = "ackSource"
      /\ \A k \in Msg : k # m => added'[k] = added[k]
      /\ added'[m] = added[m] \/ added'[m] = TRUE
      /\ \A u \in Thread : u # d => rxList'[u] = rxList[u]
      /\ \/ rxList'[d] = rxList[d] /\ added'[m] = added[m]
         \/ rxList'[d] = Append(rxList[d], m) /\ added'[m] = TRUE
  <2>1. CASE Registered(d)
    <3>1. /\ rxList' = [rxList EXCEPT ![d] = Append(rxList[d], m)]
          /\ pc' = Signalled(d, pc) /\ added' = [added EXCEPT ![m] = TRUE]
      BY <2>1 DEF Deliver
    <3> HIDE DEF d
    <3>2. \A u \in Thread : pc'[u] = "ackSource" => pc[u] = "ackSource"
      BY SMTT(60), <3>1 DEF Signalled, Whole, TypeOK
    <3> QED BY ZenonT(60), <1>1, <3>1, <3>2 DEF Whole, TypeOK
  <2>2. CASE ~Registered(d)
    BY <2>2 DEF Deliver
  <2> QED BY <2>1, <2>2
<1>5. d \notin Readers(m)
  <2> SUFFICES ASSUME NEW j \in 1 .. Handed(m), Dst[m][j] = d PROVE FALSE
    BY <1>2 DEF Counts
  <2>1. DOMAIN Dst[m] = 1 .. n /\ j # sendAt[m] /\ j \in 1 .. n
    BY <1>1, <1>2, MessageQueueAssumption
  <2> QED BY <1>1, <2>1, MessageQueueAssumption DEF IsInjective
<1>6. /\ IsInjective(rxList'[d])
      /\ \/ ToSet(rxList'[d]) = ToSet(rxList[d]) /\ added'[m] = added[m]
         \/ ToSet(rxList'[d]) = ToSet(rxList[d]) \cup {m} /\ added'[m] = TRUE
  <2>1. m \notin ToSet(rxList[d]) /\ rxList[d] \in Seq(Msg) /\ IsInjective(rxList[d])
    BY <1>1, <1>5 DEF Readers, Whole, TypeOK, Once
  <2> HIDE DEF d
  <2>2. CASE rxList'[d] = rxList[d] /\ added'[m] = added[m]
    BY <2>1, <2>2
  <2>3. CASE rxList'[d] = Append(rxList[d], m) /\ added'[m] = TRUE
    BY <2>1, <2>3, AppendOnce
  <2> QED BY <1>4, <2>2, <2>3
<1>7. \A k \in Msg : Tellers(k)' \subseteq Tellers(k)
  BY <1>1, <1>4 DEF Tellers
<1> HIDE DEF d, n
<1>8. ASSUME NEW u \in Thread PROVE Once(u)'
  BY <1>1, <1>4, <1>6 DEF Whole, Once
<1>9. ASSUME NEW k \in Msg, k # m PROVE Sound(k)'
  <2>1. Readers(k)' = Readers(k)
    BY <1>4, <1>6, <1>9 DEF Readers
  <2> QED BY <1>1, <1>3, <1>4, <1>7, <1>9, <2>1, Apart DEF Whole, TypeOK
<1>10. Sound(m)'
  <2>1. \/ Readers(m)' = Readers(m) /\ added'[m] = added[m]
        \/ Readers(m)' = Readers(m) \cup {d} /\ added'[m] = TRUE
    BY <1>1, <1>4, <1>6 DEF Readers
  <2>2. /\ Cardinality(Readers(m)) \in Nat /\ rxCount[m] \in Nat /\ Handed(m) \in Nat
        /\ Cardinality(Readers(m)') \in {Cardinality(Readers(m)), Cardinality(Readers(m)) + 1}
    BY <1>2, <1>5, <2>1, ReadersCount, FS_AddElement DEF Whole
  <2>3. rxCount'[m] + Cardinality(Readers(m)') <= Handed(m)'
    BY <1>1, <1>2, <2>2 DEF Counts
  <2>4. \A u \in Readers(m)' : \E j \in 1 .. Handed(m)' : Dst[m][j] = u
    <3> SUFFICES ASSUME NEW u \in Readers(m)' PROVE \E j \in 1 .. Handed(m) + 1 : Dst[m][j] = u
      BY <1>2
    <3>1. CASE u = d
      BY <1>1, <1>2, <3>1, <2>2 DEF d
    <3>2. CASE u # d
      <4>1. PICK j \in 1 .. Handed(m) : Dst[m][j] = u
        BY <1>2, <2>1, <3>2 DEF Counts
      <4> QED BY <2>2, <4>1
    <3> QED BY <3>1, <3>2
  <2>5. Counts(m)'
    <3>1. sendAt'[m] \in 0 .. Len(Dst[m]) + 1
      BY <1>1, <1>2 DEF n
    <3>2. rxCount'[m] > 0 \/ Readers(m)' # {} => added'[m]
      BY <1>1, <1>2, <2>1 DEF Counts
    <3> QED BY <2>3, <2>4, <3>1, <3>2 DEF Counts
  <2>6. Pending(m)'
    BY <1>1, <1>2, <1>3 DEF Pending
  <2>7. Returning(m)' /\ Returned(m)'
    BY <1>1, <1>2, <1>3, <1>7 DEF Sound, Returning, Returned
  <2> QED BY <2>5, <2>6, <2>7 DEF Sound
<1> QED BY <1>8, <1>9, <1>10 DEF Whole

LEMMA EndSendWhole ==
  ASSUME Whole, TypeOK', NEW m \in Msg, EndSend(m)
  PROVE  Whole'
<1> DEFINE n == Len(Dst[m])
<1>1. /\ sendAt[m] = n + 1 /\ sendAt' = [sendAt EXCEPT ![m] = 0] /\ n \in Nat \ {0} /\ Src[m] \in Thread
      /\ txList' = IF added[m] THEN txList ELSE [txList EXCEPT ![Src[m]] = txList[Src[m]] \ {m}]
      /\ UNCHANGED <<pc, rxList, ackList, dstList, rxCount, added, current>>
  BY ConstantTypes, MessageQueueAssumption DEF EndSend
<1>2. \A k \in Msg : Readers(k)' = Readers(k) /\ Tellers(k)' = Tellers(k) /\ (OnAck(k)' <=> OnAck(k))
  BY <1>1 DEF Readers, Tellers, OnAck
<1>3. ASSUME NEW u \in Thread PROVE Once(u)'
  BY <1>1 DEF Whole, Once
<1>4. ASSUME NEW k \in Msg, k # m PROVE Sound(k)'
  <2>1. OnTx(k)' <=> OnTx(k)
    BY <1>1, <1>4, ConstantTypes DEF OnTx, Whole, TypeOK
  <2> QED BY ZenonT(60), <1>1, <1>2, <1>4, <2>1, Apart DEF Whole, TypeOK
<1>5. Sound(m)'
  <2>1. /\ Sound(m) /\ Counts(m) /\ sendAt'[m] = 0 /\ Handed(m) = n /\ Handed(m)' = n
        /\ rxCount[m] \in Nat
    BY <1>1 DEF Whole, TypeOK, Sound, Handed
  <2>2. /\ OnTx(m)' => OnTx(m)
        /\ Readers(m) # {} \/ rxCount[m] > 0 => (OnTx(m)' <=> OnTx(m))
    BY <1>1, <2>1 DEF Counts, OnTx, Whole, TypeOK
  <2>3. Counts(m)'
    BY <1>1, <1>2, <2>1 DEF Counts
  <2>4. Pending(m)'
    BY <1>1, <1>2, <2>1, <2>2 DEF Sound, Pending
  <2>5. Returning(m)' /\ Returned(m)'
    BY <1>1, <1>2, <2>1, <2>2 DEF Sound, Returning, Returned
  <2> QED BY <2>3, <2>4, <2>5 DEF Sound
<1> QED BY <1>3, <1>4, <1>5 DEF Whole

LEMMA NextWhole == Whole /\ TypeOK' /\ [Next]_vars => Whole'
<1> SUFFICES ASSUME Whole, TypeOK', [Next]_vars PROVE Whole'
  OBVIOUS
<1>1. CASE \E t \in Thread : ThreadStep(t) \/ SpuriousWake(t)
  BY <1>1, QuietWhole, ReceiveWhole, AckSourceWhole DEF ThreadStep
<1>2. CASE \E m \in Msg : BeginSend(m) \/ SendStep(m)
  BY <1>2, BeginSendWhole, DeliverWhole, EndSendWhole DEF SendStep
<1>3. CASE UNCHANGED vars
  <2>1. \A m \in Msg : /\ Readers(m)' = Readers(m) /\ Tellers(m)' = Tellers(m)
                       /\ (OnTx(m)' <=> OnTx(m)) /\ (OnAck(m)' <=> OnAck(m))
    BY <1>3 DEF vars, lists, Readers, Tellers, OnTx, OnAck
  <2>2. \A m \in Msg : Sound(m)'
    BY <1>3, <2>1, Apart DEF Whole, vars, message
  <2>3. \A t \in Thread : Once(t)'
    BY <1>3 DEF Whole, Once, vars, lists
  <2> QED BY <2>2, <2>3 DEF Whole
<1> QED BY <1>1, <1>2, <1>3 DEF Next

LEMMA AlwaysWhole == Spec => []Whole
<1>1. Spec => []TypeOK
  BY TypeCorrect
<1> QED BY <1>1, InitWhole, NextWhole, PTL DEF Spec

\* However many receivers a message has, and whichever of them were not up, a
\* message is acknowledged only when every destination has read it, none still
\* has it to read and the send is not handing it to one more.
THEOREM AckIsHonest == Spec => []AckMeansReceived
<1>1. Whole => AckMeansReceived
  <2> SUFFICES ASSUME Whole, NEW m \in Msg, m \in ToSet(ackList[Src[m]])
               PROVE  /\ rxCount[m] = Len(Dst[m]) /\ sendAt[m] \in {0, Len(Dst[m]) + 1}
                      /\ \A t \in Thread : m \notin ToSet(rxList[t])
    BY DEF AckMeansReceived
  <2>1. Counts(m) /\ rxCount[m] = Len(Dst[m])
    BY DEF Whole, Sound, Returned, OnAck
  <2>2. Readers(m) = {} /\ Handed(m) = Len(Dst[m]) /\ Len(Dst[m]) \in Nat
    BY <2>1, ReadersCount DEF Counts, Whole
  <2>3. sendAt[m] \in {0, Len(Dst[m]) + 1}
    BY <2>1, <2>2 DEF Counts, Handed
  <2> QED BY <2>1, <2>2, <2>3 DEF Readers
<1> QED BY <1>1, AlwaysWhole, PTL

\* A message has one queue node (oQNode): it is on the oTxList or the oAckList
\* of its source and never on both, and no receiver has a message twice.
THEOREM NoneTwice == Spec => []NoDuplicates
<1>1. Whole => NoDuplicates
  BY DEF Whole, Sound, Returned, OnTx, OnAck, Once, NoDuplicates
<1> QED BY <1>1, AlwaysWhole, PTL
=============================================================================
