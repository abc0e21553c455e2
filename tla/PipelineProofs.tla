--------------------------- MODULE PipelineProofs ---------------------------
(***************************************************************************)
(* Proofs about Pipeline, for any number of clients, any limit and any     *)
(* number of packets and frames: every variable keeps its type, and a      *)
(* receiving queue stays within its limit and holds the newest packets.    *)
(* The receivers are the hard part (their three calls leave the lock       *)
(* between one another); their facts are proved client by client.          *)
(***************************************************************************)
EXTENDS Pipeline, FiniteSetTheorems, SequenceTheorems, TLAPS

\* Frame numbers are natural numbers.
LEMMA FrameNumberType ==
  ASSUME NEW p \in Nat \ {0}, NEW j \in Nat
  PROVE  FrameNumber(p, j) \in Nat
<1>1. p - 1 \in Nat /\ FramesPerPacket \in Nat
  BY FrameAssumption
<1>2. (p - 1) * FramesPerPacket \in Nat
  BY <1>1
<1> QED
  BY <1>2 DEF FrameNumber

\* What taking the head off a queue gives and leaves.
LEMMA RemoveHead ==
  ASSUME NEW S, NEW q \in Seq(S), q # <<>>
  PROVE  /\ Head(q) \in S /\ Head(q) = q[1]
         /\ Tail(q) \in Seq(S)
         /\ Len(q) \in Nat /\ Len(q) > 0
         /\ Len(Tail(q)) = Len(q) - 1
         /\ \A i \in 1..Len(Tail(q)) : Tail(q)[i] = q[i + 1]
  BY HeadTailProperties, EmptySeq, ElementOfSeq

\* A run of consecutive numbers that ends at k still does without its head.
LEMMA RunLosesHead ==
  ASSUME NEW q \in Seq(Nat), q # <<>>, NEW k \in Int,
         \A i \in 1..Len(q) : q[i] = k - Len(q) + i
  PROVE  \A i \in 1..Len(Tail(q)) : Tail(q)[i] = k - Len(Tail(q)) + i
<1>1. /\ Len(q) \in Nat /\ Len(q) > 0 /\ Len(Tail(q)) = Len(q) - 1
      /\ \A i \in 1..Len(Tail(q)) : Tail(q)[i] = q[i + 1]
  BY RemoveHead
<1> QED
  BY <1>1

\* A run that ends at p - 1 ends at p once p is appended.
LEMMA RunGains ==
  ASSUME NEW q \in Seq(Nat), NEW p \in Nat,
         \A i \in 1..Len(q) : q[i] = (p - 1) - Len(q) + i
  PROVE  \A i \in 1..Len(Append(q, p)) :
            Append(q, p)[i] = p - Len(Append(q, p)) + i
<1>1. /\ Len(q) \in Nat
      /\ Len(Append(q, p)) = Len(q) + 1
      /\ Append(q, p)[Len(q) + 1] = p
      /\ \A i \in 1..Len(q) : Append(q, p)[i] = q[i]
  BY AppendProperties
<1> QED
  BY <1>1

-----------------------------------------------------------------------------
(* The receiving queues.                                                   *)

\* What the invariant says of one client's receiver and its queue.
ReceiverFacts(c) ==
  /\ Len(recvQ[c]) <= MAX_AV_PACKET_NUM
  /\ recvPc[c] = "insert" => Len(recvQ[c]) < MAX_AV_PACKET_NUM
  /\ \A i \in 1..Len(recvQ[c]) : recvQ[c][i] = Queued(c) - Len(recvQ[c]) + i

LEMMA ReceiverFactsAll ==
  (\A c \in Clients : ReceiverFacts(c))
    <=> RecvBounded /\ RecvRoom /\ NewestKept
  BY DEF ReceiverFacts, RecvBounded, RecvRoom, NewestKept

ReceiverTypes ==
  /\ recvQ \in [Clients -> Seq(Nat)]
  /\ recvPc \in [Clients -> {"recv", "check", "evict", "insert"}]
  /\ pktNum \in [Clients -> Nat]

\* A client's facts speak of three variables only.
LEMMA ReceiverFrame ==
  ASSUME NEW d \in Clients, ReceiverFacts(d),
         recvQ'[d] = recvQ[d], recvPc'[d] = recvPc[d], pktNum'[d] = pktNum[d]
  PROVE  ReceiverFacts(d)'
  BY DEF ReceiverFacts, Queued

\* Taking the oldest packet out preserves them: the decoder does so at any
\* time, the receiver between its check and its insertion.
LEMMA ReceiverLosesHead ==
  ASSUME ReceiverTypes, NEW c \in Clients, ReceiverFacts(c),
         recvQ[c] # <<>>, recvQ'[c] = Tail(recvQ[c]), pktNum'[c] = pktNum[c],
         \/ recvPc'[c] = recvPc[c]
         \/ recvPc[c] = "evict" /\ recvPc'[c] = "insert"
  PROVE  ReceiverFacts(c)'
<1>1. recvQ[c] \in Seq(Nat) /\ Queued(c) \in Int /\ Queued(c)' = Queued(c)
  BY DEF ReceiverTypes, Queued
<1>2. /\ Len(recvQ[c]) \in Nat /\ Len(recvQ[c]) > 0
      /\ Len(Tail(recvQ[c])) = Len(recvQ[c]) - 1
  BY <1>1, RemoveHead
<1>3. \A i \in 1..Len(recvQ'[c]) :
         recvQ'[c][i] = Queued(c)' - Len(recvQ'[c]) + i
  <2>1. \A i \in 1..Len(recvQ[c]) : recvQ[c][i] = Queued(c) - Len(recvQ[c]) + i
    BY DEF ReceiverFacts
  <2> QED
    BY <1>1, <2>1, RunLosesHead
<1> QED
  BY <1>2, <1>3, LimitAssumption DEF ReceiverFacts

\* Every step of a receiver, and a removal by the decoder, preserves them.
LEMMA ReceiverStepFacts ==
  ASSUME ReceiverTypes, \A c \in Clients : ReceiverFacts(c), NEW c \in Clients,
         Receive(c) \/ ReceiverStep(c) \/ TakePacket(c)
  PROVE  \A d \in Clients : ReceiverFacts(d)'
<1> SUFFICES ASSUME NEW d \in Clients PROVE ReceiverFacts(d)'
  OBVIOUS
<1>1. CASE Receive(c)
  BY <1>1 DEF Receive, queues, ReceiverTypes, ReceiverFacts, Queued
<1>2. CASE CheckLimit(c)
  <2>1. Len(recvQ[c]) \in Nat
    BY DEF ReceiverTypes
  <2> QED
    BY <1>2, <2>1, LimitAssumption
    DEF CheckLimit, queues, RecvLimitReached, ReceiverTypes, ReceiverFacts,
        Queued
<1>3. CASE Evict(c)
  <2>1. CASE recvQ[c] = <<>>
    BY <1>3, <2>1, ReceiverFrame DEF Evict, RemoveRecv
  <2>2. CASE recvQ[c] # <<>>
    <3>1. /\ recvQ' = [recvQ EXCEPT ![c] = Tail(@)]
          /\ recvPc[c] = "evict"
          /\ recvPc' = [recvPc EXCEPT ![c] = "insert"]
          /\ pktNum' = pktNum
      BY <1>3, <2>2 DEF Evict, RemoveRecv
    <3>2. CASE d = c
      BY <2>2, <3>1, <3>2, ReceiverLosesHead DEF ReceiverTypes
    <3>3. CASE d # c
      BY <3>1, <3>3, ReceiverFrame DEF ReceiverTypes
    <3> QED
      BY <3>2, <3>3
  <2> QED
    BY <2>1, <2>2
<1>4. CASE InsertPacket(c)
  <2>1. /\ recvQ' = [recvQ EXCEPT ![c] = Append(@, pktNum[c])]
        /\ recvPc[c] = "insert"
        /\ recvPc' = [recvPc EXCEPT ![c] = "recv"]
        /\ pktNum' = pktNum
    BY <1>4 DEF InsertPacket, InsertRecv
  <2>2. CASE d = c
    <3>1. /\ recvQ[c] \in Seq(Nat) /\ pktNum[c] \in Nat
          /\ recvQ'[c] = Append(recvQ[c], pktNum[c])
          /\ recvPc'[c] = "recv"
          /\ Queued(c) = pktNum[c] - 1
          /\ Queued(c)' = pktNum[c]
      BY <2>1 DEF ReceiverTypes, Queued
    <3>2. Len(recvQ[c]) \in Nat /\ Len(recvQ'[c]) = Len(recvQ[c]) + 1
      BY <3>1, AppendProperties
    <3>3. \A i \in 1..Len(recvQ'[c]) :
             recvQ'[c][i] = Queued(c)' - Len(recvQ'[c]) + i
      <4>1. \A i \in 1..Len(recvQ[c]) :
               recvQ[c][i] = (pktNum[c] - 1) - Len(recvQ[c]) + i
        BY <3>1 DEF ReceiverFacts
      <4> QED
        BY <3>1, <4>1, RunGains, ZenonT(60)
    <3> QED
      BY <2>1, <2>2, <3>1, <3>2, <3>3, LimitAssumption DEF ReceiverFacts
  <2>3. CASE d # c
    BY <2>1, <2>3, ReceiverFrame DEF ReceiverTypes
  <2> QED
    BY <2>2, <2>3
<1>5. CASE TakePacket(c)
  <2>1. /\ recvQ[c] # <<>>
        /\ recvQ' = [recvQ EXCEPT ![c] = Tail(@)]
        /\ UNCHANGED <<recvPc, pktNum>>
    BY <1>5 DEF TakePacket, RemoveRecv, receivers
  <2>2. CASE d = c
    BY <2>1, <2>2, ReceiverLosesHead DEF ReceiverTypes
  <2>3. CASE d # c
    BY <2>1, <2>3, ReceiverFrame DEF ReceiverTypes
  <2> QED
    BY <2>2, <2>3
<1> QED
  BY <1>1, <1>2, <1>3, <1>4, <1>5 DEF ReceiverStep

-----------------------------------------------------------------------------
(* The types.                                                              *)

LEMMA InitIInv == Init => IInv
<1> SUFFICES ASSUME Init PROVE IInv
  OBVIOUS
<1>1. TypeOK
  <2>1. /\ 0 \in 0..FramesPerPacket
        /\ 0 \in 0..(ClientNum + 1)
        /\ 0 \in 0..ClientNum
    BY ClientAssumption, FrameAssumption
  <2>2. [c \in Clients |-> NoFrame] \in MixedFrames
    BY DEF MixedFrames, NoFrame
  <2>3. <<>> \in Seq(Nat) /\ <<>> \in Seq(MixedFrames)
    OBVIOUS
  <2> QED
    BY <2>1, <2>2, <2>3 DEF Init, TypeOK, NoPacket
<1>2. RecvBounded /\ RecvRoom /\ NewestKept
  BY LimitAssumption DEF Init, RecvBounded, RecvRoom, NewestKept
<1>3. FlagWithinSlot
  BY DEF Init, FlagWithinSlot
<1> QED
  BY <1>1, <1>2, <1>3 DEF IInv


\* Every step preserves the types and the bound on a mixer's flag.
LEMMA StepTypes ==
  ASSUME TypeOK, FlagWithinSlot, Next
  PROVE  TypeOK' /\ FlagWithinSlot'
<1> USE DEF queues, receivers, decoders, mixers, memory, Memory
<1>1. ASSUME NEW c \in Clients, Receive(c)
     PROVE  TypeOK' /\ FlagWithinSlot'
  BY <1>1, SMTT(60) DEF TypeOK, FlagWithinSlot, Receive
<1>2. ASSUME NEW c \in Clients, CheckLimit(c)
     PROVE  TypeOK' /\ FlagWithinSlot'
  BY <1>2 DEF TypeOK, FlagWithinSlot, CheckLimit
<1>3. ASSUME NEW c \in Clients, Evict(c)
      PROVE  TypeOK' /\ FlagWithinSlot'
  <2>1. CASE recvQ[c] = <<>>
    BY <1>3, <2>1 DEF TypeOK, FlagWithinSlot, Evict, RemoveRecv
  <2>2. CASE recvQ[c] # <<>>
    <3>1. Head(recvQ[c]) \in Nat /\ Tail(recvQ[c]) \in Seq(Nat)
      BY <2>2, RemoveHead DEF TypeOK
    <3>2. recvQ' \in [Clients -> Seq(Nat)]
      BY <1>3, <2>2, <3>1 DEF TypeOK, Evict, RemoveRecv
    <3>3. evicted' \in [Clients -> SUBSET Nat]
      <4>1. evicted' = [evicted EXCEPT ![c] = @ \cup {Head(recvQ[c])}]
        BY <1>3, <2>2 DEF Evict
      <4> QED
        BY ONLY <3>1, <4>1, TypeOK DEF TypeOK
    <3>4. recvPc' = [recvPc EXCEPT ![c] = "insert"] /\ UNCHANGED aborted
      BY <1>3, <2>2 DEF Evict
    <3> QED
      BY <1>3, <3>2, <3>3, <3>4 DEF TypeOK, FlagWithinSlot, Evict
  <2> QED
    BY <2>1, <2>2
<1>4. ASSUME NEW c \in Clients, InsertPacket(c)
     PROVE  TypeOK' /\ FlagWithinSlot'
  <2>1. recvQ' \in [Clients -> Seq(Nat)]
    BY <1>4, AppendProperties DEF TypeOK, InsertPacket, InsertRecv
  <2> QED
    BY <1>4, <2>1 DEF TypeOK, FlagWithinSlot, InsertPacket
<1>5. ASSUME NEW c \in Clients, TakePacket(c)
     PROVE  TypeOK' /\ FlagWithinSlot'
  <2>1. /\ recvQ' \in [Clients -> Seq(Nat)]
        /\ decPkt' \in [Clients -> Nat]
    BY <1>5, RemoveHead DEF TypeOK, TakePacket, RemoveRecv
  <2>2. decDone' \in [Clients -> 0..FramesPerPacket]
    BY <1>5, FrameAssumption DEF TypeOK, TakePacket
  <2> QED
    BY <1>5, <2>1, <2>2 DEF TypeOK, FlagWithinSlot, TakePacket
<1>6. ASSUME NEW c \in Clients, DecodeFrame(c)
     PROVE  TypeOK' /\ FlagWithinSlot'
  <2>1. /\ decPkt[c] \in Nat \ {0}
        /\ decDone[c] + 1 \in Nat
        /\ decDone[c] + 1 \in 0..FramesPerPacket
    BY <1>6, FrameAssumption DEF TypeOK, DecodeFrame, NoPacket
  <2>2. FrameNumber(decPkt[c], decDone[c] + 1) \in Nat
    BY <2>1, FrameNumberType
  <2>3. decQ' \in [Clients -> Seq(Nat)]
    BY <1>6, <2>2, AppendProperties DEF TypeOK, DecodeFrame, InsertDecoded
  <2>4. decDone' \in [Clients -> 0..FramesPerPacket]
    BY <1>6, <2>1 DEF TypeOK, DecodeFrame
  <2> QED
    BY <1>6, <2>1, <2>2, <2>3, <2>4 DEF TypeOK, FlagWithinSlot, DecodeFrame
<1>7. ASSUME NEW c \in Clients, FinishPacket(c)
     PROVE  TypeOK' /\ FlagWithinSlot'
  BY <1>7 DEF TypeOK, FlagWithinSlot, FinishPacket, NoPacket
<1>8. ASSUME NEW m \in Mixers, FetchFrame(m)
     PROVE  TypeOK' /\ FlagWithinSlot'
  <2> DEFINE c == mixSlot[m]
  <2>1. c \in Clients /\ mixSlot' = [mixSlot EXCEPT ![m] = c + 1]
    BY <1>8 DEF FetchFrame
  <2>2. c \in Nat /\ c + 1 \in 0..ClientNum /\ emptyFlag[m] <= c
    BY <2>1, ClientAssumption DEF FlagWithinSlot, Clients
  <2>3. mixSlot' \in [Mixers -> 0..(ClientNum + 1)]
    BY <2>1, <2>2, ClientAssumption DEF TypeOK
  <2>4. CASE decQ[c] # <<>>
    <3>1. Head(decQ[c]) \in Nat /\ Tail(decQ[c]) \in Seq(Nat)
      BY <2>1, <2>4, RemoveHead DEF TypeOK
    <3>2. /\ decQ' = [decQ EXCEPT ![c] = Tail(@)]
          /\ frms' = [frms EXCEPT ![m][c] = Head(decQ[c])]
          /\ UNCHANGED emptyFlag
      BY <1>8, <2>4 DEF FetchFrame, RemoveDecoded
    <3>3. decQ' \in [Clients -> Seq(Nat)]
      BY <2>1, <3>1, <3>2 DEF TypeOK
    <3>4. frms' \in [Mixers -> MixedFrames]
      BY <2>1, <3>1, <3>2 DEF TypeOK, MixedFrames
    <3>5. FlagWithinSlot'
      BY <2>1, <2>2, <3>2 DEF TypeOK, FlagWithinSlot
    <3> QED
      BY <1>8, <2>3, <3>2, <3>3, <3>4, <3>5 DEF TypeOK, FetchFrame
  <2>5. CASE decQ[c] = <<>>
    <3>1. /\ frms' = [frms EXCEPT ![m][c] = NoFrame]
          /\ emptyFlag' = [emptyFlag EXCEPT ![m] = @ + 1]
          /\ UNCHANGED decQ
      BY <1>8, <2>5 DEF FetchFrame, RemoveDecoded
    <3>2. frms' \in [Mixers -> MixedFrames]
      BY <2>1, <3>1 DEF TypeOK, MixedFrames, NoFrame
    <3>3. emptyFlag' \in [Mixers -> 0..ClientNum] /\ FlagWithinSlot'
      BY <2>1, <2>2, <3>1, ClientAssumption, SMTT(60)
         DEF TypeOK, FlagWithinSlot
    <3> QED
      BY <1>8, <2>3, <3>1, <3>2, <3>3 DEF TypeOK, FetchFrame
  <2> QED
    BY <2>4, <2>5
<1>9. ASSUME NEW m \in Mixers, SkipRound(m)
     PROVE  TypeOK' /\ FlagWithinSlot'
  <2>1. /\ emptyFlag' \in [Mixers -> 0..ClientNum]
        /\ mixSlot' \in [Mixers -> 0..(ClientNum + 1)]
        /\ FlagWithinSlot'
    BY <1>9, ClientAssumption DEF TypeOK, FlagWithinSlot, SkipRound, BeginRound
  <2> QED
    BY <1>9, <2>1 DEF TypeOK, SkipRound
<1>10. ASSUME NEW m \in Mixers, MixFrames(m)
     PROVE  TypeOK' /\ FlagWithinSlot'
  <2>1. mixQ' \in Seq(MixedFrames)
    BY <1>10, AppendProperties DEF TypeOK, MixFrames, InsertMixed
  <2>2. frms' \in [Mixers -> MixedFrames]
    BY <1>10 DEF TypeOK, MixFrames, MixedFrames, NoFrame
  <2>3. mixSlot' \in [Mixers -> 0..(ClientNum + 1)] /\ FlagWithinSlot'
    BY <1>10, ClientAssumption DEF TypeOK, FlagWithinSlot, MixFrames
  <2> QED
    BY <1>10, <2>1, <2>2, <2>3 DEF TypeOK, MixFrames
<1>11. ASSUME NEW m \in Mixers, ReleaseFrames(m)
     PROVE  TypeOK' /\ FlagWithinSlot'
  <2>1. frms' \in [Mixers -> MixedFrames]
    BY <1>11 DEF TypeOK, ReleaseFrames, MixedFrames, NoFrame
  <2>2. /\ emptyFlag' \in [Mixers -> 0..ClientNum]
        /\ mixSlot' \in [Mixers -> 0..(ClientNum + 1)]
        /\ FlagWithinSlot'
    BY <1>11, ClientAssumption DEF TypeOK, FlagWithinSlot, ReleaseFrames,
       BeginRound
  <2> QED
    BY <1>11, <2>1, <2>2 DEF TypeOK, ReleaseFrames
<1>12. ASSUME TakeMixed
     PROVE  TypeOK' /\ FlagWithinSlot'
  <2>1. mixQ' \in Seq(MixedFrames) /\ encFrm' \in MixedFrames
    BY <1>12, RemoveHead DEF TypeOK, TakeMixed, RemoveMixed
  <2> QED
    BY <1>12, <2>1 DEF TypeOK, FlagWithinSlot, TakeMixed
<1>13. ASSUME EncodeFrame
     PROVE  TypeOK' /\ FlagWithinSlot'
  <2>1. encQ' \in Seq(MixedFrames)
    BY <1>13, AppendProperties DEF TypeOK, EncodeFrame, InsertEncoded
  <2> QED
    BY <1>13, <2>1 DEF TypeOK, FlagWithinSlot, EncodeFrame
<1>14. ASSUME SendPacket
     PROVE  TypeOK' /\ FlagWithinSlot'
  <2>1. encQ' \in Seq(MixedFrames) /\ Head(encQ) \in MixedFrames
    BY <1>14, RemoveHead DEF TypeOK, SendPacket, RemoveEncoded
  <2>2. sent' \in Seq(MixedFrames)
    BY <1>14, <2>1, AppendProperties DEF TypeOK, SendPacket
  <2> QED
    BY <1>14, <2>1, <2>2 DEF TypeOK, FlagWithinSlot, SendPacket
<1> QED
  BY <1>1, <1>2, <1>3, <1>4, <1>5, <1>6, <1>7, <1>8, <1>9, <1>10, <1>11,
     <1>12, <1>13, <1>14
  DEF Next, ReceiverStep, DecoderStep, MixerStep, EncoderStep

\* Every step preserves what is said of the receivers: the steps of the other
\* workers do not touch what they speak of.
LEMMA StepReceivers ==
  ASSUME IInv, Next
  PROVE  RecvBounded' /\ RecvRoom' /\ NewestKept'
<1>1. ReceiverTypes /\ \A c \in Clients : ReceiverFacts(c)
  BY ReceiverFactsAll DEF IInv, TypeOK, ReceiverTypes
<1>2. ASSUME UNCHANGED <<recvQ, recvPc, pktNum>>
      PROVE  \A c \in Clients : ReceiverFacts(c)'
  BY <1>1, <1>2, ReceiverFrame
<1>3. ASSUME NEW c \in Clients, Receive(c) \/ ReceiverStep(c) \/ TakePacket(c)
      PROVE  \A d \in Clients : ReceiverFacts(d)'
  BY <1>1, <1>3, ReceiverStepFacts
<1>4. ASSUME NEW c \in Clients, DecodeFrame(c) \/ FinishPacket(c)
      PROVE  UNCHANGED <<recvQ, recvPc, pktNum>>
  BY <1>4 DEF DecodeFrame, FinishPacket, queues, receivers
<1>5. ASSUME NEW m \in Mixers, MixerStep(m)
      PROVE  UNCHANGED <<recvQ, recvPc, pktNum>>
  BY <1>5 DEF MixerStep, FetchFrame, SkipRound, MixFrames, ReleaseFrames,
              queues, receivers
<1>6. ASSUME EncoderStep \/ SendPacket
      PROVE  UNCHANGED <<recvQ, recvPc, pktNum>>
  BY <1>6 DEF EncoderStep, TakeMixed, EncodeFrame, SendPacket, receivers
<1>7. \A c \in Clients : ReceiverFacts(c)'
  BY <1>2, <1>3, <1>4, <1>5, <1>6 DEF Next, DecoderStep
<1> QED
  BY <1>7 DEF ReceiverFacts, RecvBounded, RecvRoom, NewestKept

LEMMA StutterIInv == IInv /\ UNCHANGED vars => IInv'
<1> SUFFICES ASSUME IInv, UNCHANGED vars PROVE IInv'
  OBVIOUS
<1> USE DEF IInv, vars, queues, receivers, decoders, mixers, memory
<1>1. TypeOK'
  BY DEF TypeOK
<1>2. RecvBounded' /\ RecvRoom' /\ NewestKept' /\ FlagWithinSlot'
  BY DEF RecvBounded, RecvRoom, NewestKept, Queued, FlagWithinSlot
<1> QED
  BY <1>1, <1>2

-----------------------------------------------------------------------------
\* The invariant holds in every reachable state of the pipeline.
THEOREM Invariance == Spec => []IInv
<1>1. IInv /\ [Next]_vars => IInv'
  BY StepTypes, StepReceivers, StutterIInv DEF IInv
<1> QED
  BY <1>1, InitIInv, PTL DEF Spec

\* Every variable keeps its type; a mixer never counts more empty queues than
\* there are.
THEOREM TypeCorrect == Spec => []TypeOK
<1>1. IInv => TypeOK
  BY DEF IInv
<1> QED
  BY <1>1, Invariance, PTL

\* The receiver's check, removal and insertion keep its queue within the
\* limit, however many packets arrive and whatever the decoder does between.
THEOREM RecvQueueBounded == Spec => []RecvBounded
<1>1. IInv => RecvBounded
  BY DEF IInv
<1> QED
  BY <1>1, Invariance, PTL

\* A receiving queue holds the newest packets, in order and without a gap.
THEOREM RecvQueueNewest == Spec => []NewestKept
<1>1. IInv => NewestKept
  BY DEF IInv
<1> QED
  BY <1>1, Invariance, PTL

-----------------------------------------------------------------------------
(* What a receiver drops.                                                  *)

\* Everything dropped is older than everything queued; and once the check has
\* found the queue full, there is room for one more to drop, whatever the
\* decoder takes before the removal.
DropFacts(c) ==
  /\ Len(recvQ[c]) <= Queued(c)
  /\ evicted[c] \subseteq 1..(Queued(c) - Len(recvQ[c]))
  /\ evicted[c] # {} => Cardinality(evicted[c]) + MAX_AV_PACKET_NUM <= pktNum[c]
  /\ recvPc[c] = "evict" =>
       Cardinality(evicted[c]) + MAX_AV_PACKET_NUM + 1 <= pktNum[c]

DropTypes == ReceiverTypes /\ evicted \in [Clients -> SUBSET Nat]

\* The facts about one client speak of its own receiver only.
LEMMA DropFrame ==
  ASSUME NEW c \in Clients, DropFacts(c),
         recvQ'[c] = recvQ[c], recvPc'[c] = recvPc[c], pktNum'[c] = pktNum[c],
         evicted'[c] = evicted[c]
  PROVE  DropFacts(c)'
  BY DEF DropFacts, Queued

\* No more is dropped than has left the queue.
LEMMA DroppedFew ==
  ASSUME DropTypes, NEW c \in Clients, DropFacts(c)
  PROVE  /\ IsFiniteSet(evicted[c]) /\ Cardinality(evicted[c]) \in Nat
         /\ Cardinality(evicted[c]) <= Queued(c) - Len(recvQ[c])
<1> DEFINE n == Queued(c) - Len(recvQ[c])
<1>1. n \in Int /\ n >= 0
  BY DEF DropTypes, ReceiverTypes, Queued, DropFacts
<1>2. evicted[c] \in SUBSET (1..n)
  BY DEF DropFacts
<1> HIDE DEF n
<1>3. IsFiniteSet(1..n) /\ Cardinality(1..n) = n
  BY <1>1, FS_Interval
<1>4. IsFiniteSet(evicted[c]) /\ Cardinality(evicted[c]) <= n
  BY <1>2, <1>3, FS_Subset
<1>5. Cardinality(evicted[c]) \in Nat
  BY <1>4, FS_CardinalityType
<1> QED
  BY <1>4, <1>5 DEF n

\* The check counts what is queued, the removal drops the oldest of it.
LEMMA DropStep ==
  ASSUME DropTypes, NEW c \in Clients, ReceiverFacts(c), DropFacts(c),
         Receive(c) \/ ReceiverStep(c) \/ TakePacket(c)
  PROVE  DropFacts(c)'
<1>0. /\ recvQ \in [Clients -> Seq(Nat)] /\ pktNum \in [Clients -> Nat]
      /\ recvPc \in [Clients -> {"recv", "check", "evict", "insert"}]
      /\ evicted \in [Clients -> SUBSET Nat]
      /\ recvQ[c] \in Seq(Nat) /\ Len(recvQ[c]) \in Nat
      /\ Queued(c) \in Int /\ pktNum[c] \in Nat
      /\ MAX_AV_PACKET_NUM \in Nat
  BY LimitAssumption DEF DropTypes, ReceiverTypes, Queued
<1>1. /\ IsFiniteSet(evicted[c]) /\ Cardinality(evicted[c]) \in Nat
      /\ Cardinality(evicted[c]) <= Queued(c) - Len(recvQ[c])
  BY DroppedFew
<1>2. CASE Receive(c)
  <2>1. /\ recvPc[c] = "recv" /\ recvPc'[c] = "check"
        /\ pktNum'[c] = pktNum[c] + 1
        /\ UNCHANGED <<recvQ, evicted>>
    BY <1>0, <1>2 DEF Receive, queues
  <2>2. Queued(c)' = Queued(c)
    BY <1>0, <2>1 DEF Queued
  <2> QED
    BY <1>0, <1>1, <2>1, <2>2 DEF DropFacts
<1>3. CASE CheckLimit(c)
  <2>1. /\ recvPc[c] = "check"
        /\ UNCHANGED <<recvQ, pktNum, evicted>>
        /\ \/ recvPc'[c] = "evict" /\ MAX_AV_PACKET_NUM <= Len(recvQ[c])
           \/ recvPc'[c] = "insert"
    BY <1>0, <1>3 DEF CheckLimit, queues, RecvLimitReached
  <2>2. Queued(c)' = Queued(c) /\ Queued(c) = pktNum[c] - 1
    BY <1>0, <2>1 DEF Queued
  <2>3. recvPc'[c] = "evict" =>
          Cardinality(evicted[c]) + MAX_AV_PACKET_NUM + 1 <= pktNum[c]
    BY <1>0, <1>1, <2>1, <2>2
  <2> QED
    BY <2>1, <2>2, <2>3 DEF DropFacts
<1>4. CASE Evict(c)
  <2>1. CASE recvQ[c] = <<>>
    BY <1>4, <2>1, DropFrame DEF Evict, RemoveRecv
  <2>2. CASE recvQ[c] # <<>>
    <3> DEFINE h == Head(recvQ[c])
    <3>1. /\ recvPc[c] = "evict" /\ recvPc'[c] = "insert"
          /\ recvQ'[c] = Tail(recvQ[c])
          /\ evicted'[c] = evicted[c] \cup {h}
          /\ pktNum'[c] = pktNum[c]
      BY <1>0, <1>4, <2>2 DEF Evict, RemoveRecv
    <3>2. Queued(c)' = Queued(c)
      BY <3>1 DEF Queued
    <3>3. /\ Len(recvQ[c]) > 0 /\ Len(recvQ'[c]) = Len(recvQ[c]) - 1
          /\ h = Queued(c) - Len(recvQ[c]) + 1
      BY <1>0, <2>2, <3>1, RemoveHead DEF ReceiverFacts
    <3> HIDE DEF h
    <3>4. Cardinality(evicted'[c]) \in Nat
          /\ Cardinality(evicted'[c]) <= Cardinality(evicted[c]) + 1
      <4>1. Cardinality(evicted[c] \cup {h}) =
              IF h \in evicted[c] THEN Cardinality(evicted[c])
                                 ELSE Cardinality(evicted[c]) + 1
        BY <1>1, FS_AddElement
      <4>2. /\ Cardinality(evicted[c] \cup {h}) \in Nat
            /\ Cardinality(evicted[c] \cup {h}) <= Cardinality(evicted[c]) + 1
        BY <1>1, <4>1
      <4> QED
        BY <3>1, <4>2
    <3>5. evicted'[c] \subseteq 1..(Queued(c)' - Len(recvQ'[c]))
      BY <1>0, <3>1, <3>2, <3>3 DEF DropFacts
    <3>6. Cardinality(evicted[c]) + MAX_AV_PACKET_NUM + 1 <= pktNum[c]
      BY <3>1 DEF DropFacts
    <3>7. Len(recvQ'[c]) <= Queued(c)'
      BY <1>0, <3>2, <3>3 DEF DropFacts
    <3>8. Cardinality(evicted'[c]) + MAX_AV_PACKET_NUM <= pktNum'[c]
      BY <1>0, <1>1, <3>1, <3>4, <3>6
    <3> QED
      BY <3>1, <3>5, <3>7, <3>8 DEF DropFacts
  <2> QED
    BY <2>1, <2>2
<1>5. CASE InsertPacket(c)
  <2>1. /\ recvPc[c] = "insert" /\ recvPc'[c] = "recv"
        /\ recvQ'[c] = Append(recvQ[c], pktNum[c])
        /\ pktNum'[c] = pktNum[c] /\ evicted'[c] = evicted[c]
    BY <1>0, <1>5 DEF InsertPacket, InsertRecv
  <2>2. Queued(c)' = Queued(c) + 1 /\ Len(recvQ'[c]) = Len(recvQ[c]) + 1
    BY <1>0, <2>1, AppendProperties DEF Queued
  <2> QED
    BY <1>0, <2>1, <2>2 DEF DropFacts
<1>6. CASE TakePacket(c)
  <2>1. /\ recvQ[c] # <<>> /\ recvQ'[c] = Tail(recvQ[c])
        /\ recvPc'[c] = recvPc[c] /\ pktNum'[c] = pktNum[c]
        /\ evicted'[c] = evicted[c]
    BY <1>0, <1>6 DEF TakePacket, RemoveRecv, receivers
  <2>2. Queued(c)' = Queued(c) /\ Len(recvQ'[c]) = Len(recvQ[c]) - 1
    BY <1>0, <2>1, RemoveHead DEF Queued
  <2> QED
    BY <1>0, <2>1, <2>2 DEF DropFacts
<1> QED
  BY <1>2, <1>3, <1>4, <1>5, <1>6 DEF ReceiverStep

\* No other step touches what these facts speak of.
LEMMA StepDrops ==
  ASSUME IInv, \A c \in Clients : DropFacts(c), [Next]_vars
  PROVE  \A c \in Clients : DropFacts(c)'
<1> SUFFICES ASSUME NEW d \in Clients PROVE DropFacts(d)'
  OBVIOUS
<1>1. DropTypes /\ ReceiverFacts(d) /\ DropFacts(d)
  BY ReceiverFactsAll DEF IInv, TypeOK, ReceiverTypes, DropTypes
<1>2. ASSUME UNCHANGED <<recvQ, recvPc, pktNum, evicted>> PROVE DropFacts(d)'
  BY <1>1, <1>2, DropFrame
<1>3. ASSUME NEW c \in Clients, Receive(c) \/ ReceiverStep(c) \/ TakePacket(c)
      PROVE  DropFacts(d)'
  <2>1. CASE c = d
    BY <1>1, <1>3, <2>1, DropStep
  <2>2. CASE c # d
    <3>1. /\ recvQ'[d] = recvQ[d] /\ recvPc'[d] = recvPc[d]
          /\ pktNum'[d] = pktNum[d] /\ evicted'[d] = evicted[d]
      BY <1>1, <1>3, <2>2
         DEF DropTypes, ReceiverTypes, ReceiverStep, Receive, CheckLimit, Evict,
             InsertPacket, InsertRecv, TakePacket, RemoveRecv, queues, receivers
    <3> QED
      BY <1>1, <3>1, DropFrame
  <2> QED
    BY <2>1, <2>2
<1>4. ASSUME NEW c \in Clients, DecodeFrame(c) \/ FinishPacket(c)
      PROVE  UNCHANGED <<recvQ, recvPc, pktNum, evicted>>
  BY <1>4 DEF DecodeFrame, FinishPacket, queues, receivers
<1>5. ASSUME NEW m \in Mixers, MixerStep(m)
      PROVE  UNCHANGED <<recvQ, recvPc, pktNum, evicted>>
  BY <1>5 DEF MixerStep, FetchFrame, SkipRound, MixFrames, ReleaseFrames,
              queues, receivers
<1>6. ASSUME EncoderStep \/ SendPacket
      PROVE  UNCHANGED <<recvQ, recvPc, pktNum, evicted>>
  BY <1>6 DEF EncoderStep, TakeMixed, EncodeFrame, SendPacket, receivers
<1>7. CASE UNCHANGED vars
  BY <1>2, <1>7 DEF vars, queues, receivers
<1> QED
  BY <1>2, <1>3, <1>4, <1>5, <1>6, <1>7 DEF Next, DecoderStep

\* A receiver drops only the excess: never more packets than have arrived beyond
\* its limit, however stale the answer of the limit check is when it removes.
THEOREM DropsOnlyExcess == Spec => []OnlyExcessDropped
<1>1. Init => \A c \in Clients : DropFacts(c)
  <2> SUFFICES ASSUME Init, NEW c \in Clients PROVE DropFacts(c)
    OBVIOUS
  <2>1. recvQ[c] = <<>> /\ Queued(c) = 0 /\ evicted[c] = {} /\ recvPc[c] = "recv"
    BY DEF Init, Queued
  <2> QED
    BY <2>1 DEF DropFacts
<1>2. IInv /\ (\A c \in Clients : DropFacts(c)) /\ [Next]_vars
        => (\A c \in Clients : DropFacts(c))'
  BY StepDrops
<1>3. (\A c \in Clients : DropFacts(c)) => OnlyExcessDropped
  BY DEF DropFacts, OnlyExcessDropped
<1> QED
  BY <1>1, <1>2, <1>3, Invariance, PTL DEF Spec
=============================================================================
