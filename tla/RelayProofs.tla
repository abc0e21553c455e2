---------------------------- MODULE RelayProofs -----------------------------
(***************************************************************************)
(* Pipeline implements Relay, for any number of clients, packets and       *)
(* frames.  A frame waits when it is produced and not yet sent, so a step  *)
(* of the workers is a step of Relay when it produces a frame or sends a   *)
(* picture, and a stuttering step of Relay otherwise.                      *)
(***************************************************************************)
EXTENDS FrameProofs

\* A frame waits from the moment it is produced until a picture with it is
\* sent.
LEMMA WaitingIs ==
  FInv => \A c \in Clients :
            /\ Waiting(c) \subseteq Nat \ {0}
            /\ \A k \in Nat \ {0} :
                 k \in Waiting(c) <=> /\ k \in Produced(c)
                                      /\ \A i \in DOMAIN sent : sent[i][c] # k
<1> SUFFICES ASSUME FInv, NEW c \in Clients
             PROVE  /\ Waiting(c) \subseteq Nat \ {0}
                    /\ \A k \in Nat \ {0} :
                         k \in Waiting(c) <=>
                           /\ k \in Produced(c)
                           /\ \A i \in DOMAIN sent : sent[i][c] # k
  OBVIOUS
<1>1. QueueTypes /\ TypeOK /\ NULL \notin MixedFrames
  BY UnpackFInv, NullNoPicture
<1>2. ASSUME NEW k \in Waiting(c) PROVE k \in Nat \ {0}
  <2>1. /\ \A i \in DOMAIN decQ[c] : decQ[c][i] \in Nat
        /\ \A m \in Mixers : frms[m][c] \in Nat
        /\ \A i \in DOMAIN mixQ : mixQ[i][c] \in Nat
        /\ \A f \in {encFrm} \ {NULL} : f[c] \in Nat
        /\ \A i \in DOMAIN encQ : encQ[i][c] \in Nat
    <3>1. /\ \A i \in DOMAIN mixQ : mixQ[i] \in MixedFrames
          /\ \A i \in DOMAIN encQ : encQ[i] \in MixedFrames
          /\ \A m \in Mixers : frms[m] \in MixedFrames
          /\ \A i \in DOMAIN decQ[c] : decQ[c][i] \in Nat
      BY <1>1, ElementOfSeq, LenProperties DEF QueueTypes, TypeOK
    <3> QED
      BY <1>1, <3>1 DEF QueueTypes, MixedFrames
  <2> QED
    BY <1>2, <2>1 DEF Waiting, NoFrame
<1>3. ASSUME NEW k \in Nat \ {0}
      PROVE  k \in Waiting(c) <=> /\ k \in Produced(c)
                                  /\ \A i \in DOMAIN sent : sent[i][c] # k
  <2>1. k \in Waiting(c) <=> \E x \in Places(c, k) : x[1] # "sent"
    <3> DEFINE Found == \/ \E i \in DOMAIN decQ[c] : decQ[c][i] = k
                        \/ \E m \in Mixers : frms[m][c] = k
                        \/ \E i \in DOMAIN mixQ : mixQ[i][c] = k
                        \/ encFrm # NULL /\ encFrm[c] = k
                        \/ \E i \in DOMAIN encQ : encQ[i][c] = k
    <3>1. k \in Waiting(c) <=> Found
      BY DEF Waiting, NoFrame
    <3>2. Found => \E x \in Places(c, k) : x[1] # "sent"
      <4>1. ASSUME NEW i \in DOMAIN decQ[c], decQ[c][i] = k
            PROVE  <<"decQ", i>> \in Places(c, k)
        BY <4>1 DEF Places
      <4>2. ASSUME NEW m \in Mixers, frms[m][c] = k
            PROVE  <<"frms", m>> \in Places(c, k)
        BY <4>2 DEF Places
      <4>3. ASSUME NEW i \in DOMAIN mixQ, mixQ[i][c] = k
            PROVE  <<"mixQ", i>> \in Places(c, k)
        BY <4>3 DEF Places
      <4>4. ASSUME encFrm # NULL, encFrm[c] = k
            PROVE  <<"encFrm", 1>> \in Places(c, k)
        BY <4>4 DEF Places
      <4>5. ASSUME NEW i \in DOMAIN encQ, encQ[i][c] = k
            PROVE  <<"encQ", i>> \in Places(c, k)
        BY <4>5 DEF Places
      <4> QED
        BY <4>1, <4>2, <4>3, <4>4, <4>5
    <3>3. ASSUME NEW x \in Places(c, k), x[1] # "sent" PROVE Found
      BY <3>3 DEF Places
    <3> QED
      BY <3>1, <3>2, <3>3
  <2>2. (\E i \in DOMAIN sent : sent[i][c] = k)
          <=> \E x \in Places(c, k) : x[1] = "sent"
    <3>1. ASSUME NEW i \in DOMAIN sent, sent[i][c] = k
          PROVE  <<"sent", i>> \in Places(c, k)
      BY <3>1 DEF Places
    <3>2. ASSUME NEW x \in Places(c, k), x[1] = "sent"
          PROVE  \E i \in DOMAIN sent : sent[i][c] = k
      BY <3>2 DEF Places
    <3>3. \A i : <<"sent", i>>[1] = "sent"
      OBVIOUS
    <3> QED
      BY <3>1, <3>2, <3>3
  <2>3. CASE k \in Produced(c)
    <3>1. PICK x : Places(c, k) = {x}
      BY <2>3, PlacesSingle
    <3> QED
      BY <2>1, <2>2, <2>3, <3>1
  <2>4. CASE k \notin Produced(c)
    <3>1. Places(c, k) = {}
      BY <2>4, PlacesSingle
    <3> QED
      BY <2>1, <2>4, <3>1
  <2> QED
    BY <2>3, <2>4
<1> QED
  BY <1>2, <1>3

\* No frame has a number beyond the last packet's last frame.
LEMMA LastBounded ==
  ASSUME IInv, NEW c \in Clients, PacketFacts(c)
  PROVE  Last(c) <= PacketsFrom[c] * FramesPerPacket
<1>1. PICK t, p, j, n : /\ t = Taken(c) /\ p = decPkt[c] /\ j = decDone[c]
                        /\ n = PacketsFrom[c]
  OBVIOUS
<1>2. /\ t \in Nat /\ n \in Nat /\ t <= n /\ p <= t /\ p \in Nat
      /\ j \in Nat /\ j <= FramesPerPacket /\ FramesPerPacket \in Nat
  BY <1>1, PacketTypes, PacketAssumption DEF PacketFacts, Taken, Queued
<1>3. /\ t + 1 \in Nat \ {0} /\ n + 1 \in Nat \ {0} /\ t + 1 <= n + 1
      /\ (n + 1) - 1 = n
  BY ONLY <1>2
<1>4. /\ FrameNumber(t + 1, 0) <= FrameNumber(n + 1, 0)
      /\ FrameNumber(n + 1, 0) = ((n + 1) - 1) * FramesPerPacket
      /\ FrameNumber(n + 1, 0) \in Nat /\ FrameNumber(t + 1, 0) \in Nat
  BY <1>3, FrameNumberGrows
<1>5. CASE p = NoPacket
  BY <1>1, <1>3, <1>4, <1>5 DEF Last
<1>6. CASE p # NoPacket
  <2>1. p \in Nat \ {0} /\ p + 1 \in Nat \ {0} /\ p + 1 <= t + 1
    BY <1>2, <1>6 DEF NoPacket
  <2>2. /\ FrameNumber(p, j) = FrameNumber(p, 0) + j
        /\ FrameNumber(p, 0) \in Nat
        /\ FrameNumber(p, FramesPerPacket) = FrameNumber(p, 0) + FramesPerPacket
        /\ FrameNumber(p, FramesPerPacket) = FrameNumber(p + 1, 0)
    BY <1>2, <2>1, FrameNumberGrows
  <2>3. FrameNumber(p + 1, 0) <= FrameNumber(t + 1, 0)
    BY <1>3, <2>1, FrameNumberGrows
  <2>4. FrameNumber(p, j) <= FrameNumber(n + 1, 0)
    BY ONLY <1>2, <1>4, <2>2, <2>3
  <2>5. Last(c) = FrameNumber(p, j)
    BY <1>1, <1>6 DEF Last
  <2> QED
    BY <1>1, <1>3, <1>4, <2>4, <2>5
<1> QED
  BY <1>5, <1>6

\* What is produced is a frame of its client, and not newer than the last one.
LEMMA ProducedBounded ==
  ASSUME FInv, NEW c \in Clients, NEW k \in Nat \ {0}, k \in Produced(c)
  PROVE  k <= Last(c) /\ k \in FramesFrom[c]
<1>1. PICK q, h, l, last :
        q = decQ[c] /\ h = Hands(c) /\ l = Line(c) /\ last = Last(c)
  OBVIOUS
<1>2. /\ Once(q, h, l, last) /\ Shows(q, h, l, k)
      /\ IInv /\ PacketFacts(c) /\ last \in Nat
  BY <1>1, UnpackFInv DEF FrameFacts
<1>3. k <= last
  BY ONLY <1>2 DEF Once, Ascending, Older, Shows
<1>4. /\ last <= PacketsFrom[c] * FramesPerPacket
      /\ PacketsFrom[c] * FramesPerPacket \in Int
  BY <1>1, <1>2, LastBounded, PacketAssumption, FrameAssumption
<1>5. k \in 1..(PacketsFrom[c] * FramesPerPacket)
  BY ONLY <1>2, <1>3, <1>4, k \in Nat \ {0}
<1> QED
  BY <1>1, <1>3, <1>5 DEF FramesFrom

\* What client d has produced, in any step.
LEMMA StepProduced ==
  ASSUME FInv, IInv', Next, NEW d \in Clients
  PROVE  \/ Produced(d)' = Produced(d)
         \/ /\ DecodeFrame(d)
            /\ \E k \in FramesFrom[d] : /\ k \in Nat \ {0} /\ Last(d) < k
                                        /\ Produced(d)' = Produced(d) \cup {k}
<1>0. IInv /\ PacketFacts(d) /\ TypeOK
  BY UnpackFInv
<1>1. ASSUME recvQ'[d] = recvQ[d], recvPc'[d] = recvPc[d],
             pktNum'[d] = pktNum[d], decPkt'[d] = decPkt[d],
             decDone'[d] = decDone[d], evicted'[d] = evicted[d]
      PROVE  Produced(d)' = Produced(d)
  BY ONLY <1>1, d \in Clients, OthersFrames
<1>2. ASSUME NEW c \in Clients, c # d,
             Receive(c) \/ ReceiverStep(c) \/ DecoderStep(c)
      PROVE  Produced(d)' = Produced(d)
  BY <1>0, <1>1, <1>2, OthersPackets
<1>3. ASSUME Receive(d) \/ ReceiverStep(d) \/ TakePacket(d) \/ FinishPacket(d)
      PROVE  Produced(d)' = Produced(d)
  BY ONLY IInv', <1>0, <1>3, d \in Clients, PacketStep
<1>4. ASSUME DecodeFrame(d)
      PROVE  \E k \in FramesFrom[d] : /\ k \in Nat \ {0} /\ Last(d) < k
                                      /\ Produced(d)' = Produced(d) \cup {k}
  <2>1. PICK k \in Nat \ {0} : /\ Last(d) < k
                               /\ k <= PacketsFrom[d] * FramesPerPacket
                               /\ Produced(d)' = Produced(d) \cup {k}
    BY ONLY IInv', <1>0, <1>4, d \in Clients, DecodeStep
  <2>2. k \in FramesFrom[d]
    <3>1. PacketsFrom[d] * FramesPerPacket \in Int
      BY PacketAssumption, FrameAssumption
    <3> QED
      BY <2>1, <3>1 DEF FramesFrom
  <2> QED
    BY <2>1, <2>2
<1>5. ASSUME Downstream PROVE Produced(d)' = Produced(d)
  BY <1>1, <1>5, DownstreamPackets
<1>6. \/ \E c \in Clients : Receive(c) \/ ReceiverStep(c) \/ DecoderStep(c)
      \/ Downstream
  BY DEF Next, Downstream
<1>7. ASSUME NEW c \in Clients,
             Receive(c) \/ ReceiverStep(c) \/ DecoderStep(c)
      PROVE  \/ Produced(d)' = Produced(d)
             \/ /\ DecodeFrame(d)
                /\ \E k \in FramesFrom[d] : /\ k \in Nat \ {0} /\ Last(d) < k
                                            /\ Produced(d)' = Produced(d) \cup {k}
  <2>1. CASE c # d
    BY <1>2, <1>7, <2>1
  <2>2. CASE c = d
    BY <1>3, <1>4, <1>7, <2>2 DEF DecoderStep
  <2> QED
    BY <2>1, <2>2
<1> QED
  BY <1>5, <1>6, <1>7

\* A sent picture is part of the line, and so shows no frame newer than the last.
LEMMA SentBounded ==
  ASSUME FInv, NEW c \in Clients, NEW i \in DOMAIN sent
  PROVE  /\ i \in 1..LineLen /\ Line(c)[i] = sent[i][c]
         /\ sent[i][c] \in Nat /\ sent[i][c] <= Last(c)
<1>1. QueueTypes /\ FrameFacts(c)
  BY UnpackFInv DEF FInv
<1>2. i \in 1..LineLen /\ i <= Len(sent) /\ Len(Line(c)) = LineLen
      /\ Picture(i) \in MixedFrames /\ Line(c)[i] = Picture(i)[c]
  BY <1>1, LineType, LenProperties DEF QueueTypes
<1>3. Picture(i) = sent[i]
  BY <1>2 DEF Picture
<1>4. Line(c)[i] <= Last(c)
  BY <1>1, <1>2 DEF FrameFacts, Once, Older
<1> QED
  BY <1>2, <1>3, <1>4 DEF MixedFrames

\* With one mixer, the next picture to be sent shows the oldest frame that waits.
LEMMA OldestNext ==
  ASSUME FInv, encQ # <<>>, NEW c \in Clients, Cardinality(Mixers) <= 1,
         NEW k \in Waiting(c), encQ[1][c] # NoFrame
  PROVE  encQ[1][c] <= k
<1>1. /\ QueueTypes /\ FrameFacts(c) /\ Ordered(Hands(c), Line(c))
  <2>1. ClientNum <= 2
    BY Cardinality(Mixers) <= 1, FS_Interval, ClientAssumption DEF Mixers
  <2> QED
    BY <2>1, UnpackFInv DEF FInv, FrameFacts
<1>2. PICK n : n = Len(sent) + 1
  OBVIOUS
<1>3. n \in 1..LineLen /\ Picture(n) = encQ[1]
  <2>1. /\ Len(encQ) > 0 /\ Len(encQ) \in Nat /\ Len(sent) \in Nat
        /\ Len(mixQ) \in Nat /\ Working \in {0, 1}
    BY <1>1, RemoveHead, LenProperties DEF QueueTypes, Working
  <2> QED
    BY <1>2, <2>1 DEF LineLen, Picture
<1>4. /\ Len(Line(c)) = LineLen /\ LineLen \in Nat
      /\ \A o \in 1..LineLen : Line(c)[o] = Picture(o)[c] /\ Line(c)[o] \in Nat
  BY <1>1, LineType DEF MixedFrames
<1>5. PICK q, h, l, a : q = decQ[c] /\ h = Hands(c) /\ l = Line(c) /\ a = encQ[1][c]
  OBVIOUS
<1>6. n \in 1..Len(l) /\ l[n] = a /\ a # 0 /\ a \in Nat
  BY <1>3, <1>4, <1>5 DEF NoFrame
<1>7. /\ k \in Nat \ {0} /\ Shows(q, h, l, k)
      /\ \A i \in DOMAIN sent : sent[i][c] # k
  BY <1>1, <1>5, WaitingIs DEF FrameFacts
<1>8. Older(q, h, l, Last(c)) /\ Ordered(h, l)
  BY <1>1, <1>5 DEF FrameFacts, Once
<1>9. ASSUME NEW i \in 1..Len(q), q[i] = k PROVE a <= k
  <2>1. a < q[i]
    BY ONLY <1>6, <1>8, <1>9 DEF Older, Before
  <2> QED
    BY <1>6, <1>7, <1>9, <2>1
<1>10. ASSUME NEW m \in Mixers, h[m] = k PROVE a <= k
  <2>1. a < k
    BY ONLY <1>6, <1>7, <1>8, <1>10 DEF Ordered
  <2> QED
    BY <1>6, <1>7, <2>1
<1>11. ASSUME NEW o \in 1..Len(l), l[o] = k PROVE a <= k
  <2>1. o >= n
    <3>1. CASE o <= Len(sent)
      <4>1. o \in DOMAIN sent /\ l[o] = sent[o][c]
        BY <1>1, <1>4, <1>5, <1>11, <3>1, LenProperties DEF QueueTypes, Picture
      <4> QED
        BY <1>7, <1>11, <4>1
    <3> QED
      BY <1>1, <1>2, <1>4, <1>5, <3>1, LenProperties DEF QueueTypes
  <2>2. CASE o = n
    BY <1>6, <1>7, <1>11, <2>2
  <2>3. CASE n < o
    <3>1. a < k
      BY ONLY <1>6, <1>7, <1>8, <1>11, <2>3 DEF Ordered
    <3> QED
      BY <1>6, <1>7, <3>1
  <2> QED
    BY <1>2, <1>4, <1>5, <1>6, <2>1, <2>2, <2>3
<1> QED
  BY <1>5, <1>7, <1>9, <1>10, <1>11 DEF Shows

\* Every step is a step of Relay or a stuttering one.
LEMMA StepRelay ==
  ASSUME FInv, FInv', Next
  PROVE  Relayed!Next \/ UNCHANGED Relayed!relayVars
<1>0. IInv' /\ QueueTypes /\ NULL \notin MixedFrames
  BY NullNoPicture DEF FInv, IInv, TypeOK, QueueTypes
<1>1. /\ \A c \in Clients :
           /\ Waiting(c) \subseteq Nat \ {0}
           /\ \A k \in Nat \ {0} :
                k \in Waiting(c) <=> /\ k \in Produced(c)
                                     /\ \A i \in DOMAIN sent : sent[i][c] # k
      /\ \A c \in Clients :
           /\ Waiting(c)' \subseteq Nat \ {0}
           /\ \A k \in Nat \ {0} :
                k \in Waiting(c)' <=> /\ k \in Produced(c)'
                                      /\ \A i \in DOMAIN sent' : sent'[i][c] # k
  <2>1. (FInv => \A c \in Clients :
            /\ Waiting(c) \subseteq Nat \ {0}
            /\ \A k \in Nat \ {0} :
                 k \in Waiting(c) <=> /\ k \in Produced(c)
                                      /\ \A i \in DOMAIN sent : sent[i][c] # k)'
    BY WaitingIs, PTL
  <2> QED
    BY <2>1, WaitingIs
<1>2. ASSUME NEW c \in Clients, UNCHANGED sent, Produced(c)' = Produced(c)
      PROVE  Waiting(c)' = Waiting(c)
  <2>1. PICK W, V : W = Waiting(c) /\ V = Waiting(c)'
    OBVIOUS
  <2>2. W \subseteq Nat \ {0} /\ V \subseteq Nat \ {0}
    BY <1>1, <2>1
  <2>3. \A k \in Nat \ {0} : k \in V <=> k \in W
    BY <1>1, <1>2, <2>1
  <2>4. V = W
    BY ONLY <2>2, <2>3
  <2> QED
    BY <2>1, <2>4
<1>3. ASSUME UNCHANGED sent, \A c \in Clients : Produced(c)' = Produced(c)
      PROVE  UNCHANGED Relayed!relayVars
  <2>1. \A c \in Clients : Waiting(c)' = Waiting(c)
    BY <1>2, <1>3
  <2> QED
    BY <1>3, <2>1 DEF Relayed!relayVars
<1>4. ASSUME NEW c \in Clients, DecodeFrame(c), Produced(c)' # Produced(c)
      PROVE  Relayed!Next
  <2>1. PICK k \in FramesFrom[c] :
          /\ k \in Nat \ {0} /\ Last(c) < k
          /\ Produced(c)' = Produced(c) \cup {k}
    BY <1>0, <1>4, StepProduced
  <2>2. UNCHANGED sent
    BY <1>4 DEF DecodeFrame
  <2>3. \A i \in DOMAIN sent : sent[i][c] < k
    <3>1. Last(c) \in Nat
      BY UnpackFInv
    <3> QED
      BY <2>1, <3>1, SentBounded
  <2>4. ASSUME NEW d \in Clients, d # c PROVE Waiting(d)' = Waiting(d)
    <3>1. recvQ'[d] = recvQ[d] /\ recvPc'[d] = recvPc[d]
          /\ pktNum'[d] = pktNum[d] /\ decPkt'[d] = decPkt[d]
          /\ decDone'[d] = decDone[d] /\ evicted'[d] = evicted[d]
      BY <1>4, <2>4, UnpackFInv, OthersPackets DEF DecoderStep
    <3>2. Produced(d)' = Produced(d)
      BY ONLY <3>1, d \in Clients, OthersFrames
    <3> QED
      BY <1>2, <2>2, <3>2
  <2>5. \A j \in Waiting(c) : j < k
    <3>1. Last(c) \in Nat
      BY UnpackFInv
    <3>2. \A j \in Waiting(c) : j \in Nat \ {0} /\ j \in Produced(c)
      BY <1>1
    <3> QED
      BY <2>1, <3>1, <3>2, ProducedBounded
  <2>6. Waiting(c)' = Waiting(c) \cup {k}
    <3>1. \A i \in DOMAIN sent : sent[i][c] # k
      BY <2>1, <2>3, SentBounded
    <3>2. \A j \in Nat \ {0} : j \in Waiting(c)' <=> j \in Waiting(c) \/ j = k
      BY <1>1, <2>1, <2>2, <3>1
    <3> QED
      BY <1>1, <2>1, <3>2
  <2>7. Relayed!Decode(c, k)
    BY <2>2, <2>3, <2>4, <2>5, <2>6 DEF Relayed!Decode
  <2>8. Waiting(c)' # Waiting(c)
    BY <1>4, <2>1, <2>5, <2>6
  <2> QED
    BY <2>1, <2>7, <2>8 DEF Relayed!Next
<1>5. ASSUME SendPacket PROVE Relayed!Next
  <2>1. PICK f : f = Head(encQ)
    OBVIOUS
  <2>2. /\ encQ # <<>> /\ sent' = Append(sent, f) /\ Downstream
    BY <1>5, <2>1 DEF SendPacket, RemoveEncoded, Downstream
  <2>3. /\ Len(encQ) > 0 /\ Len(encQ) \in Nat /\ f = encQ[1] /\ f \in MixedFrames
        /\ 1 \in DOMAIN encQ
    BY <1>0, <2>1, <2>2, RemoveHead, LenProperties DEF QueueTypes
  <2>4. /\ Len(sent) \in Nat /\ DOMAIN sent = 1..Len(sent)
        /\ DOMAIN sent' = 1..(Len(sent) + 1)
        /\ sent'[Len(sent) + 1] = f
        /\ \A i \in 1..Len(sent) : sent'[i] = sent[i]
    BY <1>0, <2>2, <2>3, AppendProperties, LenProperties DEF QueueTypes
  <2>5. \E c \in Clients : f[c] # NoFrame
    <3>1. PICK n : n = Len(sent) + 1
      OBVIOUS
    <3>2. Working \in {0, 1} /\ Len(mixQ) \in Nat
      BY <1>0 DEF Working, QueueTypes
    <3>3. n \in 1..LineLen /\ Picture(n) = f
      BY <2>3, <2>4, <3>1, <3>2 DEF LineLen, Picture
    <3> QED
      BY <3>3 DEF FInv, Coloured
  <2>6. ASSUME NEW c \in Clients, f[c] # NoFrame PROVE f[c] \in Waiting(c)
    BY <2>3, <2>6 DEF Waiting
  <2>7. f \in Relayed!Pictures
    <3>1. ASSUME NEW c \in Clients
          PROVE  f[c] \in (UNION {FramesFrom[d] : d \in Clients}) \cup {NoFrame}
      <4>1. CASE f[c] = NoFrame
        BY <4>1
      <4>2. CASE f[c] # NoFrame
        <5>1. PICK k : k = f[c]
          OBVIOUS
        <5>2. k \in Nat \ {0} /\ k \in Produced(c)
          BY <1>1, <2>6, <4>2, <5>1
        <5>3. k \in FramesFrom[c]
          BY <5>2, ProducedBounded
        <5> QED
          BY ONLY <5>1, <5>3, c \in Clients
      <4> QED
        BY <4>1, <4>2
    <3> QED
      BY <2>3, <3>1 DEF Relayed!Pictures, MixedFrames
  <2>8. ASSUME NEW c \in Clients PROVE Waiting(c)' = Waiting(c) \ {f[c]}
    <3>1. Produced(c)' = Produced(c)
      <4>1. UNCHANGED <<recvQ, recvPc, pktNum, decPkt, decDone, evicted>>
        BY <2>2, DownstreamPackets
      <4>2. recvQ'[c] = recvQ[c] /\ recvPc'[c] = recvPc[c]
            /\ pktNum'[c] = pktNum[c] /\ decPkt'[c] = decPkt[c]
            /\ decDone'[c] = decDone[c] /\ evicted'[c] = evicted[c]
        BY ONLY <4>1
      <4> QED
        BY ONLY <4>2, c \in Clients, OthersFrames
    <3>2. \A k : (\A i \in DOMAIN sent' : sent'[i][c] # k)
                   <=> (\A i \in DOMAIN sent : sent[i][c] # k) /\ f[c] # k
      BY <2>4
    <3>3. \A k \in Nat \ {0} : k \in Waiting(c)' <=> k \in Waiting(c) /\ f[c] # k
      BY <1>1, <3>1, <3>2
    <3> QED
      BY <1>1, <3>3
  <2>9. ASSUME Cardinality(Mixers) <= 1, NEW c \in Clients, NEW k \in Waiting(c),
               f[c] # NoFrame
        PROVE  f[c] <= k
    BY <2>2, <2>3, <2>9, OldestNext
  <2>10. Relayed!Send(f)
    BY <2>2, <2>5, <2>6, <2>8, <2>9 DEF Relayed!Send
  <2>11. \E c \in Clients : Waiting(c)' # Waiting(c)
    BY <2>5, <2>6, <2>8
  <2> QED
    BY <2>7, <2>10, <2>11 DEF Relayed!Next
<1>6. CASE ~SendPacket
  <2>1. UNCHANGED sent
    BY <1>6 DEF Next, Receive, ReceiverStep, CheckLimit, Evict, InsertPacket,
       DecoderStep, TakePacket, DecodeFrame, FinishPacket, MixerStep, FetchFrame,
       SkipRound, MixFrames, ReleaseFrames, EncoderStep, TakeMixed, EncodeFrame
  <2>2. CASE \A c \in Clients : Produced(c)' = Produced(c)
    BY <1>3, <2>1, <2>2
  <2>3. CASE \E c \in Clients : Produced(c)' # Produced(c)
    <3>1. PICK c \in Clients : Produced(c)' # Produced(c)
      BY <2>3
    <3>2. DecodeFrame(c)
      BY <1>0, <3>1, StepProduced
    <3> QED
      BY <1>4, <3>1, <3>2
  <2> QED
    BY <2>2, <2>3
<1> QED
  BY <1>5, <1>6

\* The workers together are a relay: whatever they do, a frame that is decoded
\* waits until one picture takes it to the network.
THEOREM WorkersRelay == Spec => ImplementsRelay
<1>1. Init => Relayed!Init
  <2> SUFFICES ASSUME Init PROVE Relayed!Init
    OBVIOUS
  <2>1. FInv /\ sent = <<>>
    BY InitFInv DEF Init
  <2>2. ASSUME NEW c \in Clients PROVE Waiting(c) = {}
    <3>1. /\ decQ[c] = <<>> /\ mixQ = <<>> /\ encQ = <<>> /\ encFrm = NULL
          /\ \A m \in Mixers : frms[m][c] = NoFrame
      BY DEF Init
    <3> QED
      BY ONLY <3>1 DEF Waiting
  <2> QED
    BY <2>1, <2>2 DEF Relayed!Init
<1>2. FInv /\ FInv' /\ [Next]_vars => [Relayed!Next]_(Relayed!relayVars)
  <2>1. ASSUME UNCHANGED vars PROVE UNCHANGED Relayed!relayVars
    <3>1. UNCHANGED <<decQ, mixQ, encQ, encFrm, frms, sent>>
      BY <2>1 DEF vars, queues, mixers
    <3>2. \A c \in Clients : Waiting(c)' = Waiting(c)
      BY ONLY <3>1 DEF Waiting
    <3> QED
      BY <3>1, <3>2 DEF Relayed!relayVars
  <2> QED
    BY <2>1, StepRelay
<1> QED
  BY <1>1, <1>2, FrameInvariance, PTL DEF Spec, ImplementsRelay, Relayed!Spec
=============================================================================
