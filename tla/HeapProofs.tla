----------------------------- MODULE HeapProofs -----------------------------
(***************************************************************************)
(* No payload in Pipeline leaks, is freed twice or too early: what a step  *)
(* allocates and frees is what becomes, and ceases to be, live.  A payload *)
(* is freed when it leaves the only place it has, so the proof rests on    *)
(* FrameProofs: a packet, a frame and a picture have one place each.       *)
(***************************************************************************)
EXTENDS FrameProofs

-----------------------------------------------------------------------------
(* Payloads: the live ones by kind.                                        *)

PacketLive(c, p) ==
  \/ \E i \in 1..Len(recvQ[c]) : recvQ[c][i] = p
  \/ recvPc[c] # "recv" /\ pktNum[c] = p
  \/ decPkt[c] # NoPacket /\ decPkt[c] = p

FrameLive(c, k) ==
  \/ \E i \in 1..Len(decQ[c]) : decQ[c][i] = k
  \/ \E m \in Mixers : frms[m][c] # NoFrame /\ frms[m][c] = k

MixedLive(f) ==
  \/ \E i \in 1..Len(mixQ) : mixQ[i] = f
  \/ encFrm # NULL /\ encFrm = f

EncodedLive(f) == \E i \in 1..Len(encQ) : encQ[i] = f

Payload(x) ==
  \/ \E c \in Clients : \E p \in Nat : x = Packet(c, p)
  \/ \E c \in Clients : \E k \in Nat : x = Frame(c, k)
  \/ \E f \in MixedFrames : x = Mixed(f)
  \/ \E f \in MixedFrames : x = Encoded(f)

\* Payloads of different kinds, clients or numbers differ.
LEMMA PayloadsDiffer ==
  /\ \A c, p, d, q : Packet(c, p) = Packet(d, q) <=> c = d /\ p = q
  /\ \A c, p, d, q : Frame(c, p) = Frame(d, q) <=> c = d /\ p = q
  /\ \A f, g : Mixed(f) = Mixed(g) <=> f = g
  /\ \A f, g : Encoded(f) = Encoded(g) <=> f = g
  /\ \A c, p, d, k : Packet(c, p) # Frame(d, k)
  /\ \A c, p, f : Packet(c, p) # Mixed(f) /\ Packet(c, p) # Encoded(f)
  /\ \A c, p, f : Frame(c, p) # Mixed(f) /\ Frame(c, p) # Encoded(f)
  /\ \A f, g : Mixed(f) # Encoded(g)
<1>1. /\ \A c, p : Packet(c, p)[1] = "packet"
      /\ \A c, p : Frame(c, p)[1] = "frame"
      /\ \A f : Mixed(f)[1] = "mixed"
      /\ \A f : Encoded(f)[1] = "encoded"
  BY DEF Packet, Frame, Mixed, Encoded
<1>2. /\ \A c, p, d, q : Packet(c, p) = Packet(d, q) <=> c = d /\ p = q
      /\ \A c, p, d, q : Frame(c, p) = Frame(d, q) <=> c = d /\ p = q
      /\ \A f, g : Mixed(f) = Mixed(g) <=> f = g
      /\ \A f, g : Encoded(f) = Encoded(g) <=> f = g
  BY DEF Packet, Frame, Mixed, Encoded
<1>3. /\ \A c, p, d, k : Packet(c, p) # Frame(d, k)
      /\ \A c, p, f : Packet(c, p) # Mixed(f) /\ Packet(c, p) # Encoded(f)
      /\ \A c, p, f : Frame(c, p) # Mixed(f) /\ Frame(c, p) # Encoded(f)
      /\ \A f, g : Mixed(f) # Encoded(g)
  BY <1>1
<1> QED
  BY <1>2, <1>3

\* Live, kind by kind.
LEMMA LiveKinds ==
  TypeOK =>
    /\ \A x \in Live : Payload(x)
    /\ \A c \in Clients : \A p \in Nat : Packet(c, p) \in Live <=> PacketLive(c, p)
    /\ \A c \in Clients : \A k \in Nat : Frame(c, k) \in Live <=> FrameLive(c, k)
    /\ \A f \in MixedFrames : Mixed(f) \in Live <=> MixedLive(f)
    /\ \A f \in MixedFrames : Encoded(f) \in Live <=> EncodedLive(f)
<1> SUFFICES ASSUME TypeOK
             PROVE  /\ \A x \in Live : Payload(x)
                    /\ \A c \in Clients : \A p \in Nat :
                         Packet(c, p) \in Live <=> PacketLive(c, p)
                    /\ \A c \in Clients : \A k \in Nat :
                         Frame(c, k) \in Live <=> FrameLive(c, k)
                    /\ \A f \in MixedFrames : Mixed(f) \in Live <=> MixedLive(f)
                    /\ \A f \in MixedFrames : Encoded(f) \in Live <=> EncodedLive(f)
  OBVIOUS
<1>1. /\ \A c \in Clients : /\ DOMAIN recvQ[c] = 1..Len(recvQ[c])
                            /\ DOMAIN decQ[c] = 1..Len(decQ[c])
      /\ DOMAIN mixQ = 1..Len(mixQ) /\ DOMAIN encQ = 1..Len(encQ)
  BY LenProperties DEF TypeOK
<1>2. /\ \A c \in Clients : \A i \in 1..Len(recvQ[c]) : recvQ[c][i] \in Nat
      /\ \A c \in Clients : \A i \in 1..Len(decQ[c]) : decQ[c][i] \in Nat
      /\ \A c \in Clients : pktNum[c] \in Nat /\ decPkt[c] \in Nat
      /\ \A m \in Mixers : \A c \in Clients : frms[m][c] \in Nat
      /\ \A i \in 1..Len(mixQ) : mixQ[i] \in MixedFrames
      /\ encFrm # NULL => encFrm \in MixedFrames
      /\ \A i \in 1..Len(encQ) : encQ[i] \in MixedFrames
  <2>1. /\ \A c \in Clients : recvQ[c] \in Seq(Nat) /\ decQ[c] \in Seq(Nat)
        /\ mixQ \in Seq(MixedFrames) /\ encQ \in Seq(MixedFrames)
        /\ \A m \in Mixers : frms[m] \in MixedFrames
    BY DEF TypeOK
  <2> QED
    BY <2>1, ElementOfSeq DEF TypeOK, MixedFrames
<1>3. ASSUME NEW x
      PROVE  x \in Live <=>
               \/ \E c \in Clients : \E p : x = Packet(c, p) /\ PacketLive(c, p)
               \/ \E c \in Clients : \E k : x = Frame(c, k) /\ FrameLive(c, k)
               \/ \E f : x = Mixed(f) /\ MixedLive(f)
               \/ \E f : x = Encoded(f) /\ EncodedLive(f)
  <2> DEFINE Q(c) == {Packet(c, recvQ[c][i]) : i \in DOMAIN recvQ[c]}
             D(c) == {Frame(c, decQ[c][i]) : i \in DOMAIN decQ[c]}
  <2>1. x \in UNION {Q(c) : c \in Clients} <=>
          \E c \in Clients : \E i \in 1..Len(recvQ[c]) : x = Packet(c, recvQ[c][i])
    <3>1. x \in UNION {Q(c) : c \in Clients} <=> \E c \in Clients : x \in Q(c)
      BY ONLY TRUE
    <3> QED
      BY <1>1, <3>1
  <2>2. x \in UNION {D(c) : c \in Clients} <=>
          \E c \in Clients : \E i \in 1..Len(decQ[c]) : x = Frame(c, decQ[c][i])
    <3>1. x \in UNION {D(c) : c \in Clients} <=> \E c \in Clients : x \in D(c)
      BY ONLY TRUE
    <3> QED
      BY <1>1, <3>1
  <2>3. x \in UNION {FetchedFrames(m) : m \in Mixers} <=>
          \E m \in Mixers : \E c \in Clients :
            frms[m][c] # NoFrame /\ x = Frame(c, frms[m][c])
    <3>1. x \in UNION {FetchedFrames(m) : m \in Mixers} <=>
            \E m \in Mixers : x \in FetchedFrames(m)
      BY ONLY TRUE
    <3> QED
      BY <3>1 DEF FetchedFrames, Fetched
  <2>4. x \in Live <=>
          \/ x \in UNION {Q(c) : c \in Clients}
          \/ \E c \in Clients : recvPc[c] # "recv" /\ x = Packet(c, pktNum[c])
          \/ \E c \in Clients : decPkt[c] # NoPacket /\ x = Packet(c, decPkt[c])
          \/ x \in UNION {D(c) : c \in Clients}
          \/ x \in UNION {FetchedFrames(m) : m \in Mixers}
          \/ \E i \in 1..Len(mixQ) : x = Mixed(mixQ[i])
          \/ encFrm # NULL /\ x = Mixed(encFrm)
          \/ \E i \in 1..Len(encQ) : x = Encoded(encQ[i])
    BY <1>1, Zenon DEF Live
  <2>5. (\E c \in Clients : \E p : x = Packet(c, p) /\ PacketLive(c, p)) <=>
          \/ \E c \in Clients : \E i \in 1..Len(recvQ[c]) : x = Packet(c, recvQ[c][i])
          \/ \E c \in Clients : recvPc[c] # "recv" /\ x = Packet(c, pktNum[c])
          \/ \E c \in Clients : decPkt[c] # NoPacket /\ x = Packet(c, decPkt[c])
    BY ONLY TRUE, Zenon DEF PacketLive
  <2>6. (\E c \in Clients : \E k : x = Frame(c, k) /\ FrameLive(c, k)) <=>
          \/ \E c \in Clients : \E i \in 1..Len(decQ[c]) : x = Frame(c, decQ[c][i])
          \/ \E m \in Mixers : \E c \in Clients :
               frms[m][c] # NoFrame /\ x = Frame(c, frms[m][c])
    BY ONLY TRUE, Zenon DEF FrameLive
  <2>7. (\E f : x = Mixed(f) /\ MixedLive(f)) <=>
          \/ \E i \in 1..Len(mixQ) : x = Mixed(mixQ[i])
          \/ encFrm # NULL /\ x = Mixed(encFrm)
    BY ONLY TRUE, Zenon DEF MixedLive
  <2>8. (\E f : x = Encoded(f) /\ EncodedLive(f)) <=>
          \E i \in 1..Len(encQ) : x = Encoded(encQ[i])
    BY ONLY TRUE, Zenon DEF EncodedLive
  <2> HIDE DEF Q, D
  <2> QED
    BY ONLY <2>1, <2>2, <2>3, <2>4, <2>5, <2>6, <2>7, <2>8
<1>4. /\ \A c \in Clients : \A p : PacketLive(c, p) => p \in Nat
      /\ \A c \in Clients : \A k : FrameLive(c, k) => k \in Nat
      /\ \A f : MixedLive(f) => f \in MixedFrames
      /\ \A f : EncodedLive(f) => f \in MixedFrames
  BY ONLY <1>2 DEF PacketLive, FrameLive, MixedLive, EncodedLive
<1>5. \A x \in Live : Payload(x)
  BY ONLY <1>3, <1>4 DEF Payload
<1>6. \A c \in Clients : \A p \in Nat : Packet(c, p) \in Live <=> PacketLive(c, p)
  BY ONLY <1>3, PayloadsDiffer
<1>7. \A c \in Clients : \A k \in Nat : Frame(c, k) \in Live <=> FrameLive(c, k)
  BY ONLY <1>3, PayloadsDiffer
<1>8. \A f \in MixedFrames : Mixed(f) \in Live <=> MixedLive(f)
  BY ONLY <1>3, PayloadsDiffer
<1>9. \A f \in MixedFrames : Encoded(f) \in Live <=> EncodedLive(f)
  BY ONLY <1>3, PayloadsDiffer
<1> QED
  BY <1>5, <1>6, <1>7, <1>8, <1>9

\* A step that allocates the payloads new and frees the payloads old, of each
\* kind.
Payloads(new, old) ==
  /\ \A c \in Clients : \A p \in Nat :
       PacketLive(c, p)' <=>
         (PacketLive(c, p) \/ Packet(c, p) \in new) /\ Packet(c, p) \notin old
  /\ \A c \in Clients : \A k \in Nat :
       FrameLive(c, k)' <=>
         (FrameLive(c, k) \/ Frame(c, k) \in new) /\ Frame(c, k) \notin old
  /\ \A f \in MixedFrames :
       MixedLive(f)' <=>
         (MixedLive(f) \/ Mixed(f) \in new) /\ Mixed(f) \notin old
  /\ \A f \in MixedFrames :
       EncodedLive(f)' <=>
         (EncodedLive(f) \/ Encoded(f) \in new) /\ Encoded(f) \notin old

\* The heap stays exact when a step allocates what becomes live, and frees
\* live payloads that cease to be.
LEMMA HeapStep ==
  ASSUME TypeOK, TypeOK', HeapExact, NEW new, NEW old, Memory(new, old),
         Payloads(new, old), \A x \in new : Payload(x), old \subseteq Live
  PROVE  HeapExact'
<1>1. (TypeOK =>
        /\ \A x \in Live : Payload(x)
        /\ \A c \in Clients : \A p \in Nat : Packet(c, p) \in Live <=> PacketLive(c, p)
        /\ \A c \in Clients : \A k \in Nat : Frame(c, k) \in Live <=> FrameLive(c, k)
        /\ \A f \in MixedFrames : Mixed(f) \in Live <=> MixedLive(f)
        /\ \A f \in MixedFrames : Encoded(f) \in Live <=> EncodedLive(f))'
  BY LiveKinds, PTL
<1>2. \A x : Payload(x)' <=> Payload(x)
  BY DEF Payload, Packet, Frame, Mixed, Encoded, MixedFrames
<1>3. /\ \A c, p : Packet(c, p)' = Packet(c, p) /\ Frame(c, p)' = Frame(c, p)
      /\ \A f : Mixed(f)' = Mixed(f) /\ Encoded(f)' = Encoded(f)
  BY DEF Packet, Frame, Mixed, Encoded
<1>4. PICK L, M : L = Live /\ M = Live'
  OBVIOUS
<1>5. \A x : Payload(x) => (x \in M <=> (x \in L \/ x \in new) /\ x \notin old)
  <2>1. ASSUME NEW c \in Clients, NEW p \in Nat
        PROVE  Packet(c, p) \in M <=>
                 (Packet(c, p) \in L \/ Packet(c, p) \in new) /\ Packet(c, p) \notin old
    BY <1>1, <1>3, <1>4, LiveKinds DEF Payloads
  <2>2. ASSUME NEW c \in Clients, NEW p \in Nat
        PROVE  Frame(c, p) \in M <=>
                 (Frame(c, p) \in L \/ Frame(c, p) \in new) /\ Frame(c, p) \notin old
    BY <1>1, <1>3, <1>4, LiveKinds DEF Payloads
  <2>3. ASSUME NEW f \in MixedFrames
        PROVE  Mixed(f) \in M <=>
                 (Mixed(f) \in L \/ Mixed(f) \in new) /\ Mixed(f) \notin old
    BY <1>1, <1>3, <1>4, LiveKinds DEF Payloads
  <2>4. ASSUME NEW f \in MixedFrames
        PROVE  Encoded(f) \in M <=>
                 (Encoded(f) \in L \/ Encoded(f) \in new) /\ Encoded(f) \notin old
    BY <1>1, <1>3, <1>4, LiveKinds DEF Payloads
  <2> QED
    BY ONLY <2>1, <2>2, <2>3, <2>4 DEF Payload
<1>6. /\ \A x \in L : Payload(x)
      /\ \A x \in M : Payload(x)
  BY <1>1, <1>2, <1>4, LiveKinds
<1>7. M = (L \cup new) \ old
  BY ONLY <1>5, <1>6, \A x \in new : Payload(x)
<1>8. heap' = (L \cup new) \ old /\ badFree' = FALSE
  BY <1>4 DEF HeapExact, Memory
<1> QED
  BY <1>4, <1>7, <1>8 DEF HeapExact

-----------------------------------------------------------------------------
(* The heap, action by action.                                             *)

\* A client's packets are numbered: in hand, queued, taken.
LEMMA PacketPlaces ==
  ASSUME FInv, NEW c \in Clients
  PROVE  /\ recvQ[c] \in Seq(Nat) /\ Len(recvQ[c]) \in Nat
         /\ Taken(c) \in Nat /\ decPkt[c] \in Nat /\ pktNum[c] \in Nat
         /\ \A i \in 1..Len(recvQ[c]) : recvQ[c][i] = Taken(c) + i
         /\ recvPc[c] # "recv" => pktNum[c] = Taken(c) + Len(recvQ[c]) + 1
         /\ decPkt[c] <= Taken(c)
<1>1. IInv /\ PacketFacts(c)
  BY UnpackFInv
<1>2. /\ recvQ[c] \in Seq(Nat) /\ Len(recvQ[c]) \in Nat
      /\ Taken(c) \in Nat /\ decPkt[c] \in Nat /\ pktNum[c] \in Nat
      /\ decPkt[c] <= Taken(c) /\ Queued(c) \in Int
  BY <1>1, PacketTypes DEF PacketFacts
<1>3. Queued(c) = Taken(c) + Len(recvQ[c])
  BY ONLY <1>2 DEF Taken
<1>4. \A i \in 1..Len(recvQ[c]) : recvQ[c][i] = Queued(c) - Len(recvQ[c]) + i
  BY <1>1 DEF IInv, NewestKept
<1>5. recvPc[c] # "recv" => pktNum[c] = Queued(c) + 1
  BY ONLY <1>2 DEF Queued
<1> QED
  BY ONLY <1>2, <1>3, <1>4, <1>5

\* The receiver's and the decoder's steps that decode nothing touch packets of
\* their client only.
LEMMA PacketHeap ==
  ASSUME TypeOK, NEW c \in Clients, NEW new, NEW old,
         Receive(c) \/ ReceiverStep(c) \/ TakePacket(c) \/ FinishPacket(c),
         \A p \in Nat :
           PacketLive(c, p)' <=>
             (PacketLive(c, p) \/ Packet(c, p) \in new) /\ Packet(c, p) \notin old,
         \A x \in new \cup old : \E p \in Nat : x = Packet(c, p)
  PROVE  Payloads(new, old) /\ \A x \in new : Payload(x)
<1>1. ASSUME NEW d \in Clients, NEW p \in Nat
      PROVE  PacketLive(d, p)' <=>
               (PacketLive(d, p) \/ Packet(d, p) \in new) /\ Packet(d, p) \notin old
  <2>1. CASE d = c
    BY <2>1
  <2>2. CASE d # c
    <3>1. DecoderStep(c) \/ Receive(c) \/ ReceiverStep(c)
      BY DEF DecoderStep
    <3>2. /\ recvQ'[d] = recvQ[d] /\ recvPc'[d] = recvPc[d]
          /\ pktNum'[d] = pktNum[d] /\ decPkt'[d] = decPkt[d]
      BY <2>2, <3>1, OthersPackets
    <3>3. PacketLive(d, p)' <=> PacketLive(d, p)
      BY ONLY <3>2 DEF PacketLive
    <3>4. Packet(d, p) \notin new /\ Packet(d, p) \notin old
      BY <2>2, PayloadsDiffer
    <3> QED
      BY ONLY <3>3, <3>4
  <2> QED
    BY <2>1, <2>2
<1>2. UNCHANGED <<decQ, mixQ, encQ, encFrm, frms>>
  BY QuietSteps DEF mixers
<1>3. /\ \A d, k : FrameLive(d, k)' <=> FrameLive(d, k)
      /\ \A f : MixedLive(f)' <=> MixedLive(f)
      /\ \A f : EncodedLive(f)' <=> EncodedLive(f)
  BY ONLY <1>2 DEF FrameLive, MixedLive, EncodedLive
<1>4. /\ \A d, k : Frame(d, k) \notin new /\ Frame(d, k) \notin old
      /\ \A f : Mixed(f) \notin new /\ Mixed(f) \notin old
      /\ \A f : Encoded(f) \notin new /\ Encoded(f) \notin old
  BY PayloadsDiffer
<1>5. Payloads(new, old)
  BY ONLY <1>1, <1>3, <1>4 DEF Payloads
<1> QED
  BY <1>5 DEF Payload

\* A step that leaves the heap alone allocates and frees nothing.
LEMMA NoMemory ==
  ASSUME TypeOK, HeapExact, UNCHANGED memory
  PROVE  Memory({}, {})
<1>1. badFree = FALSE /\ heap' = heap /\ badFree' = badFree
  BY DEF TypeOK, HeapExact, memory
<1>2. heap' = (heap \cup {}) \ {} /\ {} \subseteq heap
  BY ONLY <1>1
<1>3. badFree' = (badFree \/ ~({} \subseteq heap))
  BY ONLY <1>1, <1>2
<1> QED
  BY ONLY <1>2, <1>3 DEF Memory

\* A step of a receiver, and the decoder taking or finishing a packet.
LEMMA PacketHeapStep ==
  ASSUME FInv, IInv', HeapExact, NEW c \in Clients,
         Receive(c) \/ ReceiverStep(c) \/ TakePacket(c) \/ FinishPacket(c)
  PROVE  HeapExact'
<1>0. TypeOK /\ TypeOK'
  BY DEF FInv, IInv
<1>1. PICK q, t, p, n :
        q = recvQ[c] /\ t = Taken(c) /\ p = decPkt[c] /\ n = pktNum[c]
  OBVIOUS
<1>2. /\ q \in Seq(Nat) /\ Len(q) \in Nat /\ t \in Nat /\ p \in Nat /\ n \in Nat
      /\ \A i \in 1..Len(q) : q[i] = t + i
      /\ recvPc[c] # "recv" => n = t + Len(q) + 1
      /\ p <= t
  BY <1>1, PacketPlaces
<1>3. \A x : PacketLive(c, x) <=> \/ \E i \in 1..Len(q) : q[i] = x
                                  \/ recvPc[c] # "recv" /\ n = x
                                  \/ p # NoPacket /\ p = x
  BY <1>1 DEF PacketLive
<1>3a. \A x : PacketLive(c, x)' <=>
                \/ \E i \in 1..Len(recvQ'[c]) : recvQ'[c][i] = x
                \/ recvPc'[c] # "recv" /\ pktNum'[c] = x
                \/ decPkt'[c] # NoPacket /\ decPkt'[c] = x
  BY DEF PacketLive, NoPacket
<1>4. ASSUME \A x \in Nat : PacketLive(c, x)' <=> PacketLive(c, x), UNCHANGED memory
      PROVE  HeapExact'
  <2>1. Payloads({}, {})
    BY <1>0, <1>4, PacketHeap
  <2> QED
    BY <1>0, <1>4, <2>1, NoMemory, HeapStep
<1>5. ASSUME NEW x \in Nat, PacketLive(c, x),
             \A y \in Nat : PacketLive(c, y)' <=> PacketLive(c, y) /\ y # x,
             Memory({}, {Packet(c, x)})
      PROVE  HeapExact'
  <2>1. {Packet(c, x)} \subseteq Live
    BY <1>0, <1>5, LiveKinds
  <2>2. Payloads({}, {Packet(c, x)})
    <3>1. \A y \in Nat :
            PacketLive(c, y)' <=>
              (PacketLive(c, y) \/ Packet(c, y) \in {})
                /\ Packet(c, y) \notin {Packet(c, x)}
      BY <1>5, PayloadsDiffer
    <3>2. \A y \in {} \cup {Packet(c, x)} : \E z \in Nat : y = Packet(c, z)
      BY ONLY x \in Nat
    <3>3. PICK new, old : new = {} /\ old = {Packet(c, x)}
      OBVIOUS
    <3>4. Payloads(new, old)
      BY <1>0, <3>1, <3>2, <3>3, PacketHeap
    <3> QED
      BY <3>3, <3>4
  <2>3. PICK new, old : new = {} /\ old = {Packet(c, x)}
    OBVIOUS
  <2>4. /\ Memory(new, old) /\ Payloads(new, old) /\ old \subseteq Live
        /\ \A y \in new : Payload(y)
    BY <1>5, <2>1, <2>2, <2>3
  <2> QED
    BY ONLY <1>0, HeapExact, <2>4, HeapStep
<1>6. CASE Receive(c)
  <2>1. /\ recvPc[c] = "recv" /\ recvPc'[c] # "recv" /\ pktNum'[c] = n + 1
        /\ recvQ'[c] = q /\ decPkt'[c] = p
        /\ Memory({Packet(c, n + 1)}, {})
    BY <1>0, <1>1, <1>6 DEF Receive, TypeOK, queues, decoders
  <2>2. \A x \in Nat : PacketLive(c, x)' <=> PacketLive(c, x) \/ x = n + 1
    BY ONLY <1>3, <1>3a, <2>1
  <2>3. PICK new, old : new = {Packet(c, n + 1)} /\ old = {}
    OBVIOUS
  <2>4. /\ \A x \in Nat :
             PacketLive(c, x)' <=>
               (PacketLive(c, x) \/ Packet(c, x) \in new) /\ Packet(c, x) \notin old
        /\ \A x \in new \cup old : \E y \in Nat : x = Packet(c, y)
    BY <1>2, <2>2, <2>3, PayloadsDiffer
  <2>5. Payloads(new, old) /\ \A x \in new : Payload(x)
    BY ONLY <1>0, <1>6, <2>4, c \in Clients, PacketHeap
  <2>6. Memory(new, old) /\ old \subseteq Live
    BY <2>1, <2>3
  <2> QED
    BY ONLY <1>0, HeapExact, <2>5, <2>6, HeapStep
<1>7. CASE CheckLimit(c)
  <2>1. /\ recvPc[c] # "recv" /\ recvPc'[c] # "recv" /\ pktNum'[c] = n
        /\ recvQ'[c] = q /\ decPkt'[c] = p /\ UNCHANGED memory
    BY <1>0, <1>1, <1>7 DEF CheckLimit, TypeOK, queues, decoders
  <2>2. \A x \in Nat : PacketLive(c, x)' <=> PacketLive(c, x)
    BY ONLY <1>3, <1>3a, <2>1
  <2> QED
    BY <1>4, <2>1, <2>2
<1>8. CASE Evict(c)
  <2>1. CASE q = <<>>
    <3>1. UNCHANGED <<recvQ, recvPc, pktNum, decPkt, memory>>
      BY <1>1, <1>8, <2>1 DEF Evict, RemoveRecv, decoders
    <3>2. \A x \in Nat : PacketLive(c, x)' <=> PacketLive(c, x)
      BY ONLY <3>1 DEF PacketLive
    <3> QED
      BY <1>4, <3>1, <3>2
  <2>2. CASE q # <<>>
    <3>1. /\ recvQ'[c] = Tail(q) /\ recvPc[c] # "recv" /\ recvPc'[c] # "recv"
          /\ pktNum'[c] = n /\ decPkt'[c] = p
          /\ Memory({}, {Packet(c, Head(q))})
      BY <1>0, <1>1, <1>8, <2>2 DEF Evict, RemoveRecv, TypeOK, decoders
    <3>2. /\ Len(q) > 0 /\ Head(q) = q[1] /\ Len(Tail(q)) = Len(q) - 1
          /\ \A i \in 1..Len(Tail(q)) : Tail(q)[i] = q[i + 1]
      BY <1>2, <2>2, RemoveHead
    <3>3. Head(q) = t + 1
      BY <1>2, <3>2
    <3>4. \A x : (\E i \in 1..Len(Tail(q)) : Tail(q)[i] = x)
                   <=> (\E i \in 1..Len(q) : q[i] = x) /\ x # Head(q)
      <4>1. ASSUME NEW i \in 1..Len(Tail(q))
            PROVE  i + 1 \in 1..Len(q) /\ Tail(q)[i] = q[i + 1] /\ q[i + 1] # Head(q)
        BY <1>2, <3>2, <3>3
      <4>2. ASSUME NEW i \in 1..Len(q), q[i] # Head(q)
            PROVE  i - 1 \in 1..Len(Tail(q)) /\ Tail(q)[i - 1] = q[i]
        BY <1>2, <3>2, <4>2
      <4> QED
        BY <4>1, <4>2
    <3>5. n # Head(q) /\ (p # NoPacket => p # Head(q))
      BY <1>2, <3>1, <3>2, <3>3
    <3>6. \A x \in Nat : PacketLive(c, x)' <=> PacketLive(c, x) /\ x # Head(q)
      BY ONLY <1>3, <1>3a, <3>1, <3>4, <3>5
    <3>7. PacketLive(c, Head(q)) /\ Head(q) \in Nat
      BY <1>2, <1>3, <3>2, <3>3
    <3>8. PICK x : x = Head(q)
      OBVIOUS
    <3>9. /\ x \in Nat /\ PacketLive(c, x) /\ Memory({}, {Packet(c, x)})
          /\ \A y \in Nat : PacketLive(c, y)' <=> PacketLive(c, y) /\ y # x
      BY <3>1, <3>6, <3>7, <3>8
    <3> QED
      BY ONLY <1>5, <3>9
  <2> QED
    BY <2>1, <2>2
<1>9. CASE InsertPacket(c)
  <2>1. /\ recvQ'[c] = Append(q, n) /\ recvPc[c] # "recv" /\ recvPc'[c] = "recv"
        /\ decPkt'[c] = p /\ UNCHANGED memory
    BY <1>0, <1>1, <1>9 DEF InsertPacket, InsertRecv, TypeOK, decoders
  <2>2. /\ Len(Append(q, n)) = Len(q) + 1 /\ Append(q, n)[Len(q) + 1] = n
        /\ \A i \in 1..Len(q) : Append(q, n)[i] = q[i]
    BY <1>2, AppendProperties
  <2>3. \A x : (\E i \in 1..Len(Append(q, n)) : Append(q, n)[i] = x)
                 <=> (\E i \in 1..Len(q) : q[i] = x) \/ n = x
    <3>1. /\ Len(q) + 1 \in 1..(Len(q) + 1)
          /\ \A i \in 1..(Len(q) + 1) : i \in 1..Len(q) \/ i = Len(q) + 1
          /\ \A i \in 1..Len(q) : i \in 1..(Len(q) + 1)
      BY <1>2
    <3> QED
      BY ONLY <2>2, <3>1
  <2>4. \A x \in Nat : PacketLive(c, x)' <=> PacketLive(c, x)
    BY ONLY <1>3, <1>3a, <2>1, <2>3
  <2> QED
    BY <1>4, <2>1, <2>4
<1>10. CASE TakePacket(c)
  <2>1. /\ p = NoPacket /\ q # <<>> /\ recvQ'[c] = Tail(q)
        /\ recvPc'[c] = recvPc[c] /\ pktNum'[c] = n /\ decPkt'[c] = Head(q)
        /\ UNCHANGED memory
    BY <1>0, <1>1, <1>10 DEF TakePacket, RemoveRecv, TypeOK, receivers
  <2>2. /\ Len(q) > 0 /\ Head(q) = q[1] /\ Len(Tail(q)) = Len(q) - 1
        /\ \A i \in 1..Len(Tail(q)) : Tail(q)[i] = q[i + 1]
    BY <1>2, <2>1, RemoveHead
  <2>3. \A x : (\E i \in 1..Len(Tail(q)) : Tail(q)[i] = x) \/ Head(q) = x
                 <=> (\E i \in 1..Len(q) : q[i] = x)
    <3>1. ASSUME NEW i \in 1..Len(Tail(q))
          PROVE  i + 1 \in 1..Len(q) /\ Tail(q)[i] = q[i + 1]
      BY <1>2, <2>2
    <3>2. ASSUME NEW i \in 1..Len(q)
          PROVE  i # 1 => i - 1 \in 1..Len(Tail(q)) /\ Tail(q)[i - 1] = q[i]
      <4>1. i # 1 => i - 1 \in 1..Len(Tail(q)) /\ (i - 1) + 1 = i
        BY <1>2, <2>2
      <4> QED
        BY <2>2, <4>1
    <3>3. 1 \in 1..Len(q)
      BY <1>2, <2>2
    <3> QED
      BY ONLY <2>2, <3>1, <3>2, <3>3
  <2>4. Head(q) # NoPacket
    BY <1>2, <2>2 DEF NoPacket
  <2>5. \A x \in Nat : PacketLive(c, x)' <=> PacketLive(c, x)
    BY ONLY <1>3, <1>3a, <2>1, <2>3, <2>4
  <2> QED
    BY <1>4, <2>1, <2>5
<1>11. CASE FinishPacket(c)
  <2>1. /\ p # NoPacket /\ recvQ'[c] = q /\ recvPc'[c] = recvPc[c]
        /\ pktNum'[c] = n /\ decPkt'[c] = NoPacket /\ Memory({}, {Packet(c, p)})
    BY <1>0, <1>1, <1>11 DEF FinishPacket, TypeOK, receivers, queues
  <2>2. /\ \A i \in 1..Len(q) : q[i] # p
        /\ recvPc[c] # "recv" => n # p
    BY <1>2
  <2>3. \A y \in Nat : PacketLive(c, y)' <=> PacketLive(c, y) /\ y # p
    BY ONLY <1>3, <1>3a, <2>1, <2>2
  <2>4. PacketLive(c, p)
    BY <1>3, <2>1
  <2> QED
    BY ONLY <1>2, <1>5, <2>1, <2>3, <2>4
<1> QED
  BY <1>6, <1>7, <1>8, <1>9, <1>10, <1>11 DEF ReceiverStep

\* Two pictures on the line differ, as each shows a frame the other cannot.
LEMMA PicturesDiffer ==
  ASSUME FInv, NEW n \in 1..LineLen, NEW o \in 1..LineLen, n # o
  PROVE  Picture(n) # Picture(o)
<1>1. PICK c \in Clients : Picture(n)[c] # NoFrame
  BY DEF FInv, Coloured
<1>2. PICK h, l : h = Hands(c) /\ l = Line(c)
  OBVIOUS
<1>3. Single(h, l) /\ QueueTypes
  BY <1>2, UnpackFInv DEF FrameFacts, Once
<1>4. Len(l) = LineLen /\ l[n] = Picture(n)[c] /\ l[o] = Picture(o)[c]
  BY <1>2, <1>3, LineType
<1>5. l[n] # l[o]
  BY <1>1, <1>3, <1>4 DEF Single, NoFrame
<1> QED
  BY <1>4, <1>5

\* What m has in hand of c is nowhere else.
LEMMA HandAlone ==
  ASSUME FInv, NEW c \in Clients, NEW m \in Mixers, frms[m][c] # NoFrame
  PROVE  /\ \A i \in 1..Len(decQ[c]) : decQ[c][i] # frms[m][c]
         /\ \A n \in Mixers : n # m => frms[n][c] # frms[m][c]
<1>1. PICK q, h, l, last :
        q = decQ[c] /\ h = Hands(c) /\ l = Line(c) /\ last = Last(c)
  OBVIOUS
<1>2. Once(q, h, l, last) /\ Columns(q, h, l, last)
  BY <1>1, UnpackFInv DEF FrameFacts
<1>3. /\ \A i \in 1..Len(q) : q[i] \in Nat
      /\ \A n \in Mixers : h[n] \in Nat /\ frms[n][c] = h[n]
  BY <1>1, <1>2, ElementOfSeq DEF Columns, Hands
<1>4. /\ \A i \in 1..Len(q) : q[i] # h[m]
      /\ \A n \in Mixers : n # m => h[n] # h[m]
  <2>1. \A i \in 1..Len(q) : h[m] < q[i]
    BY <1>2 DEF Once, Older, Before
  <2>2. \A n \in Mixers : m # n /\ h[m] # 0 => h[m] # h[n]
    BY <1>2 DEF Once, Single
  <2> QED
    BY <1>3, <2>1, <2>2 DEF NoFrame
<1> QED
  BY <1>1, <1>3, <1>4

\* A kind of payload is live as before when its places are.
LEMMA KindsKept ==
  /\ UNCHANGED <<recvQ, recvPc, pktNum, decPkt>> =>
       \A c, p : PacketLive(c, p)' <=> PacketLive(c, p)
  /\ UNCHANGED <<decQ, frms>> => \A c, k : FrameLive(c, k)' <=> FrameLive(c, k)
  /\ UNCHANGED <<mixQ, encFrm>> => \A f : MixedLive(f)' <=> MixedLive(f)
  /\ UNCHANGED encQ => \A f : EncodedLive(f)' <=> EncodedLive(f)
<1>1. ASSUME UNCHANGED <<recvQ, recvPc, pktNum, decPkt>>
      PROVE  \A c, p : PacketLive(c, p)' <=> PacketLive(c, p)
  BY ONLY <1>1 DEF PacketLive
<1>2. ASSUME UNCHANGED <<decQ, frms>>
      PROVE  \A c, k : FrameLive(c, k)' <=> FrameLive(c, k)
  BY ONLY <1>2 DEF FrameLive
<1>3. ASSUME UNCHANGED <<mixQ, encFrm>>
      PROVE  \A f : MixedLive(f)' <=> MixedLive(f)
  BY ONLY <1>3 DEF MixedLive
<1>4. ASSUME UNCHANGED encQ
      PROVE  \A f : EncodedLive(f)' <=> EncodedLive(f)
  BY ONLY <1>4 DEF EncodedLive
<1> QED
  BY <1>1, <1>2, <1>3, <1>4

\* A decoded frame is allocated and queued.
LEMMA DecodeHeapStep ==
  ASSUME FInv, IInv', HeapExact, NEW c \in Clients, DecodeFrame(c)
  PROVE  HeapExact'
<1>0. TypeOK /\ TypeOK' /\ IInv
  BY DEF FInv, IInv
<1>1. PICK k : k = FrameNumber(decPkt[c], decDone[c] + 1)
  OBVIOUS
<1>2. /\ decQ' = [decQ EXCEPT ![c] = Append(@, k)]
      /\ Memory({Frame(c, k)}, {})
      /\ UNCHANGED <<recvQ, mixQ, encQ, encFrm, frms, recvPc, pktNum, decPkt>>
  BY <1>1 DEF DecodeFrame, InsertDecoded, receivers, mixers
<1>3. k \in Nat /\ decQ \in [Clients -> Seq(Nat)]
  <2>1. decPkt[c] \in Nat \ {0} /\ decDone[c] + 1 \in Nat
    BY <1>0, PacketTypes DEF DecodeFrame, NoPacket
  <2> QED
    BY <1>0, <1>1, <2>1, FrameNumberType DEF TypeOK
<1>4. ASSUME NEW d \in Clients, NEW j
      PROVE  FrameLive(d, j)' <=> FrameLive(d, j) \/ (d = c /\ j = k)
  <2>1. CASE d = c
    <3>1. PICK q : q = decQ[c]
      OBVIOUS
    <3>2. q \in Seq(Nat) /\ decQ'[c] = Append(q, k)
      BY <1>2, <1>3, <3>1
    <3>3. /\ Len(q) \in Nat /\ Len(Append(q, k)) = Len(q) + 1
          /\ Append(q, k)[Len(q) + 1] = k
          /\ \A i \in 1..Len(q) : Append(q, k)[i] = q[i]
      BY <1>3, <3>2, AppendProperties
    <3>4. /\ Len(q) + 1 \in 1..(Len(q) + 1)
          /\ \A i \in 1..(Len(q) + 1) : i \in 1..Len(q) \/ i = Len(q) + 1
          /\ \A i \in 1..Len(q) : i \in 1..(Len(q) + 1)
      BY ONLY <3>3
    <3>5. (\E i \in 1..Len(Append(q, k)) : Append(q, k)[i] = j)
            <=> (\E i \in 1..Len(q) : q[i] = j) \/ j = k
      BY ONLY <3>3, <3>4
    <3>6. /\ FrameLive(c, j)' <=>
               \/ \E i \in 1..Len(decQ'[c]) : decQ'[c][i] = j
               \/ \E m \in Mixers : frms'[m][c] # NoFrame /\ frms'[m][c] = j
          /\ FrameLive(c, j) <=>
               \/ \E i \in 1..Len(decQ[c]) : decQ[c][i] = j
               \/ \E m \in Mixers : frms[m][c] # NoFrame /\ frms[m][c] = j
      BY DEF FrameLive, NoFrame
    <3>7. frms' = frms
      BY <1>2
    <3>8. (\E m \in Mixers : frms'[m][c] # NoFrame /\ frms'[m][c] = j) <=>
            \E m \in Mixers : frms[m][c] # NoFrame /\ frms[m][c] = j
      BY ONLY <3>7
    <3> QED
      BY ONLY <2>1, <3>1, <3>2, <3>5, <3>6, <3>8
  <2>2. CASE d # c
    <3>1. decQ'[d] = decQ[d] /\ frms' = frms
      BY <1>2, <1>3, <2>2
    <3> QED
      BY ONLY <2>2, <3>1 DEF FrameLive
  <2> QED
    BY <2>1, <2>2
<1>5. PICK new, old : new = {Frame(c, k)} /\ old = {}
  OBVIOUS
<1>6. /\ \A d, p : Packet(d, p) \notin new
      /\ \A d, j : Frame(d, j) \in new <=> d = c /\ j = k
      /\ \A f : Mixed(f) \notin new /\ Encoded(f) \notin new
  BY <1>5, PayloadsDiffer
<1>7. /\ \A d, p : PacketLive(d, p)' <=> PacketLive(d, p)
      /\ \A f : MixedLive(f)' <=> MixedLive(f)
      /\ \A f : EncodedLive(f)' <=> EncodedLive(f)
  BY <1>2, KindsKept
<1>8. Payloads(new, old)
  BY ONLY <1>4, <1>5, <1>6, <1>7 DEF Payloads
<1>9. /\ Memory(new, old) /\ old \subseteq Live
      /\ \A x \in new : Payload(x)
  BY <1>2, <1>3, <1>5 DEF Payload
<1> QED
  BY ONLY <1>0, HeapExact, <1>8, <1>9, HeapStep

\* Steps that move payloads without allocating or freeing one.
LEMMA MoveHeapStep ==
  ASSUME TypeOK, TypeOK', HeapExact, UNCHANGED memory,
         \A c \in Clients : \A p \in Nat : PacketLive(c, p)' <=> PacketLive(c, p),
         \A c \in Clients : \A k \in Nat : FrameLive(c, k)' <=> FrameLive(c, k),
         \A f \in MixedFrames : MixedLive(f)' <=> MixedLive(f),
         \A f \in MixedFrames : EncodedLive(f)' <=> EncodedLive(f)
  PROVE  HeapExact'
<1>1. Payloads({}, {})
  BY DEF Payloads
<1> QED
  BY <1>1, NoMemory, HeapStep

\* A frame goes from a queue to a hand, and is live as before.
LEMMA FetchHeapStep ==
  ASSUME FInv, IInv', HeapExact, NEW m \in Mixers, FetchFrame(m)
  PROVE  HeapExact'
<1>0. TypeOK /\ TypeOK' /\ IInv
  BY DEF FInv, IInv
<1>1. PICK c \in Clients :
        /\ c \in Nat /\ c = mixSlot[m]
        /\ UNCHANGED <<mixQ, encQ, sent, encFrm>>
        /\ \A e \in Clients : e # c =>
             decQ'[e] = decQ[e] /\ Hands(e)' = Hands(e)
        /\ \/ /\ decQ[c] # <<>>
              /\ decQ'[c] = Tail(decQ[c])
              /\ Hands(c)' = [Hands(c) EXCEPT ![m] = Head(decQ[c])]
           \/ /\ decQ[c] = <<>> /\ decQ' = decQ
              /\ Hands(c)' = [Hands(c) EXCEPT ![m] = NoFrame]
  BY ONLY <1>0, FetchFrame(m), m \in Mixers, FetchStep
<1>2. UNCHANGED memory /\ UNCHANGED <<recvQ, recvPc, pktNum, decPkt>>
  BY DEF FetchFrame, receivers, decoders
<1>3. \A d \in Clients : \A k :
        /\ FrameLive(d, k) <=>
             \/ \E i \in 1..Len(decQ[d]) : decQ[d][i] = k
             \/ \E n \in Mixers : Hands(d)[n] # 0 /\ Hands(d)[n] = k
        /\ FrameLive(d, k)' <=>
             \/ \E i \in 1..Len(decQ'[d]) : decQ'[d][i] = k
             \/ \E n \in Mixers : Hands(d)'[n] # 0 /\ Hands(d)'[n] = k
  BY DEF FrameLive, Hands, NoFrame
<1>4. PICK q, h, g, r : /\ q = decQ[c] /\ r = decQ'[c]
                        /\ h = Hands(c) /\ g = Hands(c)'
  OBVIOUS
<1>5. q \in Seq(Nat) /\ h \in [Mixers -> Nat] /\ h[m] = 0
  <2>1. \A d \in Clients : mixSlot[m] <= d => frms[m][d] = NoFrame
    BY DEF FInv, MixerFacts
  <2>2. decQ[c] \in Seq(Nat) /\ \A n \in Mixers : frms[n][c] \in Nat
    BY <1>0 DEF TypeOK, MixedFrames
  <2> QED
    BY <1>1, <1>4, <2>1, <2>2 DEF Hands, NoFrame
<1>6. \/ q # <<>> /\ r = Tail(q) /\ g = [h EXCEPT ![m] = Head(q)]
      \/ r = q /\ g = [h EXCEPT ![m] = 0]
  BY <1>1, <1>4 DEF NoFrame
<1>7. ASSUME NEW k \in Nat
      PROVE  (\E i \in 1..Len(r) : r[i] = k) \/ (\E n \in Mixers : g[n] # 0 /\ g[n] = k)
               <=> (\E i \in 1..Len(q) : q[i] = k)
                     \/ (\E n \in Mixers : h[n] # 0 /\ h[n] = k)
  <2>1. CASE r = q /\ g = [h EXCEPT ![m] = 0]
    <3>1. g = h
      BY <1>5, <2>1
    <3> QED
      BY <2>1, <3>1
  <2>2. CASE q # <<>> /\ r = Tail(q) /\ g = [h EXCEPT ![m] = Head(q)]
    <3>1. /\ Len(q) \in Nat /\ Len(q) > 0 /\ Head(q) = q[1]
          /\ Len(r) = Len(q) - 1
          /\ \A i \in 1..Len(r) : r[i] = q[i + 1]
      <4>1. /\ Len(q) \in Nat /\ Len(q) > 0 /\ Head(q) = q[1]
            /\ Len(Tail(q)) = Len(q) - 1
            /\ \A i \in 1..Len(Tail(q)) : Tail(q)[i] = q[i + 1]
        BY <1>5, <2>2, RemoveHead
      <4> QED
        BY ONLY <2>2, <4>1
    <3>2. /\ 1 \in 1..Len(q)
          /\ \A i \in 1..Len(r) : i + 1 \in 1..Len(q)
          /\ \A i \in 1..Len(q) : i # 1 => i - 1 \in 1..Len(r) /\ (i - 1) + 1 = i
      BY ONLY <3>1
    <3>3. g[m] = q[1] /\ \A n \in Mixers : n # m => g[n] = h[n]
      BY <1>5, <2>2, <3>1
    <3>4. q[1] # 0
      <4>1. Ascending(decQ[c], Last(c))
        BY UnpackFInv DEF FrameFacts, Once
      <4>2. decQ[c][1] > 0
        BY <1>4, <3>2, <4>1 DEF Ascending
      <4> QED
        BY <1>4, <4>2
    <3>5. (\E i \in 1..Len(q) : q[i] = k) <=>
            q[1] = k \/ \E i \in 1..Len(r) : r[i] = k
      <4>1. \A i \in 1..Len(q) : i # 1 => i - 1 \in 1..Len(r) /\ r[i - 1] = q[i]
        BY ONLY <3>1, <3>2
      <4>2. ASSUME NEW i \in 1..Len(q), q[i] = k, q[1] # k
            PROVE  \E j \in 1..Len(r) : r[j] = k
        BY ONLY <4>1, <4>2, i \in 1..Len(q)
      <4>3. ASSUME NEW i \in 1..Len(r), r[i] = k
            PROVE  \E j \in 1..Len(q) : q[j] = k
        BY ONLY <3>1, <3>2, <4>3, i \in 1..Len(r)
      <4> QED
        BY ONLY <3>2, <4>2, <4>3
    <3>6. (\E n \in Mixers : g[n] # 0 /\ g[n] = k) <=>
            q[1] = k \/ \E n \in Mixers : h[n] # 0 /\ h[n] = k
      BY ONLY <1>5, <3>3, <3>4, m \in Mixers
    <3> QED
      BY ONLY <3>5, <3>6
  <2> QED
    BY <1>6, <2>1, <2>2
<1>8. ASSUME NEW d \in Clients, NEW k \in Nat
      PROVE  FrameLive(d, k)' <=> FrameLive(d, k)
  <2>1. CASE d = c
    BY ONLY <1>3, <1>4, <1>7, <2>1, d \in Clients, k \in Nat
  <2>2. CASE d # c
    <3>1. decQ'[d] = decQ[d] /\ Hands(d)' = Hands(d)
      BY <1>1, <2>2
    <3> QED
      BY ONLY <1>3, <3>1, d \in Clients, k \in Nat
  <2> QED
    BY <2>1, <2>2
<1>9. /\ \A d, p : PacketLive(d, p)' <=> PacketLive(d, p)
      /\ \A f : MixedLive(f)' <=> MixedLive(f)
      /\ \A f : EncodedLive(f)' <=> EncodedLive(f)
  BY <1>1, <1>2, KindsKept
<1> QED
  BY <1>0, <1>2, <1>8, <1>9, MoveHeapStep

\* Mixing allocates the picture; the frames are freed after it.
LEMMA MixHeapStep ==
  ASSUME FInv, IInv', HeapExact, NEW m \in Mixers, MixFrames(m)
  PROVE  HeapExact'
<1>0. TypeOK /\ TypeOK' /\ IInv
  BY DEF FInv, IInv
<1>1. PICK f, new, old :
        f = frms[m] /\ new = {Mixed(frms[m])} /\ old = FetchedFrames(m)
  OBVIOUS
<1>2. /\ mixQ' = Append(mixQ, f) /\ Memory(new, old)
      /\ frms' = [frms EXCEPT ![m] = [c \in Clients |-> NoFrame]]
      /\ decQ' = decQ /\ encQ' = encQ /\ encFrm' = encFrm
      /\ UNCHANGED <<recvQ, recvPc, pktNum, decPkt>>
  BY <1>1 DEF MixFrames, InsertMixed, receivers, decoders
<1>3. /\ frms \in [Mixers -> MixedFrames] /\ f \in MixedFrames
      /\ mixQ \in Seq(MixedFrames)
  BY <1>0, <1>1 DEF TypeOK
<1>4. /\ \A d, p : Packet(d, p) \notin new /\ Packet(d, p) \notin old
      /\ \A d, k : Frame(d, k) \notin new
      /\ \A d, k : Frame(d, k) \in old <=>
           d \in Clients /\ frms[m][d] # NoFrame /\ k = frms[m][d]
      /\ \A g : Mixed(g) \in new <=> g = f
      /\ \A g : Mixed(g) \notin old
      /\ \A g : Encoded(g) \notin new /\ Encoded(g) \notin old
  <2>1. \A x : x \in old <=>
          \E d \in Clients : frms[m][d] # NoFrame /\ x = Frame(d, frms[m][d])
    BY <1>1 DEF FetchedFrames, Fetched
  <2>2. \A x : x \in new <=> x = Mixed(f)
    BY <1>1
  <2> QED
    BY ONLY <2>1, <2>2, PayloadsDiffer
<1>5. ASSUME NEW d \in Clients, NEW k
      PROVE  FrameLive(d, k)' <=>
               FrameLive(d, k) /\ ~(frms[m][d] # NoFrame /\ k = frms[m][d])
  <2>1. frms'[m][d] = NoFrame /\ \A n \in Mixers : n # m => frms'[n][d] = frms[n][d]
    BY <1>2, <1>3
  <2>2. frms[m][d] # NoFrame =>
          /\ \A i \in 1..Len(decQ[d]) : decQ[d][i] # frms[m][d]
          /\ \A n \in Mixers : n # m => frms[n][d] # frms[m][d]
    BY HandAlone
  <2>3. /\ FrameLive(d, k)' <=>
             \/ \E i \in 1..Len(decQ'[d]) : decQ'[d][i] = k
             \/ \E n \in Mixers : frms'[n][d] # NoFrame /\ frms'[n][d] = k
        /\ FrameLive(d, k) <=>
             \/ \E i \in 1..Len(decQ[d]) : decQ[d][i] = k
             \/ \E n \in Mixers : frms[n][d] # NoFrame /\ frms[n][d] = k
    BY DEF FrameLive, NoFrame
  <2>4. (\E n \in Mixers : frms'[n][d] # NoFrame /\ frms'[n][d] = k) <=>
          \E n \in Mixers : n # m /\ frms[n][d] # NoFrame /\ frms[n][d] = k
    BY ONLY <2>1
  <2>5. decQ' = decQ
    BY <1>2
  <2> QED
    BY ONLY <2>2, <2>3, <2>4, <2>5, m \in Mixers
<1>6. ASSUME NEW g PROVE MixedLive(g)' <=> MixedLive(g) \/ g = f
  <2>1. /\ Len(mixQ) \in Nat /\ Len(mixQ') = Len(mixQ) + 1
        /\ mixQ'[Len(mixQ) + 1] = f
        /\ \A i \in 1..Len(mixQ) : mixQ'[i] = mixQ[i]
    BY <1>2, <1>3, AppendProperties
  <2>2. /\ Len(mixQ) + 1 \in 1..(Len(mixQ) + 1)
        /\ \A i \in 1..(Len(mixQ) + 1) : i \in 1..Len(mixQ) \/ i = Len(mixQ) + 1
        /\ \A i \in 1..Len(mixQ) : i \in 1..(Len(mixQ) + 1)
    BY ONLY <2>1
  <2>3. (\E i \in 1..Len(mixQ') : mixQ'[i] = g) <=>
          (\E i \in 1..Len(mixQ) : mixQ[i] = g) \/ g = f
    BY ONLY <2>1, <2>2
  <2>4. /\ MixedLive(g)' <=> (\E i \in 1..Len(mixQ') : mixQ'[i] = g)
                               \/ (encFrm' # NULL /\ encFrm' = g)
        /\ MixedLive(g) <=> (\E i \in 1..Len(mixQ) : mixQ[i] = g)
                              \/ (encFrm # NULL /\ encFrm = g)
    BY DEF MixedLive
  <2>5. encFrm' = encFrm
    BY <1>2
  <2> QED
    BY ONLY <2>3, <2>4, <2>5
<1>7. /\ \A d, p : PacketLive(d, p)' <=> PacketLive(d, p)
      /\ \A g : EncodedLive(g)' <=> EncodedLive(g)
  BY <1>2, KindsKept
<1>8. Payloads(new, old)
  BY ONLY <1>4, <1>5, <1>6, <1>7 DEF Payloads
<1>9. old \subseteq Live
  <2>1. ASSUME NEW x \in old PROVE x \in Live
    <3>1. PICK d \in Clients : frms[m][d] # NoFrame /\ x = Frame(d, frms[m][d])
      BY <1>1, <2>1 DEF FetchedFrames, Fetched
    <3>2. frms[m][d] \in Nat /\ FrameLive(d, frms[m][d])
      BY <1>3, <3>1 DEF FrameLive, MixedFrames
    <3>3. PICK k : k = frms[m][d]
      OBVIOUS
    <3>4. k \in Nat /\ FrameLive(d, k) /\ x = Frame(d, k)
      BY <3>1, <3>2, <3>3
    <3> QED
      BY <1>0, <3>4, LiveKinds
  <2> QED
    BY <2>1
<1>10. Memory(new, old) /\ \A x \in new : Payload(x)
  BY <1>1, <1>2, <1>3 DEF Payload
<1> QED
  BY ONLY <1>0, HeapExact, <1>8, <1>9, <1>10, HeapStep

\* Encoding allocates the packet and frees the picture.
LEMMA EncodeHeapStep ==
  ASSUME FInv, IInv', HeapExact, EncodeFrame
  PROVE  HeapExact'
<1>0. TypeOK /\ TypeOK' /\ QueueTypes
  BY DEF FInv, IInv, TypeOK, QueueTypes
<1>1. PICK f, new, old : /\ f = encFrm
                         /\ new = {Encoded(encFrm)} /\ old = {Mixed(encFrm)}
  OBVIOUS
<1>2. /\ encFrm = f /\ f # NULL /\ encFrm' = NULL
      /\ encQ' = Append(encQ, f) /\ mixQ' = mixQ /\ Memory(new, old)
      /\ UNCHANGED <<recvQ, recvPc, pktNum, decPkt, decQ, frms>>
  BY <1>1 DEF EncodeFrame, InsertEncoded, receivers, decoders, mixers
<1>3. f \in MixedFrames
  BY <1>0, <1>2 DEF QueueTypes
<1>4. \A i \in 1..Len(mixQ) : mixQ[i] # f
  <2>1. /\ Len(sent) \in Nat /\ Len(encQ) \in Nat /\ Len(mixQ) \in Nat
        /\ Working = 1
    BY <1>0, <1>2 DEF QueueTypes, Working
  <2>2. SUFFICES ASSUME NEW i \in 1..Len(mixQ) PROVE mixQ[i] # f
    OBVIOUS
  <2>3. PICK n, o : n = Len(sent) + Len(encQ) + 1 /\ o = n + i
    OBVIOUS
  <2>4. /\ n \in 1..LineLen /\ o \in 1..LineLen /\ n # o
        /\ ~(n <= Len(sent)) /\ ~(n <= Len(sent) + Len(encQ))
        /\ n <= Len(sent) + Len(encQ) + Working
        /\ ~(o <= Len(sent)) /\ ~(o <= Len(sent) + Len(encQ))
        /\ ~(o <= Len(sent) + Len(encQ) + Working)
        /\ o - (Len(sent) + Len(encQ) + Working) = i
    BY <2>1, <2>3 DEF LineLen
  <2>5. Picture(n) = f /\ Picture(o) = mixQ[i]
    BY <1>2, <2>4 DEF Picture
  <2> QED
    BY <2>4, <2>5, PicturesDiffer
<1>5. /\ \A d, p : Packet(d, p) \notin new /\ Packet(d, p) \notin old
      /\ \A d, k : Frame(d, k) \notin new /\ Frame(d, k) \notin old
      /\ \A g : Mixed(g) \notin new
      /\ \A g : Mixed(g) \in old <=> g = f
      /\ \A g : Encoded(g) \in new <=> g = f
      /\ \A g : Encoded(g) \notin old
  <2>1. new = {Encoded(f)} /\ old = {Mixed(f)}
    BY <1>1
  <2> QED
    BY ONLY <2>1, PayloadsDiffer
<1>6. ASSUME NEW g PROVE MixedLive(g)' <=> MixedLive(g) /\ g # f
  BY <1>2, <1>4 DEF MixedLive
<1>7. ASSUME NEW g PROVE EncodedLive(g)' <=> EncodedLive(g) \/ g = f
  <2>1. /\ Len(encQ) \in Nat /\ Len(encQ') = Len(encQ) + 1
        /\ encQ'[Len(encQ) + 1] = f
        /\ \A i \in 1..Len(encQ) : encQ'[i] = encQ[i]
    BY <1>0, <1>2, <1>3, AppendProperties DEF QueueTypes
  <2>2. /\ Len(encQ) + 1 \in 1..(Len(encQ) + 1)
        /\ \A i \in 1..(Len(encQ) + 1) : i \in 1..Len(encQ) \/ i = Len(encQ) + 1
        /\ \A i \in 1..Len(encQ) : i \in 1..(Len(encQ) + 1)
    BY ONLY <2>1
  <2> QED
    BY ONLY <2>1, <2>2 DEF EncodedLive
<1>8. /\ \A d, p : PacketLive(d, p)' <=> PacketLive(d, p)
      /\ \A d, k : FrameLive(d, k)' <=> FrameLive(d, k)
  BY <1>2, KindsKept
<1>9. Payloads(new, old)
  BY ONLY <1>5, <1>6, <1>7, <1>8 DEF Payloads
<1>10. /\ Memory(new, old) /\ old \subseteq Live
       /\ \A x \in new : Payload(x)
  <2>1. MixedLive(f)
    BY <1>2 DEF MixedLive
  <2>2. Mixed(f) \in Live
    BY <1>0, <1>3, <2>1, LiveKinds
  <2> QED
    BY <1>1, <1>2, <1>3, <2>2 DEF Payload
<1> QED
  BY ONLY <1>0, HeapExact, <1>9, <1>10, HeapStep

\* Sending frees the packet.
LEMMA SendHeapStep ==
  ASSUME FInv, IInv', HeapExact, SendPacket
  PROVE  HeapExact'
<1>0. TypeOK /\ TypeOK' /\ QueueTypes
  BY DEF FInv, IInv, TypeOK, QueueTypes
<1>1. PICK f, new, old : /\ f = Head(encQ)
                         /\ new = {} /\ old = {Encoded(Head(encQ))}
  OBVIOUS
<1>2. /\ encQ # <<>> /\ encQ' = Tail(encQ) /\ Memory(new, old)
      /\ UNCHANGED <<recvQ, recvPc, pktNum, decPkt, decQ, frms, mixQ, encFrm>>
  BY <1>1 DEF SendPacket, RemoveEncoded, receivers, decoders, mixers
<1>3. /\ Len(encQ) \in Nat /\ Len(encQ) > 0 /\ f = encQ[1] /\ f \in MixedFrames
      /\ Len(encQ') = Len(encQ) - 1
      /\ \A i \in 1..Len(encQ') : encQ'[i] = encQ[i + 1]
  BY <1>0, <1>1, <1>2, RemoveHead DEF QueueTypes
<1>4. \A i \in 1..Len(encQ) : i # 1 => encQ[i] # f
  <2>1. /\ Len(sent) \in Nat /\ Len(mixQ) \in Nat /\ Working \in {0, 1}
    BY <1>0 DEF QueueTypes, Working
  <2>2. SUFFICES ASSUME NEW i \in 1..Len(encQ), i # 1 PROVE encQ[i] # f
    OBVIOUS
  <2>3. PICK n, o : n = Len(sent) + 1 /\ o = Len(sent) + i
    OBVIOUS
  <2>4. /\ n \in 1..LineLen /\ o \in 1..LineLen /\ n # o
        /\ ~(n <= Len(sent)) /\ n <= Len(sent) + Len(encQ)
        /\ ~(o <= Len(sent)) /\ o <= Len(sent) + Len(encQ)
        /\ n - Len(sent) = 1 /\ o - Len(sent) = i
    BY <1>3, <2>1, <2>2, <2>3 DEF LineLen
  <2>5. Picture(n) = f /\ Picture(o) = encQ[i]
    BY <1>3, <2>4 DEF Picture
  <2> QED
    BY <2>4, <2>5, PicturesDiffer
<1>5. /\ \A d, p : Packet(d, p) \notin new /\ Packet(d, p) \notin old
      /\ \A d, k : Frame(d, k) \notin new /\ Frame(d, k) \notin old
      /\ \A g : Mixed(g) \notin new /\ Mixed(g) \notin old
      /\ \A g : Encoded(g) \notin new
      /\ \A g : Encoded(g) \in old <=> g = f
  <2>1. new = {} /\ old = {Encoded(f)}
    BY <1>1
  <2> QED
    BY ONLY <2>1, PayloadsDiffer
<1>6. ASSUME NEW g PROVE EncodedLive(g)' <=> EncodedLive(g) /\ g # f
  <2>1. /\ 1 \in 1..Len(encQ)
        /\ \A i \in 1..Len(encQ') : i + 1 \in 1..Len(encQ) /\ i + 1 # 1
        /\ \A i \in 1..Len(encQ) : i # 1 =>
             i - 1 \in 1..Len(encQ') /\ encQ'[i - 1] = encQ[i]
    BY ONLY <1>3
  <2>2. \A i \in 1..Len(encQ') : encQ'[i] # f
    BY ONLY <1>3, <1>4, <2>1
  <2>3. (\E i \in 1..Len(encQ') : encQ'[i] = g) <=>
          (\E i \in 1..Len(encQ) : encQ[i] = g) /\ g # f
    <3>1. ASSUME NEW i \in 1..Len(encQ'), encQ'[i] = g
          PROVE  \E j \in 1..Len(encQ) : encQ[j] = g
      BY ONLY <1>3, <2>1, <3>1, i \in 1..Len(encQ')
    <3>2. ASSUME NEW i \in 1..Len(encQ), encQ[i] = g, g # f
          PROVE  \E j \in 1..Len(encQ') : encQ'[j] = g
      BY ONLY <1>3, <2>1, <3>2, i \in 1..Len(encQ)
    <3> QED
      BY ONLY <2>2, <3>1, <3>2
  <2> QED
    BY ONLY <2>3 DEF EncodedLive
<1>7. /\ \A d, p : PacketLive(d, p)' <=> PacketLive(d, p)
      /\ \A d, k : FrameLive(d, k)' <=> FrameLive(d, k)
      /\ \A g : MixedLive(g)' <=> MixedLive(g)
  BY <1>2, KindsKept
<1>8. Payloads(new, old)
  BY ONLY <1>5, <1>6, <1>7 DEF Payloads
<1>9. /\ Memory(new, old) /\ old \subseteq Live
      /\ \A x \in new : Payload(x)
  <2>1. EncodedLive(f)
    BY <1>3 DEF EncodedLive
  <2>2. Encoded(f) \in Live
    BY <1>0, <1>3, <2>1, LiveKinds
  <2> QED
    BY <1>1, <1>2, <2>2
<1> QED
  BY ONLY <1>0, HeapExact, <1>8, <1>9, HeapStep

\* The encoder taking a picture, and a mixer beginning a round anew.
LEMMA OtherHeapSteps ==
  ASSUME FInv, IInv', HeapExact,
         TakeMixed \/ \E m \in Mixers : SkipRound(m) \/ ReleaseFrames(m)
  PROVE  HeapExact'
<1>0. TypeOK /\ TypeOK' /\ QueueTypes
  BY DEF FInv, IInv, TypeOK, QueueTypes
<1>1. CASE TakeMixed
  <2>1. /\ mixQ # <<>> /\ mixQ' = Tail(mixQ) /\ encFrm' = Head(mixQ)
        /\ encFrm = NULL /\ UNCHANGED memory
        /\ UNCHANGED <<recvQ, recvPc, pktNum, decPkt, decQ, frms, encQ>>
    BY <1>1 DEF TakeMixed, RemoveMixed, receivers, decoders, mixers
  <2>2. /\ Len(mixQ) \in Nat /\ Len(mixQ') = Len(mixQ) - 1 /\ encFrm' = mixQ[1]
        /\ encFrm' # NULL /\ Len(mixQ) > 0
        /\ \A n \in 1..Len(mixQ') : mixQ'[n] = mixQ[n + 1]
    BY <1>0, <2>1, RemoveHead, NullNoPicture DEF QueueTypes
  <2>3. /\ 1 \in 1..Len(mixQ)
        /\ \A i \in 1..Len(mixQ') : i + 1 \in 1..Len(mixQ)
        /\ \A i \in 1..Len(mixQ) : i # 1 =>
             i - 1 \in 1..Len(mixQ') /\ (i - 1) + 1 = i
    BY ONLY <2>2
  <2>4. \A f : MixedLive(f)' <=> MixedLive(f)
    BY ONLY <2>1, <2>2, <2>3 DEF MixedLive
  <2>5. /\ \A d, p : PacketLive(d, p)' <=> PacketLive(d, p)
        /\ \A d, k : FrameLive(d, k)' <=> FrameLive(d, k)
        /\ \A f : EncodedLive(f)' <=> EncodedLive(f)
    BY <2>1, KindsKept
  <2> QED
    BY <1>0, <2>1, <2>4, <2>5, MoveHeapStep
<1>2. ASSUME NEW m \in Mixers, SkipRound(m) PROVE HeapExact'
  <2>1. /\ UNCHANGED memory
        /\ UNCHANGED <<recvQ, recvPc, pktNum, decPkt, decQ, frms, mixQ, encFrm, encQ>>
    BY <1>2 DEF SkipRound, queues, receivers, decoders
  <2>2. /\ \A d, p : PacketLive(d, p)' <=> PacketLive(d, p)
        /\ \A d, k : FrameLive(d, k)' <=> FrameLive(d, k)
        /\ \A f : MixedLive(f)' <=> MixedLive(f)
        /\ \A f : EncodedLive(f)' <=> EncodedLive(f)
    BY <2>1, KindsKept
  <2> QED
    BY <1>0, <2>1, <2>2, MoveHeapStep
<1>3. ASSUME NEW m \in Mixers, ReleaseFrames(m) PROVE HeapExact'
  <2>1. /\ mixSlot[m] = ClientNum + 1 /\ Memory({}, FetchedFrames(m))
        /\ frms' = [frms EXCEPT ![m] = [c \in Clients |-> NoFrame]]
        /\ UNCHANGED <<recvQ, recvPc, pktNum, decPkt, decQ, mixQ, encFrm, encQ>>
    BY <1>3
    DEF ReleaseFrames, Memory, queues, receivers, decoders
  <2>2. \A c \in Clients : frms[m][c] = NoFrame
    <3>1. MixerFacts(m) /\ mixSlot[m] > ClientNum
      BY <2>1, ClientAssumption DEF FInv
    <3> QED
      BY <3>1 DEF MixerFacts
  <2>3. FetchedFrames(m) = {}
    BY <2>2 DEF FetchedFrames, Fetched
  <2>4. Memory({}, {})
    BY <2>1, <2>3
  <2>5. \A n \in Mixers : \A c \in Clients : frms'[n][c] = frms[n][c]
    BY <1>0, <2>1, <2>2 DEF TypeOK
  <2>6. \A d \in Clients : \A k : FrameLive(d, k)' <=> FrameLive(d, k)
    <3>1. decQ' = decQ
      BY <2>1
    <3> QED
      BY ONLY <2>5, <3>1 DEF FrameLive
  <2>7. /\ \A d, p : PacketLive(d, p)' <=> PacketLive(d, p)
        /\ \A f : MixedLive(f)' <=> MixedLive(f)
        /\ \A f : EncodedLive(f)' <=> EncodedLive(f)
    BY <2>1, KindsKept
  <2>8. Payloads({}, {})
    BY <2>6, <2>7 DEF Payloads
  <2> QED
    BY <1>0, <2>4, <2>8, HeapStep
<1> QED
  BY <1>1, <1>2, <1>3

\* No payload leaks, is freed twice, or is freed while a queue or a thread can
\* reach it, whatever the numbers of clients, packets and frames.
THEOREM NoLeakNoDoubleFree == Spec => []HeapExact
<1>1. Init => HeapExact
  <2> SUFFICES ASSUME Init PROVE HeapExact
    OBVIOUS
  <2>1. TypeOK /\ heap = {} /\ badFree = FALSE
    BY InitIInv DEF Init, IInv
  <2>2. /\ \A c \in Clients : recvQ[c] = <<>> /\ decQ[c] = <<>>
        /\ \A c \in Clients : recvPc[c] = "recv" /\ decPkt[c] = NoPacket
        /\ \A m \in Mixers : \A c \in Clients : frms[m][c] = NoFrame
        /\ mixQ = <<>> /\ encQ = <<>> /\ encFrm = NULL
    BY DEF Init
  <2>3. /\ \A c \in Clients : \A p : ~PacketLive(c, p)
        /\ \A c \in Clients : \A k : ~FrameLive(c, k)
        /\ \A f : ~MixedLive(f)
        /\ \A f : ~EncodedLive(f)
    BY ONLY <2>2 DEF PacketLive, FrameLive, MixedLive, EncodedLive
  <2>4. \A x : Payload(x) => x \notin Live
    BY <2>1, <2>3, LiveKinds DEF Payload
  <2>5. Live = {}
    BY <2>1, <2>4, LiveKinds
  <2> QED
    BY <2>1, <2>5 DEF HeapExact
<1>2. FInv /\ FInv' /\ HeapExact /\ [Next]_vars => HeapExact'
  <2>1. ASSUME FInv, FInv', HeapExact, Next PROVE HeapExact'
    <3>1. IInv'
      BY <2>1 DEF FInv
    <3>2. ASSUME NEW c \in Clients,
                 Receive(c) \/ ReceiverStep(c) \/ TakePacket(c) \/ FinishPacket(c)
          PROVE  HeapExact'
      BY <2>1, <3>1, <3>2, PacketHeapStep
    <3>3. ASSUME NEW c \in Clients, DecodeFrame(c) PROVE HeapExact'
      BY <2>1, <3>1, <3>3, DecodeHeapStep
    <3>4. ASSUME NEW m \in Mixers, FetchFrame(m) \/ MixFrames(m) PROVE HeapExact'
      BY <2>1, <3>1, <3>4, FetchHeapStep, MixHeapStep
    <3>5. ASSUME TakeMixed \/ \E m \in Mixers : SkipRound(m) \/ ReleaseFrames(m)
          PROVE  HeapExact'
      BY <2>1, <3>1, <3>5, OtherHeapSteps
    <3>6. ASSUME EncodeFrame \/ SendPacket PROVE HeapExact'
      BY <2>1, <3>1, <3>6, EncodeHeapStep, SendHeapStep
    <3> QED
      BY <2>1, <3>2, <3>3, <3>4, <3>5, <3>6
      DEF Next, DecoderStep, MixerStep, EncoderStep
  <2>2. ASSUME HeapExact, UNCHANGED vars PROVE HeapExact'
    <3>1. UNCHANGED <<recvQ, recvPc, pktNum, decPkt, decQ, frms, mixQ, encFrm, encQ,
                      heap, badFree>>
      BY <2>2 DEF vars, queues, receivers, decoders, mixers, memory
    <3>2. \A m : FetchedFrames(m)' = FetchedFrames(m)
      BY ONLY <3>1 DEF FetchedFrames, Fetched
    <3>3. Live' = Live
      BY ONLY <3>1, <3>2 DEF Live
    <3> QED
      BY ONLY <2>2, <3>1, <3>3 DEF HeapExact
  <2> QED
    BY <2>1, <2>2
<1> QED
  BY <1>1, <1>2, FrameInvariance, PTL DEF Spec
=============================================================================
