------------------------------ MODULE Pipeline ------------------------------
(***************************************************************************)
(* The worker threads of libavscheme and the queues between them: one      *)
(* receiver and one decoder per client, ClientNum - 1 mixers, one encoder, *)
(* one sender.  A queue operation is one step, which AvQueue justifies; a  *)
(* thread's loop is a run of such steps, so everything it remembers from   *)
(* one queue operation to the next can be stale.                           *)
(*                                                                         *)
(* Packets of a client are numbered as they arrive, its frames as they     *)
(* are decoded: FramesPerPacket to a packet.  A mixed frame is a function  *)
(* from clients to the frame it shows, NoFrame where it shows blue.  The   *)
(* numbers identify the payloads; no thread looks at them.                 *)
(***************************************************************************)
EXTENDS Integers, Sequences, FiniteSets

CONSTANTS
  ClientNum,         \* client_num
  PacketsFrom,       \* per client: how many packets it sends (a bound)
  MAX_AV_PACKET_NUM, \* the limit of a receiving queue
  FramesPerPacket,   \* the frames a packet decodes to
  NULL               \* no mixed frame

Clients == 0..(ClientNum - 1)
Mixers == 1..(ClientNum - 1)

ASSUME ClientAssumption == ClientNum \in Nat \ {0}
ASSUME PacketAssumption == PacketsFrom \in [Clients -> Nat]
ASSUME LimitAssumption == MAX_AV_PACKET_NUM \in Nat
ASSUME FrameAssumption == FramesPerPacket \in Nat \ {0}
ASSUME NullAssumption == NULL \notin [Clients -> Nat]

NoPacket == 0
NoFrame == 0

VARIABLES
  recvQ,     \* per client: the packets in its receiving queue
  decQ,      \* per client: the frames in its decoded queue
  mixQ,      \* the mixed frames
  encQ,      \* the encoded packets
  recvPc,    \* per receiver: the next call of its loop
  pktNum,    \* per receiver: how many packets it has read from its socket
  decPkt,    \* per decoder: the packet it decodes, or NoPacket
  decDone,   \* per decoder: how many frames of that packet it has queued
  mixSlot,   \* per mixer: i of its fetch loop; ClientNum at its end,
             \* ClientNum + 1 once the mixed frame is queued
  frms,      \* per mixer: frms[i], the frames it has fetched
  emptyFlag, \* per mixer: empty_flag
  encFrm,    \* the frame the encoder works on, or NULL
  heap,      \* the payloads malloc has handed out and nobody has freed
  badFree,   \* a payload was freed that was not allocated
  aborted,   \* a receiver has ended the process
  evicted,   \* history, per client: the packets its receiver has dropped
  sent       \* history: the mixed frames the sender has sent

receivers == <<recvPc, pktNum, evicted>>
decoders == <<decPkt, decDone>>
mixers == <<mixSlot, frms, emptyFlag>>
queues == <<recvQ, decQ, mixQ, encQ>>
memory == <<heap, badFree>>
vars == <<queues, receivers, decoders, mixers, encFrm, memory, aborted, sent>>

Init ==
  /\ recvQ = [c \in Clients |-> <<>>]
  /\ decQ = [c \in Clients |-> <<>>]
  /\ mixQ = <<>>
  /\ encQ = <<>>
  /\ recvPc = [c \in Clients |-> "recv"]
  /\ pktNum = [c \in Clients |-> 0]
  /\ decPkt = [c \in Clients |-> NoPacket]
  /\ decDone = [c \in Clients |-> 0]
  /\ mixSlot = [m \in Mixers |-> 0]
  /\ frms = [m \in Mixers |-> [c \in Clients |-> NoFrame]]
  /\ emptyFlag = [m \in Mixers |-> 0]
  /\ encFrm = NULL
  /\ heap = {}
  /\ badFree = FALSE
  /\ aborted = FALSE
  /\ evicted = [c \in Clients |-> {}]
  /\ sent = <<>>

-----------------------------------------------------------------------------
(* Payloads, malloc and free.                                              *)

Packet(c, p) == <<"packet", c, p>>
Frame(c, k) == <<"frame", c, k>>
Mixed(f) == <<"mixed", f>>
Encoded(f) == <<"encoded", f>>

Memory(new, old) ==
  /\ heap' = (heap \cup new) \ old
  /\ badFree' = (badFree \/ ~(old \subseteq heap))

-----------------------------------------------------------------------------
(* The operations of the four queue families.                              *)

InsertRecv(c, p) == recvQ' = [recvQ EXCEPT ![c] = Append(@, p)]
RemoveRecv(c) == recvQ[c] # <<>> /\ recvQ' = [recvQ EXCEPT ![c] = Tail(@)]

\* The limit test with the wrong comparison.
RecvLimitReached_OffByOne(c) == MAX_AV_PACKET_NUM < Len(recvQ[c])

\* The limit test that leaves one place empty.
RecvLimitReached_TooEarly(c) == MAX_AV_PACKET_NUM <= Len(recvQ[c]) + 1

RecvLimitReached(c) == MAX_AV_PACKET_NUM <= Len(recvQ[c])

InsertDecoded(c, k) == decQ' = [decQ EXCEPT ![c] = Append(@, k)]

\* A removal that takes a header equal to the tail for an empty queue.
RemoveDecoded_LeavesLast(c) == Len(decQ[c]) > 1 /\ decQ' = [decQ EXCEPT ![c] = Tail(@)]

RemoveDecoded(c) == decQ[c] # <<>> /\ decQ' = [decQ EXCEPT ![c] = Tail(@)]

\* An insertion at the header end of the list.
InsertMixed_AtHeader(f) == mixQ' = <<f>> \o mixQ

InsertMixed(f) == mixQ' = Append(mixQ, f)
RemoveMixed == mixQ # <<>> /\ mixQ' = Tail(mixQ)

InsertEncoded(f) == encQ' = Append(encQ, f)
RemoveEncoded == encQ # <<>> /\ encQ' = Tail(encQ)

-----------------------------------------------------------------------------
(* Recv_av_packets: read a packet, check the limit, drop the oldest packet *)
(* of a full queue, insert.  Three calls, the lock given back after each.  *)

Receive(c) ==
  /\ recvPc[c] = "recv"
  /\ pktNum[c] < PacketsFrom[c]
  /\ pktNum' = [pktNum EXCEPT ![c] = @ + 1]
  /\ recvPc' = [recvPc EXCEPT ![c] = "check"]
  /\ Memory({Packet(c, pktNum'[c])}, {})
  /\ UNCHANGED <<queues, decoders, mixers, encFrm, aborted, evicted, sent>>

CheckLimit(c) ==
  /\ recvPc[c] = "check"
  /\ \/ RecvLimitReached(c) /\ recvPc' = [recvPc EXCEPT ![c] = "evict"]
     \/ ~RecvLimitReached(c) /\ recvPc' = [recvPc EXCEPT ![c] = "insert"]
  /\ UNCHANGED <<queues, decoders, mixers, encFrm, memory, aborted,
                 pktNum, evicted, sent>>

\* The eviction that drops the packet in hand and keeps the queue.
Evict_Newest(c) ==
  /\ recvPc[c] = "evict"
  /\ recvPc' = [recvPc EXCEPT ![c] = "recv"]
  /\ evicted' = [evicted EXCEPT ![c] = @ \cup {pktNum[c]}]
  /\ Memory({}, {Packet(c, pktNum[c])})
  /\ UNCHANGED <<queues, decoders, mixers, encFrm, aborted, pktNum, sent>>

\* The removal finds the oldest packet; or nothing, when the decoder has
\* emptied the queue since the check, and then the process ends: by
\* assert(NULL!=p_tmp_node) or, in the release build, by the use of the null
\* pointer that follows.
Evict(c) ==
  /\ recvPc[c] = "evict"
  /\ \/ /\ RemoveRecv(c)
        /\ recvPc' = [recvPc EXCEPT ![c] = "insert"]
        /\ evicted' = [evicted EXCEPT ![c] = @ \cup {Head(recvQ[c])}]
        /\ Memory({}, {Packet(c, Head(recvQ[c]))})
        /\ UNCHANGED aborted
     \/ /\ recvQ[c] = <<>>
        /\ aborted' = TRUE
        /\ UNCHANGED <<recvQ, recvPc, evicted, memory>>
  /\ UNCHANGED <<decQ, mixQ, encQ, decoders, mixers, encFrm, pktNum, sent>>

InsertPacket(c) ==
  /\ recvPc[c] = "insert"
  /\ InsertRecv(c, pktNum[c])
  /\ recvPc' = [recvPc EXCEPT ![c] = "recv"]
  /\ UNCHANGED <<decQ, mixQ, encQ, decoders, mixers, encFrm, memory, aborted,
                 pktNum, evicted, sent>>

ReceiverStep(c) == CheckLimit(c) \/ Evict(c) \/ InsertPacket(c)

-----------------------------------------------------------------------------
(* Decode_av_packets and Pseduo_Do_decode_packet.                          *)

TakePacket(c) ==
  /\ decPkt[c] = NoPacket
  /\ RemoveRecv(c)
  /\ decPkt' = [decPkt EXCEPT ![c] = Head(recvQ[c])]
  /\ decDone' = [decDone EXCEPT ![c] = 0]
  /\ UNCHANGED <<decQ, mixQ, encQ, receivers, mixers, encFrm, memory,
                 aborted, sent>>

FrameNumber(p, j) == (p - 1) * FramesPerPacket + j

DecodeFrame(c) ==
  /\ decPkt[c] # NoPacket
  /\ decDone[c] < FramesPerPacket
  /\ LET k == FrameNumber(decPkt[c], decDone[c] + 1)
     IN  InsertDecoded(c, k) /\ Memory({Frame(c, k)}, {})
  /\ decDone' = [decDone EXCEPT ![c] = @ + 1]
  /\ UNCHANGED <<recvQ, mixQ, encQ, receivers, decPkt, mixers, encFrm,
                 aborted, sent>>

\* The packet is freed by the decoder library, its node by the thread.
FinishPacket(c) ==
  /\ decPkt[c] # NoPacket
  /\ decDone[c] = FramesPerPacket
  /\ decPkt' = [decPkt EXCEPT ![c] = NoPacket]
  /\ Memory({}, {Packet(c, decPkt[c])})
  /\ UNCHANGED <<queues, receivers, decDone, mixers, encFrm, aborted, sent>>

DecoderStep(c) == TakePacket(c) \/ DecodeFrame(c) \/ FinishPacket(c)

-----------------------------------------------------------------------------
(* Mix_av_frames and Pseduo_Do_mix_frames.                                 *)

\* The head of the loop without empty_flag = 0.
BeginRound_KeepsFlag(m) ==
  /\ mixSlot' = [mixSlot EXCEPT ![m] = 0]
  /\ UNCHANGED emptyFlag

BeginRound(m) ==
  /\ mixSlot' = [mixSlot EXCEPT ![m] = 0]
  /\ emptyFlag' = [emptyFlag EXCEPT ![m] = 0]

\* One turn of the fetch loop.
FetchFrame(m) ==
  LET c == mixSlot[m] IN
  /\ c \in Clients
  /\ \/ /\ RemoveDecoded(c)
        /\ frms' = [frms EXCEPT ![m][c] = Head(decQ[c])]
        /\ UNCHANGED emptyFlag
     \/ /\ decQ[c] = <<>>
        /\ frms' = [frms EXCEPT ![m][c] = NoFrame]
        /\ emptyFlag' = [emptyFlag EXCEPT ![m] = @ + 1]
        /\ UNCHANGED decQ
  /\ mixSlot' = [mixSlot EXCEPT ![m] = c + 1]
  /\ UNCHANGED <<recvQ, mixQ, encQ, receivers, decoders, encFrm, memory,
                 aborted, sent>>

\* A round given up as soon as one client has no frame.
SkipRound_AnyEmpty(m) ==
  /\ mixSlot[m] = ClientNum
  /\ emptyFlag[m] > 0
  /\ BeginRound(m)
  /\ UNCHANGED <<queues, receivers, decoders, frms, encFrm, memory,
                 aborted, sent>>

\* Every queue was empty when its turn came: begin again.
SkipRound(m) ==
  /\ mixSlot[m] = ClientNum
  /\ emptyFlag[m] = ClientNum
  /\ BeginRound(m)
  /\ UNCHANGED <<queues, receivers, decoders, frms, encFrm, memory,
                 aborted, sent>>

Fetched(m) == {c \in Clients : frms[m][c] # NoFrame}
FetchedFrames(m) == {Frame(c, frms[m][c]) : c \in Fetched(m)}

\* The mixing library frees the frames and leaves the pointers.
MixFrames_KeepsPointers(m) ==
  /\ mixSlot[m] = ClientNum
  /\ emptyFlag[m] # ClientNum
  /\ InsertMixed(frms[m])
  /\ Memory({Mixed(frms[m])}, FetchedFrames(m))
  /\ mixSlot' = [mixSlot EXCEPT ![m] = ClientNum + 1]
  /\ UNCHANGED <<recvQ, decQ, encQ, receivers, decoders, emptyFlag, encFrm,
                 aborted, sent, frms>>

\* The mixed frame is queued, the frames it is made of are freed and their
\* pointers cleared.
MixFrames(m) ==
  /\ mixSlot[m] = ClientNum
  /\ emptyFlag[m] # ClientNum
  /\ InsertMixed(frms[m])
  /\ Memory({Mixed(frms[m])}, FetchedFrames(m))
  /\ frms' = [frms EXCEPT ![m] = [c \in Clients |-> NoFrame]]
  /\ mixSlot' = [mixSlot EXCEPT ![m] = ClientNum + 1]
  /\ UNCHANGED <<recvQ, decQ, encQ, receivers, decoders, emptyFlag, encFrm,
                 aborted, sent>>

\* The thread frees what frms still points to.
ReleaseFrames(m) ==
  /\ mixSlot[m] = ClientNum + 1
  /\ Memory({}, FetchedFrames(m))
  /\ frms' = [frms EXCEPT ![m] = [c \in Clients |-> NoFrame]]
  /\ BeginRound(m)
  /\ UNCHANGED <<queues, receivers, decoders, encFrm, aborted, sent>>

MixerStep(m) ==
  FetchFrame(m) \/ SkipRound(m) \/ MixFrames(m) \/ ReleaseFrames(m)

-----------------------------------------------------------------------------
(* Encode_Av_Frames with Pseduo_Do_encode_frame, and Send_av_packets.      *)

TakeMixed ==
  /\ encFrm = NULL
  /\ RemoveMixed
  /\ encFrm' = Head(mixQ)
  /\ UNCHANGED <<recvQ, decQ, encQ, receivers, decoders, mixers, memory,
                 aborted, sent>>

EncodeFrame ==
  /\ encFrm # NULL
  /\ InsertEncoded(encFrm)
  /\ Memory({Encoded(encFrm)}, {Mixed(encFrm)})
  /\ encFrm' = NULL
  /\ UNCHANGED <<recvQ, decQ, mixQ, receivers, decoders, mixers, aborted, sent>>

EncoderStep == TakeMixed \/ EncodeFrame

\* The packet is taken out, sent and freed.
SendPacket ==
  /\ RemoveEncoded
  /\ sent' = Append(sent, Head(encQ))
  /\ Memory({}, {Encoded(Head(encQ))})
  /\ UNCHANGED <<recvQ, decQ, mixQ, receivers, decoders, mixers, encFrm, aborted>>

-----------------------------------------------------------------------------
Next ==
  /\ ~aborted
  /\ \/ \E c \in Clients : Receive(c) \/ ReceiverStep(c) \/ DecoderStep(c)
     \/ \E m \in Mixers : MixerStep(m)
     \/ EncoderStep
     \/ SendPacket

Spec == Init /\ [][Next]_vars

\* Every worker is a dead loop that polls: it runs whenever it can.  The
\* clients promise nothing.
FairSpec ==
  /\ Spec
  /\ \A c \in Clients : /\ WF_vars(~aborted /\ ReceiverStep(c))
                        /\ WF_vars(~aborted /\ DecoderStep(c))
  /\ \A m \in Mixers : WF_vars(~aborted /\ MixerStep(m))
  /\ WF_vars(~aborted /\ EncoderStep)
  /\ WF_vars(~aborted /\ SendPacket)

-----------------------------------------------------------------------------
(* Properties.                                                             *)

MixedFrames == [Clients -> Nat]

\* Every variable keeps its type.  In particular a mixer's count of empty
\* queues stays within the queues it has asked.
TypeOK ==
  /\ recvQ \in [Clients -> Seq(Nat)]
  /\ decQ \in [Clients -> Seq(Nat)]
  /\ mixQ \in Seq(MixedFrames)
  /\ encQ \in Seq(MixedFrames)
  /\ recvPc \in [Clients -> {"recv", "check", "evict", "insert"}]
  /\ pktNum \in [Clients -> Nat]
  /\ decPkt \in [Clients -> Nat]
  /\ decDone \in [Clients -> 0..FramesPerPacket]
  /\ mixSlot \in [Mixers -> 0..(ClientNum + 1)]
  /\ frms \in [Mixers -> MixedFrames]
  /\ emptyFlag \in [Mixers -> 0..ClientNum]
  /\ encFrm \in MixedFrames \cup {NULL}
  /\ badFree \in BOOLEAN
  /\ aborted \in BOOLEAN
  /\ evicted \in [Clients -> SUBSET Nat]
  /\ sent \in Seq(MixedFrames)

\* A receiving queue never grows past its limit, although the check, the
\* removal and the insertion take the lock one after the other and the
\* decoder runs between them.
RecvBounded == \A c \in Clients : Len(recvQ[c]) <= MAX_AV_PACKET_NUM

\* The packets the receiver of c has put into its queue so far.
Queued(c) == IF recvPc[c] = "recv" THEN pktNum[c] ELSE pktNum[c] - 1

\* A receiving queue holds the newest packets of its client, oldest first
\* and without a gap: evictions and removals by the decoder, in any order,
\* only ever take from the old end.
NewestKept ==
  \A c \in Clients : \A i \in 1..Len(recvQ[c]) :
    recvQ[c][i] = Queued(c) - Len(recvQ[c]) + i

\* A receiver about to insert has room: it found room, or made it, and the
\* decoder can only make more.
RecvRoom == \A c \in Clients : recvPc[c] = "insert" => Len(recvQ[c]) < MAX_AV_PACKET_NUM

\* A mixer has found at most as many queues empty as it has asked.
FlagWithinSlot == \A m \in Mixers : emptyFlag[m] <= mixSlot[m]

\* The inductive invariant.
IInv == TypeOK /\ RecvBounded /\ RecvRoom /\ NewestKept /\ FlagWithinSlot

\* The packets of c the decoder has finished.
Decoded(c) ==
  (1..Queued(c)) \ (evicted[c] \cup {decPkt[c]}
                     \cup {recvQ[c][i] : i \in DOMAIN recvQ[c]})

FramesOf(p, n) == {FrameNumber(p, j) : j \in 1..n}

\* The frames of c that its decoder has queued.
Produced(c) ==
  (UNION {FramesOf(p, FramesPerPacket) : p \in Decoded(c)})
  \cup (IF decPkt[c] = NoPacket THEN {} ELSE FramesOf(decPkt[c], decDone[c]))

\* The places between the decoder and the network that show frame k of c.
Places(c, k) ==
       {<<"decQ", i>> : i \in {j \in DOMAIN decQ[c] : decQ[c][j] = k}}
  \cup {<<"frms", m>> : m \in {n \in Mixers : frms[n][c] = k}}
  \cup {<<"mixQ", i>> : i \in {j \in DOMAIN mixQ : mixQ[j][c] = k}}
  \cup {<<"encFrm", 1>> : x \in {y \in {encFrm} : y # NULL /\ y[c] = k}}
  \cup {<<"encQ", i>> : i \in {j \in DOMAIN encQ : encQ[j][c] = k}}
  \cup {<<"sent", i>> : i \in {j \in DOMAIN sent : sent[j][c] = k}}

\* Every packet read from a socket is dropped whole or decoded whole, and
\* every frame decoded from it is in exactly one place on its way to the
\* network: no frame is lost in a round a mixer gives up, none is shown
\* twice, whichever mixer takes it.
FramesOnce ==
  \A c \in Clients : \A k \in 1..(PacketsFrom[c] * FramesPerPacket) :
    Cardinality(Places(c, k)) = IF k \in Produced(c) THEN 1 ELSE 0

\* The payloads a queue or a thread still points to.
Live ==
  (UNION {{Packet(c, recvQ[c][i]) : i \in DOMAIN recvQ[c]} : c \in Clients})
  \cup {Packet(c, pktNum[c]) : c \in {d \in Clients : recvPc[d] # "recv"}}
  \cup {Packet(c, decPkt[c]) : c \in {d \in Clients : decPkt[d] # NoPacket}}
  \cup (UNION {{Frame(c, decQ[c][i]) : i \in DOMAIN decQ[c]} : c \in Clients})
  \cup (UNION {FetchedFrames(m) : m \in Mixers})
  \cup {Mixed(mixQ[i]) : i \in DOMAIN mixQ}
  \cup {Mixed(f) : f \in {encFrm} \ {NULL}}
  \cup {Encoded(encQ[i]) : i \in DOMAIN encQ}

\* No payload leaks, none is freed twice, none is freed while a queue or a
\* thread can still reach it, although a mixer and the mixing library it
\* calls both free the frames.
HeapExact == ~badFree /\ heap = Live

\* With one mixer the frames of a client are sent in the order they were
\* decoded; the code starts ClientNum - 1 of them.
SentInOrder ==
  \A c \in Clients : \A i, j \in DOMAIN sent :
    i < j /\ sent[i][c] # NoFrame /\ sent[j][c] # NoFrame => sent[i][c] < sent[j][c]

\* A mixer never queues a picture that shows nobody.
NoBluePicture ==
  [][Len(mixQ') > Len(mixQ) =>
       \E c \in Clients : mixQ'[Len(mixQ')][c] # NoFrame]_vars

\* Recv_av_packets drops no more packets than have arrived beyond the limit,
\* however stale the answer of its check is when it removes one: a queue that
\* never was full costs no packet, and the first drop comes after the packet
\* that did not fit.
OnlyExcessDropped ==
  \A c \in Clients :
    evicted[c] # {} => Cardinality(evicted[c]) + MAX_AV_PACKET_NUM <= pktNum[c]

\* The assertion after the removal in Recv_av_packets: a queue found full
\* has a packet to drop.
EvictFindsPacket == ~aborted

\* The frames of c on their way from its decoder to the network.
Waiting(c) ==
  ({decQ[c][i] : i \in DOMAIN decQ[c]} \cup {frms[m][c] : m \in Mixers}
    \cup {mixQ[i][c] : i \in DOMAIN mixQ} \cup {f[c] : f \in {encFrm} \ {NULL}}
    \cup {encQ[i][c] : i \in DOMAIN encQ}) \ {NoFrame}

\* The frames there can be of every client.
FramesFrom == [c \in Clients |-> 1..(PacketsFrom[c] * FramesPerPacket)]

Relayed == INSTANCE Relay WITH Frames <- FramesFrom,
                               InOrder <- (Cardinality(Mixers) <= 1),
                               waiting <- [c \in Clients |-> Waiting(c)],
                               pictures <- sent

\* Together the workers are a relay: a decoded frame waits until one picture
\* takes it to the network, whatever number of mixers compete for it; and if
\* they do not compete, it never overtakes another of its client.
ImplementsRelay == Relayed!Spec

SentFrames(c) == {sent[i][c] : i \in DOMAIN sent}

\* Every packet that arrives is dropped from a full queue, or all its frames
\* are sent in the end, unless the process aborts.
PacketSettled ==
  \A c \in Clients : \A p \in 1..PacketsFrom[c] :
    pktNum[c] >= p ~>
      \/ aborted
      \/ p \in evicted[c]
      \/ FramesOf(p, FramesPerPacket) \subseteq SentFrames(c)
=============================================================================
