---------------------------- MODULE FrameProofs -----------------------------
(***************************************************************************)
(* Proofs about the frames in Pipeline, for any number of clients, packets *)
(* and frames: a decoded frame is in one place until it is sent once, and  *)
(* a picture shows somebody.  With one mixer a client's frames are sent in *)
(* order.  RelayProofs and HeapProofs build on this invariant.             *)
(*                                                                         *)
(* The pictures between the mixers and the network are one line: the sent  *)
(* ones, the encoded, the one the encoder works on, the mixed.  Only a     *)
(* mixer changes the line, and only at its end.  The facts about frames    *)
(* are stated, and preserved, for one client at a time: on what its        *)
(* decoded queue, the mixers' hands and the line show of it.               *)
(***************************************************************************)
EXTENDS PipelineProofs, FiniteSetTheorems

-----------------------------------------------------------------------------
(* The line of pictures.                                                   *)

Working == IF encFrm = NULL THEN 0 ELSE 1

LineLen == Len(sent) + Len(encQ) + Working + Len(mixQ)

Picture(n) ==
  IF n <= Len(sent) THEN sent[n]
  ELSE IF n <= Len(sent) + Len(encQ) THEN encQ[n - Len(sent)]
  ELSE IF n <= Len(sent) + Len(encQ) + Working THEN encFrm
  ELSE mixQ[n - (Len(sent) + Len(encQ) + Working)]

\* What the line shows of client c.
Line(c) == [n \in 1..LineLen |-> Picture(n)[c]]

\* What the mixers have in hand of client c.
Hands(c) == [m \in Mixers |-> frms[m][c]]

-----------------------------------------------------------------------------
(* One client: q its decoded queue, h the mixers' hands, l the line, last  *)
(* the number of its last decoded frame or a later one.                    *)

Before(q, k) == \A i \in 1..Len(q) : k < q[i]

Ascending(q, last) ==
  /\ \A i \in 1..Len(q) : q[i] > 0 /\ q[i] <= last
  /\ \A i \in 1..Len(q) : \A j \in 1..Len(q) : i < j => q[i] < q[j]

\* No frame is in two hands, in a hand and on the line, or on it twice.
Single(h, l) ==
  /\ \A m \in Mixers : \A n \in Mixers : m # n /\ h[m] # 0 => h[m] # h[n]
  /\ \A m \in Mixers : \A n \in 1..Len(l) : h[m] # 0 => h[m] # l[n]
  /\ \A n \in 1..Len(l) : \A o \in 1..Len(l) : n # o /\ l[n] # 0 => l[n] # l[o]

\* Whatever has left the decoded queue is older than what is in it.
Older(q, h, l, last) ==
  /\ \A m \in Mixers : h[m] <= last /\ Before(q, h[m])
  /\ \A n \in 1..Len(l) : l[n] <= last /\ Before(q, l[n])

Once(q, h, l, last) == Ascending(q, last) /\ Single(h, l) /\ Older(q, h, l, last)

\* The line is in order and the hands are behind it.
Ordered(h, l) ==
  /\ \A n \in 1..Len(l) : \A o \in 1..Len(l) :
       n < o /\ l[n] # 0 /\ l[o] # 0 => l[n] < l[o]
  /\ \A m \in Mixers : \A n \in 1..Len(l) : h[m] # 0 => l[n] < h[m]

Shows(q, h, l, k) ==
  \/ \E i \in 1..Len(q) : q[i] = k
  \/ \E m \in Mixers : h[m] = k
  \/ \E n \in 1..Len(l) : l[n] = k

-----------------------------------------------------------------------------
(* The invariant.                                                          *)

\* The packets of c that have left its receiving queue are 1 to Taken(c).
Taken(c) == Queued(c) - Len(recvQ[c])

\* What leaves the queue was dropped or went to the decoder.
PacketFacts(c) ==
  /\ recvPc[c] # "recv" => pktNum[c] > 0
  /\ pktNum[c] <= PacketsFrom[c]
  /\ Taken(c) >= 0
  /\ decPkt[c] <= Taken(c)
  /\ decPkt[c] \notin evicted[c]
  /\ \A p \in evicted[c] : p <= Taken(c) /\ p > 0

\* The last frame decoded, or the last of the packets dropped since.
Last(c) ==
  IF decPkt[c] = NoPacket THEN FrameNumber(Taken(c) + 1, 0)
  ELSE FrameNumber(decPkt[c], decDone[c])

\* A mixer's hands are empty from the queue it asks next on; it has found all
\* queues empty exactly when all are; after it has mixed they are again.
MixerFacts(m) ==
  /\ \A c \in Clients : mixSlot[m] <= c => frms[m][c] = NoFrame
  /\ mixSlot[m] <= ClientNum /\ emptyFlag[m] # mixSlot[m] =>
       \E c \in Clients : frms[m][c] # NoFrame
  /\ mixSlot[m] <= ClientNum /\ emptyFlag[m] = mixSlot[m] =>
       \A c \in Clients : frms[m][c] = NoFrame
  /\ mixSlot[m] > ClientNum => \A c \in Clients : frms[m][c] = NoFrame

\* Two clients have one mixer, which keeps their frames in order.
FrameFacts(c) ==
  /\ Once(decQ[c], Hands(c), Line(c), Last(c))
  /\ \A k \in Nat \ {0} :
       Shows(decQ[c], Hands(c), Line(c), k) <=> k \in Produced(c)
  /\ ClientNum <= 2 => Ordered(Hands(c), Line(c))

\* Every picture on the line shows somebody.
Coloured == \A n \in 1..LineLen : \E c \in Clients : Picture(n)[c] # NoFrame

FInv ==
  /\ IInv
  /\ \A c \in Clients : PacketFacts(c)
  /\ \A m \in Mixers : MixerFacts(m)
  /\ \A c \in Clients : FrameFacts(c)
  /\ Coloured

-----------------------------------------------------------------------------
(* What a step does to one client's frames.                                *)

Columns(q, h, l, last) ==
  q \in Seq(Nat) /\ h \in [Mixers -> Nat] /\ l \in Seq(Nat) /\ last \in Nat

\* Nothing changes for the frames when the last one is put later.
LEMMA OnceLater ==
  ASSUME NEW q, NEW h, NEW l, NEW last, Columns(q, h, l, last),
         Once(q, h, l, last), NEW later \in Nat, last <= later
  PROVE  Once(q, h, l, later)
<1>1. \A i \in 1..Len(q) : q[i] \in Nat
  BY ElementOfSeq DEF Columns
<1>2. \A m \in Mixers : h[m] \in Nat
  BY DEF Columns
<1>3. \A n \in 1..Len(l) : l[n] \in Nat
  BY ElementOfSeq DEF Columns
<1> QED
  BY <1>1, <1>2, <1>3 DEF Once, Ascending, Older, Columns

\* A frame is decoded.
LEMMA OnceDecode ==
  ASSUME NEW q, NEW h, NEW l, NEW last, Columns(q, h, l, last),
         Once(q, h, l, last), NEW k \in Nat, last < k
  PROVE  /\ Once(Append(q, k), h, l, k)
         /\ \A j : Shows(Append(q, k), h, l, j) <=> Shows(q, h, l, j) \/ j = k
<1>1. /\ Len(q) \in Nat /\ Append(q, k) \in Seq(Nat)
      /\ Len(Append(q, k)) = Len(q) + 1
      /\ Append(q, k)[Len(q) + 1] = k
      /\ \A i \in 1..Len(q) : Append(q, k)[i] = q[i] /\ q[i] \in Nat
  BY AppendProperties, ElementOfSeq DEF Columns
<1>2. /\ \A m \in Mixers : h[m] \in Nat
      /\ \A n \in 1..Len(l) : l[n] \in Nat
  BY ElementOfSeq DEF Columns
<1>3. Ascending(Append(q, k), k)
  <2>1. \A i \in 1..Len(q) : q[i] > 0 /\ q[i] <= last /\ q[i] < k
    BY <1>1 DEF Once, Ascending, Columns
  <2>2. \A i \in 1..Len(Append(q, k)) : i \in 1..Len(q) \/ i = Len(q) + 1
    BY <1>1
  <2>3. \A i \in 1..Len(q) : \A j \in 1..Len(q) : i < j => q[i] < q[j]
    BY DEF Once, Ascending
  <2>4. k > 0 /\ k <= k
    BY DEF Columns
  <2>5. \A i \in 1..Len(Append(q, k)) :
           Append(q, k)[i] > 0 /\ Append(q, k)[i] <= k
    BY <1>1, <2>1, <2>2, <2>4
  <2>6. \A i \in 1..Len(Append(q, k)) : \A j \in 1..Len(Append(q, k)) :
           i < j => Append(q, k)[i] < Append(q, k)[j]
    BY <1>1, <2>1, <2>2, <2>3
  <2> QED
    BY <2>5, <2>6 DEF Ascending
<1>4. Older(Append(q, k), h, l, k)
  BY <1>1, <1>2 DEF Once, Older, Before, Columns
<1>5. \A j : Shows(Append(q, k), h, l, j) <=> Shows(q, h, l, j) \/ j = k
  <2>1. \A j : (\E i \in 1..Len(Append(q, k)) : Append(q, k)[i] = j)
                 <=> (\E i \in 1..Len(q) : q[i] = j) \/ j = k
    BY <1>1
  <2> QED
    BY <2>1 DEF Shows
<1> QED
  BY <1>3, <1>4, <1>5 DEF Once

\* A mixer takes the head of the decoded queue into an empty hand.
LEMMA OnceFetch ==
  ASSUME NEW q, NEW h, NEW l, NEW last, Columns(q, h, l, last),
         Once(q, h, l, last), q # <<>>, NEW m \in Mixers, h[m] = 0,
         NEW g, g = [h EXCEPT ![m] = Head(q)]
  PROVE  /\ Once(Tail(q), g, l, last)
         /\ \A k \in Nat \ {0} : Shows(Tail(q), g, l, k) <=> Shows(q, h, l, k)
<1>1. /\ Len(q) \in Nat /\ Len(q) > 0 /\ Tail(q) \in Seq(Nat)
      /\ Len(Tail(q)) = Len(q) - 1
      /\ Head(q) = q[1]
      /\ \A i \in 1..Len(Tail(q)) : Tail(q)[i] = q[i + 1]
      /\ \A i \in 1..Len(q) : q[i] \in Nat
  BY RemoveHead, ElementOfSeq DEF Columns
<1>2. /\ \A n \in Mixers : h[n] \in Nat
      /\ \A n \in 1..Len(l) : l[n] \in Nat
      /\ g[m] = q[1] /\ \A n \in Mixers : n # m => g[n] = h[n]
  BY <1>1, ElementOfSeq DEF Columns
<1>3. 1 \in 1..Len(q) /\ \A i \in 1..Len(Tail(q)) : i + 1 \in 1..Len(q)
  BY <1>1
<1>4. Ascending(Tail(q), last)
  BY <1>1, <1>3 DEF Once, Ascending
<1>5. Single(g, l)
  <2>1. \A n \in Mixers : h[n] < q[1]
    BY <1>3 DEF Once, Older, Before
  <2>2. \A n \in 1..Len(l) : l[n] < q[1]
    BY <1>3 DEF Once, Older, Before
  <2> QED
    BY <1>1, <1>2, <1>3, <2>1, <2>2 DEF Once, Single
<1>6. Older(Tail(q), g, l, last)
  <2>1. q[1] <= last /\ \A i \in 1..Len(Tail(q)) : q[1] < Tail(q)[i]
    BY <1>1, <1>3 DEF Once, Ascending
  <2>2. ASSUME NEW k, Before(q, k) PROVE Before(Tail(q), k)
    BY <1>1, <1>3, <2>2 DEF Before
  <2> QED
    BY <1>2, <2>1, <2>2 DEF Once, Older, Before
<1>7. \A k \in Nat \ {0} : Shows(Tail(q), g, l, k) <=> Shows(q, h, l, k)
  <2> SUFFICES ASSUME NEW k \in Nat \ {0}
               PROVE  Shows(Tail(q), g, l, k) <=> Shows(q, h, l, k)
    OBVIOUS
  <2>1. (\E i \in 1..Len(q) : q[i] = k)
           <=> (q[1] = k) \/ (\E i \in 1..Len(Tail(q)) : Tail(q)[i] = k)
    <3>1. ASSUME NEW i \in 1..Len(q), i # 1
          PROVE  i - 1 \in 1..Len(Tail(q)) /\ Tail(q)[i - 1] = q[i]
      BY <1>1, <3>1
    <3>2. ASSUME NEW i \in 1..Len(q), q[i] = k
          PROVE  (q[1] = k) \/ (\E j \in 1..Len(Tail(q)) : Tail(q)[j] = k)
      BY <3>1, <3>2
    <3>3. ASSUME NEW i \in 1..Len(Tail(q)), Tail(q)[i] = k
          PROVE  \E j \in 1..Len(q) : q[j] = k
      BY <1>1, <1>3, <3>3
    <3> QED
      BY <1>3, <3>2, <3>3
  <2>2. (\E n \in Mixers : g[n] = k) <=> (q[1] = k) \/ (\E n \in Mixers : h[n] = k)
    BY <1>2
  <2> QED
    BY <2>1, <2>2 DEF Shows
<1> QED
  BY <1>4, <1>5, <1>6, <1>7 DEF Once

\* What a mixer has in hand becomes the end of the line.
LEMMA OnceMix ==
  ASSUME NEW q, NEW h, NEW l, NEW last, Columns(q, h, l, last),
         Once(q, h, l, last), NEW m \in Mixers,
         NEW g, g = [h EXCEPT ![m] = 0]
  PROVE  /\ Once(q, g, Append(l, h[m]), last)
         /\ \A k \in Nat \ {0} :
              Shows(q, g, Append(l, h[m]), k) <=> Shows(q, h, l, k)
<1>1. /\ \A i \in 1..Len(q) : q[i] \in Nat
      /\ \A n \in Mixers : h[n] \in Nat
      /\ \A n \in 1..Len(l) : l[n] \in Nat
  BY ElementOfSeq DEF Columns
<1>2. /\ Len(l) \in Nat
      /\ Len(Append(l, h[m])) = Len(l) + 1
      /\ Append(l, h[m])[Len(l) + 1] = h[m]
      /\ \A n \in 1..Len(l) : Append(l, h[m])[n] = l[n]
  BY <1>1, AppendProperties DEF Columns
<1>3. g[m] = 0 /\ \A n \in Mixers : n # m => g[n] = h[n]
  BY DEF Columns
<1>4. Older(q, g, Append(l, h[m]), last)
  <2>1. \A i \in 1..Len(q) : 0 < q[i]
    BY <1>1 DEF Once, Ascending
  <2>2. last \in Nat /\ Older(q, h, l, last)
    BY DEF Once, Columns
  <2>3. PICK r, N : r = Append(l, h[m]) /\ N = Len(l) + 1
    OBVIOUS
  <2>4. /\ r[N] = h[m] /\ \A n \in 1..Len(l) : r[n] = l[n]
        /\ \A n \in 1..Len(r) : n \in 1..Len(l) \/ n = N
    BY <1>2, <2>3
  <2>5. \A n \in Mixers : g[n] <= last /\ Before(q, g[n])
    BY ONLY <1>3, <2>1, <2>2 DEF Older, Before
  <2>6. \A n \in 1..Len(r) : r[n] <= last /\ Before(q, r[n])
    BY ONLY <2>2, <2>4, m \in Mixers DEF Older
  <2> QED
    BY ONLY <2>3, <2>5, <2>6 DEF Older
<1>5. Single(g, Append(l, h[m]))
  <2>1. Single(h, l)
    BY DEF Once
  <2>2. \A n \in 1..Len(Append(l, h[m])) : n \in 1..Len(l) \/ n = Len(l) + 1
    BY ONLY <1>2
  <2>3. \A n \in 1..Len(l) : n # Len(l) + 1
    BY ONLY <1>2
  <2>4. PICK r, N : r = Append(l, h[m]) /\ N = Len(l) + 1
    OBVIOUS
  <2>5. /\ r[N] = h[m] /\ \A n \in 1..Len(l) : r[n] = l[n]
        /\ \A n \in 1..Len(r) : n \in 1..Len(l) \/ n = N
        /\ \A n \in 1..Len(l) : n # N
    BY <1>2, <2>2, <2>3, <2>4
  <2>6. \A n \in Mixers : \A o \in Mixers : n # o /\ g[n] # 0 => g[n] # g[o]
    BY ONLY <1>3, <2>1 DEF Single
  <2>7. \A n \in Mixers : \A o \in 1..Len(r) : g[n] # 0 => g[n] # r[o]
    BY ONLY <1>3, <2>1, <2>5, m \in Mixers DEF Single
  <2>8. \A n \in 1..Len(r) : \A o \in 1..Len(r) :
          n # o /\ r[n] # 0 => r[n] # r[o]
    BY ONLY <2>1, <2>5, m \in Mixers DEF Single
  <2>9. Single(g, r)
    BY ONLY <2>6, <2>7, <2>8 DEF Single
  <2> QED
    BY ONLY <2>4, <2>9
<1>6. \A k \in Nat \ {0} :
         Shows(q, g, Append(l, h[m]), k) <=> Shows(q, h, l, k)
  <2> SUFFICES ASSUME NEW k \in Nat \ {0}
               PROVE  Shows(q, g, Append(l, h[m]), k) <=> Shows(q, h, l, k)
    OBVIOUS
  <2>1. (\E n \in 1..Len(Append(l, h[m])) : Append(l, h[m])[n] = k)
          <=> (h[m] = k) \/ (\E n \in 1..Len(l) : l[n] = k)
    BY <1>2
  <2>2. (\E n \in Mixers : g[n] = k) \/ (h[m] = k) <=> (\E n \in Mixers : h[n] = k)
    BY <1>3
  <2> QED
    BY <2>1, <2>2 DEF Shows
<1> QED
  BY <1>4, <1>5, <1>6 DEF Once

-----------------------------------------------------------------------------
(* The same with one mixer, in order.                                      *)

\* A frame from the queue is newer than all on the line.
LEMMA OrderedFetch ==
  ASSUME NEW q, NEW h, NEW l, NEW last, Columns(q, h, l, last),
         Once(q, h, l, last), Ordered(h, l), q # <<>>, NEW m \in Mixers,
         NEW g, g = [h EXCEPT ![m] = Head(q)]
  PROVE  Ordered(g, l)
<1>1. Head(q) = q[1] /\ 1 \in 1..Len(q)
  BY RemoveHead DEF Columns
<1>2. \A n \in 1..Len(l) : l[n] < Head(q)
  BY <1>1 DEF Once, Older, Before
<1>3. g[m] = Head(q) /\ \A n \in Mixers : n # m => g[n] = h[n]
  BY DEF Columns
<1> QED
  BY <1>2, <1>3 DEF Ordered

\* The only mixer in the order puts its frame behind older ones.
LEMMA OrderedMix ==
  ASSUME NEW q, NEW h, NEW l, NEW last, Columns(q, h, l, last),
         Ordered(h, l), NEW m \in Mixers, Mixers = {m},
         NEW g, g = [h EXCEPT ![m] = 0]
  PROVE  Ordered(g, Append(l, h[m]))
<1>1. h[m] \in Nat /\ \A n \in 1..Len(l) : l[n] \in Nat
  BY ElementOfSeq DEF Columns
<1>2. /\ Len(l) \in Nat
      /\ Len(Append(l, h[m])) = Len(l) + 1
      /\ Append(l, h[m])[Len(l) + 1] = h[m]
      /\ \A n \in 1..Len(l) : Append(l, h[m])[n] = l[n]
  BY <1>1, AppendProperties DEF Columns
<1>3. g[m] = 0
  BY DEF Columns
<1> QED
  BY <1>1, <1>2, <1>3 DEF Ordered

-----------------------------------------------------------------------------
(* The line.                                                               *)

QueueTypes ==
  /\ sent \in Seq(MixedFrames)
  /\ encQ \in Seq(MixedFrames)
  /\ encFrm \in MixedFrames \cup {NULL}
  /\ mixQ \in Seq(MixedFrames)

\* The line is a sequence of pictures, and begins with the sent ones.
LEMMA LineType ==
  ASSUME QueueTypes
  PROVE  /\ LineLen \in Nat /\ Len(sent) \in Nat /\ Len(sent) <= LineLen
         /\ \A n \in 1..LineLen : Picture(n) \in MixedFrames
         /\ \A c \in Clients : /\ Line(c) \in Seq(Nat)
                               /\ Len(Line(c)) = LineLen
                               /\ \A n \in 1..LineLen : Line(c)[n] = Picture(n)[c]
<1>1. /\ Len(sent) \in Nat /\ Len(encQ) \in Nat /\ Len(mixQ) \in Nat
      /\ \A n \in 1..Len(sent) : sent[n] \in MixedFrames
      /\ \A n \in 1..Len(encQ) : encQ[n] \in MixedFrames
      /\ \A n \in 1..Len(mixQ) : mixQ[n] \in MixedFrames
  BY ElementOfSeq DEF QueueTypes
<1>2. Working \in {0, 1} /\ (Working = 1 => encFrm \in MixedFrames)
  BY DEF QueueTypes, Working
<1>3. LineLen \in Nat /\ Len(sent) <= LineLen
  BY <1>1, <1>2 DEF LineLen
<1>4. ASSUME NEW n \in 1..LineLen PROVE Picture(n) \in MixedFrames
  BY <1>1, <1>2, <1>4 DEF Picture, LineLen
<1>5. ASSUME NEW c \in Clients
      PROVE  /\ Line(c) \in Seq(Nat)
             /\ Len(Line(c)) = LineLen
             /\ \A n \in 1..LineLen : Line(c)[n] = Picture(n)[c]
  <2>1. \A n \in 1..LineLen : Picture(n)[c] \in Nat
    BY <1>4 DEF MixedFrames
  <2>2. Line(c) \in [1..LineLen -> Nat]
    BY <2>1 DEF Line
  <2> QED
    BY <1>3, <2>2, LenProperties DEF Line
<1> QED
  BY <1>1, <1>3, <1>4, <1>5

\* An encoder with nothing in hand is told from one with a picture.
LEMMA NullNoPicture == NULL \notin MixedFrames
  BY NullAssumption DEF MixedFrames

\* The encoder and the sender pass pictures on, and leave the line as it is.
LEMMA LineMoves ==
  ASSUME QueueTypes, TakeMixed \/ EncodeFrame \/ SendPacket
  PROVE  /\ LineLen' = LineLen
         /\ \A n \in 1..LineLen : Picture(n)' = Picture(n)
         /\ \A c \in Clients : Line(c)' = Line(c)
<1>1. /\ Len(sent) \in Nat /\ Len(encQ) \in Nat /\ Len(mixQ) \in Nat
  BY DEF QueueTypes
<1>2. CASE TakeMixed
  <2>1. /\ mixQ # <<>> /\ mixQ' = Tail(mixQ) /\ encFrm' = Head(mixQ)
        /\ encFrm = NULL /\ sent' = sent /\ encQ' = encQ
    BY <1>2 DEF TakeMixed, RemoveMixed
  <2>2. /\ Len(mixQ') = Len(mixQ) - 1 /\ encFrm' = mixQ[1] /\ encFrm' # NULL
        /\ \A n \in 1..Len(mixQ') : mixQ'[n] = mixQ[n + 1]
        /\ Len(mixQ) > 0
    BY <2>1, RemoveHead, NullNoPicture DEF QueueTypes
  <2>3. Working = 0 /\ Working' = 1
    BY <2>1, <2>2 DEF Working
  <2>4. LineLen' = LineLen
    BY <1>1, <2>1, <2>2, <2>3 DEF LineLen
  <2>5. \A n \in 1..LineLen : Picture(n)' = Picture(n)
    BY <1>1, <2>1, <2>2, <2>3 DEF LineLen, Picture
  <2> QED
    BY <2>4, <2>5 DEF Line
<1>3. CASE EncodeFrame
  <2>1. /\ encQ' = Append(encQ, encFrm) /\ encFrm' = NULL /\ encFrm # NULL
        /\ sent' = sent /\ mixQ' = mixQ
    BY <1>3 DEF EncodeFrame, InsertEncoded
  <2>2. /\ Len(encQ') = Len(encQ) + 1 /\ encQ'[Len(encQ) + 1] = encFrm
        /\ \A n \in 1..Len(encQ) : encQ'[n] = encQ[n]
    BY <2>1, AppendProperties DEF QueueTypes
  <2>3. Working = 1 /\ Working' = 0
    BY <2>1 DEF Working
  <2>4. LineLen' = LineLen
    BY <1>1, <2>1, <2>2, <2>3 DEF LineLen
  <2>5. \A n \in 1..LineLen : Picture(n)' = Picture(n)
    BY <1>1, <2>1, <2>2, <2>3 DEF LineLen, Picture
  <2> QED
    BY <2>4, <2>5 DEF Line
<1>4. CASE SendPacket
  <2>1. /\ encQ # <<>> /\ encQ' = Tail(encQ) /\ sent' = Append(sent, Head(encQ))
        /\ encFrm' = encFrm /\ mixQ' = mixQ
    BY <1>4 DEF SendPacket, RemoveEncoded
  <2>2. /\ Len(encQ') = Len(encQ) - 1 /\ Head(encQ) = encQ[1]
        /\ \A n \in 1..Len(encQ') : encQ'[n] = encQ[n + 1]
        /\ Len(encQ) > 0 /\ Head(encQ) \in MixedFrames
    BY <2>1, RemoveHead DEF QueueTypes
  <2>3. /\ Len(sent') = Len(sent) + 1 /\ sent'[Len(sent) + 1] = encQ[1]
        /\ \A n \in 1..Len(sent) : sent'[n] = sent[n]
    BY <2>1, <2>2, AppendProperties DEF QueueTypes
  <2>4. Working' = Working /\ Working \in {0, 1}
    BY <2>1 DEF Working
  <2>5. LineLen' = LineLen
    BY <1>1, <2>1, <2>2, <2>3, <2>4 DEF LineLen
  <2>6. \A n \in 1..LineLen : Picture(n)' = Picture(n)
    BY <1>1, <2>1, <2>2, <2>3, <2>4 DEF LineLen, Picture
  <2> QED
    BY <2>5, <2>6 DEF Line
<1> QED
  BY <1>2, <1>3, <1>4

\* A mixed picture goes to the end of the line.
LEMMA LineGrows ==
  ASSUME QueueTypes, NEW m \in Mixers, frms[m] \in MixedFrames, MixFrames(m)
  PROVE  /\ LineLen' = LineLen + 1
         /\ \A n : n = LineLen + 1 => Picture(n)' = frms[m]
         /\ \A n \in 1..LineLen : Picture(n)' = Picture(n)
         /\ \A c \in Clients : Line(c)' = Append(Line(c), frms[m][c])
<1>1. /\ mixQ' = Append(mixQ, frms[m])
      /\ sent' = sent /\ encQ' = encQ /\ encFrm' = encFrm
  BY DEF MixFrames, InsertMixed
<1>2. /\ Len(sent) \in Nat /\ Len(encQ) \in Nat /\ Len(mixQ) \in Nat
  BY DEF QueueTypes
<1>3. /\ Len(mixQ') = Len(mixQ) + 1 /\ mixQ'[Len(mixQ) + 1] = frms[m]
      /\ \A n \in 1..Len(mixQ) : mixQ'[n] = mixQ[n]
  BY <1>1, AppendProperties DEF QueueTypes
<1>4. Working' = Working /\ Working \in {0, 1}
  BY <1>1 DEF Working
<1>5. LineLen' = LineLen + 1
  BY <1>1, <1>2, <1>3, <1>4 DEF LineLen
<1>6. ASSUME NEW n, n = LineLen + 1 PROVE Picture(n)' = frms[m]
  <2>1. /\ n \in Int /\ ~(n <= Len(sent)) /\ ~(n <= Len(sent) + Len(encQ))
        /\ ~(n <= Len(sent) + Len(encQ) + Working)
        /\ n - (Len(sent) + Len(encQ) + Working) = Len(mixQ) + 1
    BY <1>2, <1>4, <1>6 DEF LineLen
  <2>2. Picture(n)' = mixQ'[Len(mixQ) + 1]
    BY <1>1, <1>4, <2>1 DEF Picture
  <2> QED
    BY <1>3, <2>2
<1>7. \A n \in 1..LineLen : Picture(n)' = Picture(n)
  BY <1>1, <1>2, <1>3, <1>4 DEF LineLen, Picture
<1>8. ASSUME NEW c \in Clients
      PROVE  Line(c)' = Append(Line(c), frms[m][c])
  <2>1. /\ Line(c) \in Seq(Nat) /\ Len(Line(c)) = LineLen /\ LineLen \in Nat
        /\ \A n \in 1..LineLen : Line(c)[n] = Picture(n)[c]
    BY LineType
  <2>2. frms[m][c] \in Nat
    BY DEF MixedFrames
  <2>3. Line(c)' = [n \in 1..(LineLen + 1) |-> Picture(n)'[c]]
    BY <1>5 DEF Line
  <2>4. /\ Append(Line(c), frms[m][c]) \in Seq(Nat)
        /\ Len(Append(Line(c), frms[m][c])) = LineLen + 1
        /\ Append(Line(c), frms[m][c])[LineLen + 1] = frms[m][c]
        /\ \A n \in 1..LineLen : Append(Line(c), frms[m][c])[n] = Line(c)[n]
    BY <2>1, <2>2, AppendProperties
  <2>5. Append(Line(c), frms[m][c]) \in [1..(LineLen + 1) -> Nat]
    BY <2>4, LenProperties
  <2>6. ASSUME NEW n \in 1..(LineLen + 1)
        PROVE  Picture(n)'[c] = Append(Line(c), frms[m][c])[n]
    <3>1. CASE n = LineLen + 1
      BY <1>6, <2>4, <3>1
    <3>2. CASE n # LineLen + 1
      <4>1. n \in 1..LineLen
        BY <2>1, <3>2
      <4> QED
        BY <1>7, <2>1, <2>4, <4>1
    <3> QED
      BY <3>1, <3>2
  <2> QED
    BY <2>3, <2>5, <2>6
<1> QED
  BY <1>5, <1>6, <1>7, <1>8

\* A step that leaves the four parts alone leaves the line alone.
LEMMA LineStays ==
  ASSUME UNCHANGED <<sent, encQ, encFrm, mixQ>>
  PROVE  /\ LineLen' = LineLen
         /\ \A n : Picture(n)' = Picture(n)
         /\ \A c \in Clients : Line(c)' = Line(c)
<1>1. LineLen' = LineLen /\ \A n : Picture(n)' = Picture(n)
  BY DEF LineLen, Working, Picture
<1> QED
  BY <1>1 DEF Line

-----------------------------------------------------------------------------
(* Packets, and the numbers of frames.                                     *)

\* A packet's frames follow those of the packet before, without a gap.
LEMMA FrameNumberGrows ==
  ASSUME NEW p \in Nat \ {0}, NEW q \in Nat \ {0}
  PROVE  /\ FrameNumber(p, 0) \in Nat
         /\ \A j \in Nat : FrameNumber(p, j) = FrameNumber(p, 0) + j
         /\ FrameNumber(p, FramesPerPacket) = FrameNumber(p + 1, 0)
         /\ p <= q => FrameNumber(p, 0) <= FrameNumber(q, 0)
         /\ FrameNumber(p, 0) = (p - 1) * FramesPerPacket
<1> DEFINE F == FramesPerPacket
<1>1. F \in Nat
  BY FrameAssumption
<1>2. FrameNumber(p, 0) \in Nat
  BY FrameNumberType
<1>3. /\ \A j \in Nat : FrameNumber(p, j) = FrameNumber(p, 0) + j
      /\ FrameNumber(p, 0) = (p - 1) * F
  <2>1. (p - 1) * F \in Nat
    BY <1>1
  <2> QED
    BY <2>1 DEF FrameNumber
<1>4. FrameNumber(p, F) = FrameNumber(p + 1, 0)
  <2>1. ((p + 1) - 1) * F = (p - 1) * F + F
    BY <1>1
  <2> QED
    BY <1>1, <2>1 DEF FrameNumber
<1>5. ASSUME p <= q PROVE FrameNumber(p, 0) <= FrameNumber(q, 0)
  <2>1. /\ q - p \in Nat
        /\ (q - p) * F \in Nat
        /\ (q - 1) * F = (p - 1) * F + (q - p) * F
    BY <1>1, <1>5
  <2>2. (p - 1) * F \in Nat
    BY <1>1
  <2> QED
    BY <2>1, <2>2 DEF FrameNumber
<1> QED
  BY <1>2, <1>3, <1>4, <1>5

\* The packets that have left the queue and are neither dropped nor in the
\* decoder's hand.
Done(t, dropped, p) == (1..t) \ (dropped \cup {p})

\* The same, as Decoded says it.
DoneOf(n, q, dropped, p) ==
  (1..n) \ (dropped \cup {p} \cup {q[i] : i \in DOMAIN q})

\* The packets decoded, from what the decoder has taken out of the queue.
LEMMA DecodedOf ==
  ASSUME NEW n \in Int, NEW q \in Seq(Nat), NEW dropped, NEW p,
         n - Len(q) >= 0, \A i \in 1..Len(q) : q[i] = n - Len(q) + i
  PROVE  DoneOf(n, q, dropped, p) = Done(n - Len(q), dropped, p)
<1>1. Len(q) \in Nat /\ DOMAIN q = 1..Len(q)
  BY LenProperties
<1>2. ASSUME NEW x \in 1..n
      PROVE  x \in {q[i] : i \in DOMAIN q} <=> x > n - Len(q)
  <2>1. ASSUME x > n - Len(q) PROVE x \in {q[i] : i \in DOMAIN q}
    <3>1. x - (n - Len(q)) \in 1..Len(q) /\ q[x - (n - Len(q))] = x
      BY <1>1, <2>1
    <3> QED
      BY <1>1, <3>1
  <2>2. ASSUME NEW i \in DOMAIN q, x = q[i] PROVE x > n - Len(q)
    BY <1>1, <2>2
  <2> QED
    BY <2>1, <2>2
<1>3. 1..(n - Len(q)) = {x \in 1..n : ~(x > n - Len(q))}
  BY <1>1
<1> QED
  BY <1>2, <1>3 DEF Done, DoneOf

\* What the invariant of PipelineProofs gives for one client's packets.
LEMMA PacketTypes ==
  ASSUME IInv, NEW c \in Clients
  PROVE  /\ recvQ[c] \in Seq(Nat) /\ Len(recvQ[c]) \in Nat
         /\ pktNum[c] \in Nat /\ Queued(c) \in Int /\ Taken(c) \in Int
         /\ decPkt[c] \in Nat /\ decDone[c] \in 0..FramesPerPacket
         /\ decDone[c] \in Nat /\ FramesPerPacket \in Nat \ {0}
         /\ evicted[c] \subseteq Nat
         /\ recvQ[c] # <<>> => Head(recvQ[c]) = Taken(c) + 1
         /\ Taken(c) >= 0 =>
              Decoded(c) = Done(Taken(c), evicted[c], decPkt[c])
<1>1. /\ recvQ[c] \in Seq(Nat) /\ Len(recvQ[c]) \in Nat
      /\ pktNum[c] \in Nat
      /\ decPkt[c] \in Nat /\ decDone[c] \in 0..FramesPerPacket
      /\ evicted[c] \subseteq Nat
  BY DEF IInv, TypeOK
<1>2. Queued(c) \in Int
  BY <1>1 DEF Queued
<1>3. FramesPerPacket \in Nat \ {0} /\ decDone[c] \in Nat
  BY <1>1, FrameAssumption
<1>4. Taken(c) \in Int
  BY <1>1, <1>2 DEF Taken
<1>5. \A i \in 1..Len(recvQ[c]) : recvQ[c][i] = Queued(c) - Len(recvQ[c]) + i
  BY DEF IInv, NewestKept
<1>6. ASSUME recvQ[c] # <<>> PROVE Head(recvQ[c]) = Taken(c) + 1
  <2>1. Head(recvQ[c]) = recvQ[c][1] /\ 1 \in 1..Len(recvQ[c])
    BY <1>1, <1>6, RemoveHead
  <2> QED
    BY <1>5, <2>1 DEF Taken
<1>7. ASSUME Taken(c) >= 0
      PROVE  Decoded(c) = Done(Taken(c), evicted[c], decPkt[c])
  <2>1. DoneOf(Queued(c), recvQ[c], evicted[c], decPkt[c])
          = Done(Queued(c) - Len(recvQ[c]), evicted[c], decPkt[c])
    <3>1. Queued(c) - Len(recvQ[c]) >= 0
      BY <1>7 DEF Taken
    <3>2. PICK n, q, E, p :
            n = Queued(c) /\ q = recvQ[c] /\ E = evicted[c] /\ p = decPkt[c]
      OBVIOUS
    <3>3. /\ n \in Int /\ q \in Seq(Nat) /\ n - Len(q) >= 0
          /\ \A i \in 1..Len(q) : q[i] = n - Len(q) + i
      BY <1>1, <1>2, <1>5, <3>1, <3>2
    <3>4. DoneOf(n, q, E, p) = Done(n - Len(q), E, p)
      BY ONLY <3>3, DecodedOf
    <3> QED
      BY ONLY <3>2, <3>4
  <2> QED
    BY <2>1 DEF Decoded, DoneOf, Taken
<1> QED
  BY <1>1, <1>2, <1>3, <1>4, <1>6, <1>7

\* The frames of one packet more are its own in addition.
LEMMA OnePacketMore ==
  ASSUME NEW D, NEW p, NEW n
  PROVE  UNION {FramesOf(x, n) : x \in D \cup {p}}
           = (UNION {FramesOf(x, n) : x \in D}) \cup FramesOf(p, n)
<1> DEFINE more == {FramesOf(x, n) : x \in D \cup {p}}
           less == {FramesOf(x, n) : x \in D}
<1>1. more = less \cup {FramesOf(p, n)}
  OBVIOUS
<1> HIDE DEF more, less
<1>2. ASSUME NEW k
      PROVE  k \in UNION more <=> k \in (UNION less) \cup FramesOf(p, n)
  <2>1. k \in UNION more <=> \E x \in more : k \in x
    OBVIOUS
  <2>2. k \in UNION less <=> \E x \in less : k \in x
    OBVIOUS
  <2>3. (\E x \in more : k \in x)
          <=> (\E x \in less : k \in x) \/ k \in FramesOf(p, n)
    BY <1>1
  <2> QED
    BY <2>1, <2>2, <2>3
<1>3. UNION more = (UNION less) \cup FramesOf(p, n)
  BY <1>2
<1> QED
  BY <1>3 DEF more, less

\* What is said of a client's packets speaks of five variables.
LEMMA PacketFrame ==
  ASSUME NEW c \in Clients,
         recvQ'[c] = recvQ[c], recvPc'[c] = recvPc[c],
         pktNum'[c] = pktNum[c], decPkt'[c] = decPkt[c],
         evicted'[c] = evicted[c]
  PROVE  /\ PacketFacts(c) => PacketFacts(c)'
         /\ Decoded(c)' = Decoded(c)
         /\ Taken(c)' = Taken(c)
  BY DEF PacketFacts, Decoded, Taken, Queued

\* A step of the receiver or the decoder of c leaves the packets of the other
\* clients alone, any other step those of c too.
LEMMA OthersPackets ==
  ASSUME TypeOK, NEW c \in Clients, NEW d \in Clients, d # c,
         Receive(c) \/ ReceiverStep(c) \/ DecoderStep(c)
  PROVE  /\ recvQ'[d] = recvQ[d] /\ recvPc'[d] = recvPc[d]
         /\ pktNum'[d] = pktNum[d] /\ decPkt'[d] = decPkt[d]
         /\ decDone'[d] = decDone[d] /\ evicted'[d] = evicted[d]
<1> USE DEF TypeOK, queues, receivers, decoders
<1>1. CASE Receive(c) \/ CheckLimit(c)
  BY <1>1 DEF Receive, CheckLimit
<1>2. CASE Evict(c)
  BY <1>2 DEF Evict, RemoveRecv
<1>3. CASE InsertPacket(c)
  BY <1>3 DEF InsertPacket, InsertRecv
<1>4. CASE TakePacket(c)
  BY <1>4 DEF TakePacket, RemoveRecv
<1>5. CASE DecodeFrame(c)
  BY <1>5 DEF DecodeFrame
<1>6. CASE FinishPacket(c)
  BY <1>6 DEF FinishPacket
<1> QED
  BY <1>1, <1>2, <1>3, <1>4, <1>5, <1>6 DEF ReceiverStep, DecoderStep

\* The steps of the mixers, the encoder and the sender.
Downstream == (\E m \in Mixers : MixerStep(m)) \/ EncoderStep \/ SendPacket

\* They change nothing of the packets.
LEMMA DownstreamPackets ==
  ASSUME Downstream
  PROVE  UNCHANGED <<recvQ, recvPc, pktNum, decPkt, decDone, evicted>>
  BY DEF Downstream, MixerStep, FetchFrame, SkipRound, MixFrames, ReleaseFrames,
     EncoderStep, TakeMixed, EncodeFrame, SendPacket, queues, receivers, decoders

\* Every step of c's receiver, and the decoder taking or finishing a packet:
\* the facts stay, no frame is produced, the last one only grows.
LEMMA PacketStep ==
  ASSUME IInv, IInv', NEW c \in Clients, PacketFacts(c),
         Receive(c) \/ ReceiverStep(c) \/ TakePacket(c) \/ FinishPacket(c)
  PROVE  /\ PacketFacts(c)'
         /\ Last(c)' \in Nat /\ Last(c) <= Last(c)'
         /\ Produced(c)' = Produced(c)
<1> DEFINE t == Taken(c)
           E == evicted[c]
           p == decPkt[c]
<1>1. /\ recvQ[c] \in Seq(Nat) /\ Len(recvQ[c]) \in Nat
      /\ pktNum[c] \in Nat /\ t \in Nat /\ p \in Nat
      /\ recvQ[c] # <<>> => Head(recvQ[c]) = t + 1
      /\ Decoded(c) = Done(t, E, p)
      /\ \A n \in E : n \in Nat /\ n > 0 /\ n <= t
      /\ p <= t /\ p \notin E
      /\ pktNum[c] <= PacketsFrom[c]
      /\ recvPc[c] # "recv" => pktNum[c] > 0
      /\ PacketsFrom[c] \in Nat
      /\ decDone[c] \in Nat /\ FramesPerPacket \in Nat \ {0}
  BY PacketTypes, PacketAssumption DEF PacketFacts
<1>0. /\ t + 1 \in Nat \ {0} /\ 0 \in Nat
      /\ FrameNumber(t + 1, 0) \in Nat
      /\ p # 0 => FrameNumber(p, decDone[c]) \in Nat
  <2>1. t + 1 \in Nat \ {0} /\ 0 \in Nat /\ (p # 0 => p \in Nat \ {0})
    BY <1>1
  <2> QED
    BY <1>1, <2>1, FrameNumberType, Zenon
<1>2. /\ Taken(c)' \in Int
      /\ Taken(c)' >= 0 =>
           Decoded(c)' = Done(Taken(c)', evicted'[c], decPkt'[c])
  <2>1. /\ recvQ'[c] \in Seq(Nat) /\ Len(recvQ'[c]) \in Nat
        /\ pktNum'[c] \in Nat
    BY DEF IInv, TypeOK
  <2>2. Queued(c)' \in Int
    BY <2>1 DEF Queued
  <2>3. \A i \in 1..Len(recvQ'[c]) :
           recvQ'[c][i] = Queued(c)' - Len(recvQ'[c]) + i
    BY DEF IInv, NewestKept
  <2>4. Taken(c)' \in Int
    BY <2>1, <2>2 DEF Taken
  <2>5. ASSUME Taken(c)' >= 0
        PROVE  Decoded(c)' = Done(Taken(c)', evicted'[c], decPkt'[c])
    <3>1. DoneOf(Queued(c)', recvQ'[c], evicted'[c], decPkt'[c])
            = Done(Queued(c)' - Len(recvQ'[c]), evicted'[c], decPkt'[c])
      <4>1. Queued(c)' - Len(recvQ'[c]) >= 0
        BY <2>5 DEF Taken
      <4>2. PICK n, q, dropped, last :
              /\ n = Queued(c)' /\ q = recvQ'[c]
              /\ dropped = evicted'[c] /\ last = decPkt'[c]
        OBVIOUS
      <4>3. /\ n \in Int /\ q \in Seq(Nat) /\ n - Len(q) >= 0
            /\ \A i \in 1..Len(q) : q[i] = n - Len(q) + i
        BY <2>1, <2>2, <2>3, <4>1, <4>2
      <4>4. DoneOf(n, q, dropped, last) = Done(n - Len(q), dropped, last)
        BY ONLY <4>3, DecodedOf
      <4> QED
        BY ONLY <4>2, <4>4
    <3> QED
      BY <3>1 DEF Decoded, DoneOf, Taken
  <2> QED
    BY <2>4, <2>5
<1>3. ASSUME Taken(c)' = t, evicted'[c] = E, decPkt'[c] = p,
             decDone'[c] = decDone[c],
             pktNum'[c] <= PacketsFrom[c], recvPc'[c] # "recv" => pktNum'[c] > 0
      PROVE  /\ PacketFacts(c)'
             /\ Last(c)' \in Nat /\ Last(c) <= Last(c)'
             /\ Produced(c)' = Produced(c)
  <2>1. PacketFacts(c)'
    BY <1>1, <1>3 DEF PacketFacts
  <2>2. Decoded(c)' = Decoded(c)
    BY <1>1, <1>2, <1>3
  <2>3. Produced(c)' = Produced(c)
    BY <1>3, <2>2 DEF Produced, FramesOf
  <2>4. Last(c)' = Last(c)
    BY <1>3 DEF Last
  <2>5. Last(c) \in Nat
    BY <1>0 DEF Last, NoPacket
  <2> QED
    BY <2>1, <2>3, <2>4, <2>5
<1> USE DEF TypeOK, queues, receivers, decoders
<1>4. CASE Receive(c)
  <2>1. /\ recvQ' = recvQ /\ evicted' = evicted /\ decPkt' = decPkt
        /\ decDone' = decDone
        /\ recvPc[c] = "recv" /\ recvPc'[c] = "check"
        /\ pktNum'[c] = pktNum[c] + 1 /\ pktNum[c] < PacketsFrom[c]
    BY <1>4 DEF Receive, IInv
  <2>2. Taken(c)' = t
    BY <1>1, <2>1 DEF Taken, Queued
  <2> QED
    BY <1>1, <1>3, <2>1, <2>2
<1>5. CASE CheckLimit(c)
  <2>1. /\ recvQ' = recvQ /\ evicted' = evicted /\ decPkt' = decPkt
        /\ decDone' = decDone /\ pktNum' = pktNum
        /\ recvPc[c] = "check" /\ recvPc'[c] \in {"evict", "insert"}
    BY <1>5 DEF CheckLimit, IInv
  <2>2. Taken(c)' = t
    BY <1>1, <2>1 DEF Taken, Queued
  <2> QED
    BY <1>1, <1>3, <2>1, <2>2
<1>6. CASE InsertPacket(c)
  <2>1. /\ recvQ'[c] = Append(recvQ[c], pktNum[c])
        /\ evicted' = evicted /\ decPkt' = decPkt
        /\ decDone' = decDone /\ pktNum' = pktNum
        /\ recvPc[c] = "insert" /\ recvPc'[c] = "recv"
    BY <1>6 DEF InsertPacket, InsertRecv, IInv
  <2>2. Len(recvQ'[c]) = Len(recvQ[c]) + 1
    BY <1>1, <2>1, AppendProperties
  <2>3. Taken(c)' = t
    BY <1>1, <2>1, <2>2 DEF Taken, Queued
  <2> QED
    BY <1>1, <1>3, <2>1, <2>3
<1>7. CASE Evict(c)
  <2>1. CASE recvQ[c] = <<>>
    <3>1. UNCHANGED <<recvQ, evicted, decPkt, decDone, pktNum, recvPc>>
      BY <1>7, <2>1 DEF Evict, RemoveRecv
    <3>2. Taken(c)' = t
      BY <3>1 DEF Taken, Queued
    <3> QED
      BY <1>1, <1>3, <3>1, <3>2
  <2>2. CASE recvQ[c] # <<>>
    <3>1. /\ recvQ'[c] = Tail(recvQ[c]) /\ decPkt' = decPkt
          /\ decDone' = decDone /\ pktNum' = pktNum
          /\ evicted' = [evicted EXCEPT ![c] = @ \cup {Head(recvQ[c])}]
          /\ recvPc[c] = "evict" /\ recvPc'[c] = "insert"
      BY <1>7, <2>2 DEF Evict, RemoveRecv, IInv
    <3>2. /\ evicted'[c] = E \cup {t + 1}
          /\ decPkt'[c] = p /\ decDone'[c] = decDone[c]
      BY <1>1, <2>2, <3>1 DEF IInv
    <3>3. Len(recvQ'[c]) = Len(recvQ[c]) - 1
      BY <1>1, <2>2, <3>1, RemoveHead
    <3>4. Taken(c)' = t + 1
      BY <1>1, <3>1, <3>3 DEF Taken, Queued
    <3>5. PacketFacts(c)'
      BY <1>1, <3>1, <3>2, <3>4 DEF PacketFacts
    <3>6. Decoded(c)' = Decoded(c)
      <4>1. Done(t + 1, E \cup {t + 1}, p) = Done(t, E, p)
        BY <1>1 DEF Done
      <4> QED
        BY <1>0, <1>1, <1>2, <3>2, <3>4, <4>1
    <3>7. Produced(c)' = Produced(c)
      BY <3>2, <3>6 DEF Produced, FramesOf
    <3>8. Last(c)' \in Nat /\ Last(c) <= Last(c)'
      <4>1. CASE p = 0
        <5>1. t + 2 \in Nat \ {0} /\ t + 1 <= t + 2 /\ (t + 1) + 1 = t + 2
          BY <1>1
        <5>2. /\ FrameNumber(t + 2, 0) \in Nat
              /\ FrameNumber(t + 1, 0) <= FrameNumber(t + 2, 0)
          BY <1>0, <5>1, FrameNumberGrows
        <5> QED
          BY <3>2, <3>4, <4>1, <5>1, <5>2 DEF Last, NoPacket
      <4>2. CASE p # 0
        BY <1>0, <3>2, <4>2 DEF Last, NoPacket
      <4> QED
        BY <4>1, <4>2
    <3> QED
      BY <3>5, <3>7, <3>8
  <2> QED
    BY <2>1, <2>2
<1>8. CASE TakePacket(c)
  <2>1. /\ recvQ[c] # <<>> /\ recvQ'[c] = Tail(recvQ[c])
        /\ p = 0 /\ decPkt'[c] = t + 1 /\ decDone'[c] = 0
        /\ UNCHANGED <<recvPc, pktNum, evicted>>
    BY <1>1, <1>8 DEF TakePacket, RemoveRecv, IInv, NoPacket
  <2>2. Len(recvQ'[c]) = Len(recvQ[c]) - 1
    BY <1>1, <2>1, RemoveHead
  <2>3. Taken(c)' = t + 1
    <3>1. Queued(c)' = Queued(c)
      BY ONLY <2>1 DEF Queued
    <3>2. Len(recvQ[c]) \in Nat /\ Queued(c) \in Int
      BY PacketTypes
    <3> QED
      BY ONLY <2>2, <3>1, <3>2 DEF Taken
  <2>4. PacketFacts(c)'
    BY <1>1, <2>1, <2>3 DEF PacketFacts
  <2>5. Decoded(c)' = Decoded(c)
    <3>1. Done(t + 1, E, t + 1) = Done(t, E, 0)
      BY <1>1 DEF Done
    <3> QED
      BY <1>1, <1>2, <2>1, <2>3, <3>1
  <2>6. Produced(c)' = Produced(c)
    <3>1. FramesOf(t + 1, 0) = {}
      BY DEF FramesOf
    <3> QED
      BY <1>1, <2>1, <2>5, <3>1 DEF Produced, FramesOf, NoPacket
  <2>7. Last(c)' = Last(c) /\ Last(c) \in Nat
    BY <1>0, <2>1 DEF Last, NoPacket
  <2> QED
    BY <2>4, <2>6, <2>7
<1>9. CASE FinishPacket(c)
  <2>1. /\ p # 0 /\ decDone[c] = FramesPerPacket /\ decPkt'[c] = 0
        /\ UNCHANGED <<recvQ, recvPc, pktNum, evicted, decDone>>
    BY <1>9 DEF FinishPacket, IInv, NoPacket
  <2>2. Taken(c)' = t
    BY <2>1 DEF Taken, Queued
  <2>3. PacketFacts(c)'
    BY <1>1, <2>1, <2>2 DEF PacketFacts
  <2>4. Decoded(c)' = Decoded(c) \cup {p}
    <3>1. Done(t, E, 0) = Done(t, E, p) \cup {p}
      BY <1>1, <2>1 DEF Done
    <3> QED
      BY <1>1, <1>2, <2>1, <2>2, <3>1
  <2>5. Produced(c)' = Produced(c)
    <3>1. Produced(c) = (UNION {FramesOf(n, FramesPerPacket) : n \in Decoded(c)})
                          \cup FramesOf(p, FramesPerPacket)
      BY <2>1 DEF Produced, NoPacket
    <3>2. Produced(c)' = UNION {FramesOf(n, FramesPerPacket) : n \in Decoded(c)'}
      BY <2>1 DEF Produced, NoPacket, FramesOf
    <3>3. PICK D : D = Decoded(c)
      OBVIOUS
    <3>4. Produced(c)' = UNION {FramesOf(n, FramesPerPacket) : n \in D \cup {p}}
      BY <2>4, <3>2, <3>3
    <3>5. Produced(c) = (UNION {FramesOf(n, FramesPerPacket) : n \in D})
                          \cup FramesOf(p, FramesPerPacket)
      BY <3>1, <3>3
    <3> QED
      BY ONLY <3>4, <3>5, OnePacketMore
  <2>6. Last(c)' \in Nat /\ Last(c) <= Last(c)'
    <3>1. p \in Nat \ {0} /\ p + 1 \in Nat \ {0} /\ p + 1 <= t + 1
      BY <1>1, <2>1
    <3>2. /\ FrameNumber(p, FramesPerPacket) = FrameNumber(p + 1, 0)
          /\ FrameNumber(p + 1, 0) <= FrameNumber(t + 1, 0)
      BY <1>0, <3>1, FrameNumberGrows
    <3> QED
      BY <1>0, <2>1, <2>2, <3>2 DEF Last, NoPacket
  <2> QED
    BY <2>3, <2>5, <2>6
<1> QED
  BY <1>4, <1>5, <1>6, <1>7, <1>8, <1>9 DEF ReceiverStep

\* The decoder queues a frame: the last one, and the one more produced.
LEMMA DecodeStep ==
  ASSUME IInv, IInv', NEW c \in Clients, PacketFacts(c), DecodeFrame(c)
  PROVE  \E k \in Nat \ {0} :
           /\ decQ' = [decQ EXCEPT ![c] = Append(@, k)]
           /\ PacketFacts(c)'
           /\ Last(c) < k /\ Last(c)' = k
           /\ Produced(c)' = Produced(c) \cup {k}
           /\ k <= PacketsFrom[c] * FramesPerPacket
<1> DEFINE p == decPkt[c]
           j == decDone[c]
           k == FrameNumber(p, j + 1)
<1>1. /\ p \in Nat \ {0} /\ j \in Nat /\ j < FramesPerPacket
      /\ decQ' = [decQ EXCEPT ![c] = Append(@, k)]
      /\ decPkt'[c] = p /\ decDone'[c] = j + 1
      /\ UNCHANGED <<recvQ, recvPc, pktNum, evicted, decPkt>>
      /\ FramesPerPacket \in Nat \ {0}
  BY PacketTypes
  DEF DecodeFrame, InsertDecoded, NoPacket, receivers, IInv, TypeOK
<1>2. PacketFacts(c)' /\ Decoded(c)' = Decoded(c)
  <2>1. /\ recvQ'[c] = recvQ[c] /\ recvPc'[c] = recvPc[c]
        /\ pktNum'[c] = pktNum[c] /\ decPkt'[c] = decPkt[c]
        /\ evicted'[c] = evicted[c]
    BY ONLY <1>1
  <2> QED
    BY ONLY <2>1, PacketFacts(c), PacketFrame, c \in Clients
<1>3. /\ FrameNumber(p, 0) \in Nat
      /\ FrameNumber(p, j) = FrameNumber(p, 0) + j
      /\ k = FrameNumber(p, 0) + (j + 1)
  <2>1. \A x \in Nat \ {0} : \A y \in Nat :
          FrameNumber(x, 0) \in Nat /\ FrameNumber(x, y) = FrameNumber(x, 0) + y
    BY FrameNumberGrows
  <2>2. p \in Nat \ {0} /\ j \in Nat /\ j + 1 \in Nat
    BY <1>1
  <2> QED
    BY ONLY <2>1, <2>2
<1>4. Last(c) < k /\ Last(c)' = k /\ k \in Nat \ {0}
  BY <1>1, <1>3 DEF Last, NoPacket
<1>5. Produced(c)' = Produced(c) \cup {k}
  <2>1. FramesOf(p, j + 1) = FramesOf(p, j) \cup {k}
    <3>1. 1..(j + 1) = 1..j \cup {j + 1}
      BY <1>1
    <3> QED
      BY <3>1 DEF FramesOf
  <2> QED
    BY <1>1, <1>2, <2>1 DEF Produced, FramesOf, NoPacket
<1>6. k <= PacketsFrom[c] * FramesPerPacket
  <2>1. /\ p <= Taken(c) /\ Taken(c) <= pktNum[c]
        /\ pktNum[c] <= PacketsFrom[c] /\ PacketsFrom[c] \in Nat
        /\ Taken(c) \in Int /\ pktNum[c] \in Nat
    BY PacketTypes, PacketAssumption DEF PacketFacts, Taken, Queued
  <2>2. /\ p + 1 \in Nat \ {0} /\ PacketsFrom[c] + 1 \in Nat \ {0}
        /\ p + 1 <= PacketsFrom[c] + 1
        /\ (PacketsFrom[c] + 1) - 1 = PacketsFrom[c]
    BY <1>1, <2>1
  <2>3. /\ FrameNumber(p, FramesPerPacket) = FrameNumber(p + 1, 0)
        /\ FrameNumber(p, FramesPerPacket) = FrameNumber(p, 0) + FramesPerPacket
        /\ FrameNumber(p + 1, 0) <= FrameNumber(PacketsFrom[c] + 1, 0)
        /\ FrameNumber(PacketsFrom[c] + 1, 0) =
             PacketsFrom[c] * FramesPerPacket
        /\ FrameNumber(PacketsFrom[c] + 1, 0) \in Nat
    <3>1. FrameNumber(PacketsFrom[c] + 1, 0)
            = ((PacketsFrom[c] + 1) - 1) * FramesPerPacket
      BY <2>2, FrameNumberGrows
    <3> QED
      BY <1>1, <2>2, <3>1, FrameNumberGrows
  <2> QED
    BY <1>1, <1>3, <2>3
<1> QED
  BY <1>1, <1>2, <1>4, <1>5, <1>6

-----------------------------------------------------------------------------
(* Frames.                                                                 *)

\* The four columns of a client have their types.
LEMMA ColumnTypes ==
  ASSUME IInv, NEW c \in Clients, PacketFacts(c)
  PROVE  /\ Columns(decQ[c], Hands(c), Line(c), Last(c))
         /\ QueueTypes
         /\ \A m \in Mixers : frms[m] \in MixedFrames
<1>1. QueueTypes
  BY DEF IInv, TypeOK, QueueTypes
<1>2. Line(c) \in Seq(Nat)
  BY <1>1, LineType
<1>3. decQ[c] \in Seq(Nat) /\ \A m \in Mixers : frms[m] \in MixedFrames
  BY DEF IInv, TypeOK
<1>4. Hands(c) \in [Mixers -> Nat]
  BY <1>3 DEF Hands, MixedFrames
<1>5. Last(c) \in Nat
  <2>1. /\ Taken(c) + 1 \in Nat \ {0} /\ 0 \in Nat
        /\ decPkt[c] # 0 => decPkt[c] \in Nat \ {0}
        /\ decDone[c] \in Nat
    BY PacketTypes DEF PacketFacts
  <2> QED
    BY <2>1, FrameNumberType DEF Last, NoPacket
<1> QED
  BY <1>1, <1>2, <1>3, <1>4, <1>5 DEF Columns

\* Four ways in which a step changes the columns of a client keep its facts.
\* Nothing moves; at most the last number grows.
LEMMA FramesStay ==
  ASSUME NEW c \in Clients,
         Columns(decQ[c], Hands(c), Line(c), Last(c)), FrameFacts(c),
         decQ'[c] = decQ[c], Hands(c)' = Hands(c), Line(c)' = Line(c),
         Last(c)' \in Nat, Last(c) <= Last(c)', Produced(c)' = Produced(c)
  PROVE  FrameFacts(c)'
<1>1. PICK q, h, l, last, later :
        q = decQ[c] /\ h = Hands(c) /\ l = Line(c) /\ last = Last(c)
        /\ later = Last(c)'
  OBVIOUS
<1>2. /\ Columns(q, h, l, last) /\ Once(q, h, l, last)
      /\ later \in Nat /\ last <= later
  BY <1>1 DEF FrameFacts
<1>3. Once(q, h, l, later)
  BY ONLY <1>2, OnceLater
<1>4. Once(decQ'[c], Hands(c)', Line(c)', Last(c)')
  BY <1>1, <1>3
<1>5. ClientNum <= 2 => Ordered(Hands(c)', Line(c)')
  BY DEF FrameFacts
<1> QED
  BY <1>4, <1>5 DEF FrameFacts

\* A frame is put at the end of the decoded queue.
LEMMA FramesDecode ==
  ASSUME NEW c \in Clients,
         Columns(decQ[c], Hands(c), Line(c), Last(c)), FrameFacts(c),
         NEW k \in Nat \ {0}, decQ'[c] = Append(decQ[c], k),
         Hands(c)' = Hands(c), Line(c)' = Line(c),
         Last(c) < k, Last(c)' = k, Produced(c)' = Produced(c) \cup {k}
  PROVE  FrameFacts(c)'
<1>1. PICK q, h, l, last :
        q = decQ[c] /\ h = Hands(c) /\ l = Line(c) /\ last = Last(c)
  OBVIOUS
<1>2. /\ Columns(q, h, l, last) /\ Once(q, h, l, last) /\ last < k
  BY <1>1 DEF FrameFacts
<1>3. /\ Once(Append(q, k), h, l, k)
      /\ \A i : Shows(Append(q, k), h, l, i) <=> Shows(q, h, l, i) \/ i = k
  BY ONLY <1>2, k \in Nat, OnceDecode
<1>4. Once(decQ'[c], Hands(c)', Line(c)', Last(c)')
  BY <1>1, <1>3
<1>5. \A i : Shows(decQ'[c], Hands(c)', Line(c)', i)
               <=> Shows(decQ[c], Hands(c), Line(c), i) \/ i = k
  BY <1>1, <1>3
<1>6. ClientNum <= 2 => Ordered(Hands(c)', Line(c)')
  BY DEF FrameFacts
<1> QED
  BY <1>4, <1>5, <1>6 DEF FrameFacts

\* A frame goes from the decoded queue into an empty hand.
LEMMA FramesFetch ==
  ASSUME NEW c \in Clients,
         Columns(decQ[c], Hands(c), Line(c), Last(c)), FrameFacts(c),
         NEW m \in Mixers, decQ[c] # <<>>, Hands(c)[m] = 0,
         decQ'[c] = Tail(decQ[c]),
         Hands(c)' = [Hands(c) EXCEPT ![m] = Head(decQ[c])],
         Line(c)' = Line(c), Last(c)' = Last(c), Produced(c)' = Produced(c)
  PROVE  FrameFacts(c)'
<1>1. PICK q, h, l, last, g :
        q = decQ[c] /\ h = Hands(c) /\ l = Line(c) /\ last = Last(c)
        /\ g = Hands(c)'
  OBVIOUS
<1>2. /\ Columns(q, h, l, last) /\ Once(q, h, l, last)
      /\ q # <<>> /\ h[m] = 0 /\ g = [h EXCEPT ![m] = Head(q)]
  BY <1>1 DEF FrameFacts
<1>3. /\ Once(Tail(q), g, l, last)
      /\ \A k \in Nat \ {0} : Shows(Tail(q), g, l, k) <=> Shows(q, h, l, k)
  BY ONLY <1>2, m \in Mixers, OnceFetch
<1>4. Once(decQ'[c], Hands(c)', Line(c)', Last(c)')
  BY <1>1, <1>3
<1>5. \A k \in Nat \ {0} : Shows(decQ'[c], Hands(c)', Line(c)', k)
                             <=> Shows(decQ[c], Hands(c), Line(c), k)
  BY <1>1, <1>3
<1>6. ASSUME ClientNum <= 2 PROVE Ordered(Hands(c)', Line(c)')
  <2>1. Ordered(h, l)
    BY <1>1, <1>6 DEF FrameFacts
  <2>2. Ordered(g, l)
    BY ONLY <1>2, <2>1, m \in Mixers, OrderedFetch
  <2> QED
    BY <1>1, <2>2
<1> QED
  BY <1>4, <1>5, <1>6 DEF FrameFacts

\* What a hand holds, a frame or nothing, goes to the end of the line.
LEMMA FramesMix ==
  ASSUME NEW c \in Clients,
         Columns(decQ[c], Hands(c), Line(c), Last(c)), FrameFacts(c),
         NEW m \in Mixers, decQ'[c] = decQ[c],
         Hands(c)' = [Hands(c) EXCEPT ![m] = 0],
         Line(c)' = Append(Line(c), Hands(c)[m]),
         Last(c)' = Last(c), Produced(c)' = Produced(c)
  PROVE  FrameFacts(c)'
<1>1. PICK q, h, l, last, g :
        q = decQ[c] /\ h = Hands(c) /\ l = Line(c) /\ last = Last(c)
        /\ g = Hands(c)'
  OBVIOUS
<1>2. /\ Columns(q, h, l, last) /\ Once(q, h, l, last)
      /\ g = [h EXCEPT ![m] = 0]
  BY <1>1 DEF FrameFacts
<1>3. /\ Once(q, g, Append(l, h[m]), last)
      /\ \A k \in Nat \ {0} :
           Shows(q, g, Append(l, h[m]), k) <=> Shows(q, h, l, k)
  BY ONLY <1>2, m \in Mixers, OnceMix
<1>4. Once(decQ'[c], Hands(c)', Line(c)', Last(c)')
  BY <1>1, <1>3
<1>5. \A k \in Nat \ {0} : Shows(decQ'[c], Hands(c)', Line(c)', k)
                             <=> Shows(decQ[c], Hands(c), Line(c), k)
  BY <1>1, <1>3
<1>6. ASSUME ClientNum <= 2 PROVE Ordered(Hands(c)', Line(c)')
  <2>1. Ordered(h, l)
    BY <1>1, <1>6 DEF FrameFacts
  <2>2. Mixers = {m}
    <3>1. \A n \in Mixers : n = 1
      BY <1>6, ClientAssumption DEF Mixers
    <3> QED
      BY <3>1
  <2>3. Ordered(g, Append(l, h[m]))
    BY ONLY <1>2, <2>1, <2>2, m \in Mixers, OrderedMix
  <2> QED
    BY <1>1, <2>3
<1> QED
  BY <1>4, <1>5, <1>6 DEF FrameFacts

\* Steps of receivers and decoders that decode nothing.
LEMMA QuietSteps ==
  ASSUME NEW c \in Clients,
         Receive(c) \/ ReceiverStep(c) \/ TakePacket(c) \/ FinishPacket(c)
  PROVE  UNCHANGED <<decQ, mixQ, encQ, sent, encFrm, mixers>>
  BY DEF Receive, ReceiverStep, CheckLimit, Evict, InsertPacket, TakePacket,
     FinishPacket, queues, mixers

\* The packets of all clients, in any step.
LEMMA StepPackets ==
  ASSUME IInv, IInv', \A c \in Clients : PacketFacts(c), Next,
         NEW d \in Clients
  PROVE  PacketFacts(d)'
<1>1. ASSUME NEW c \in Clients,
             Receive(c) \/ ReceiverStep(c) \/ TakePacket(c) \/ FinishPacket(c)
      PROVE  PacketFacts(d)'
  <2>1. CASE c = d
    BY <1>1, <2>1, PacketStep
  <2>2. CASE c # d
    BY <1>1, <2>2, OthersPackets, PacketFrame DEF IInv, DecoderStep
  <2> QED
    BY <2>1, <2>2
<1>2. ASSUME NEW c \in Clients, DecodeFrame(c) PROVE PacketFacts(d)'
  <2>1. CASE c = d
    BY <1>2, <2>1, DecodeStep
  <2>2. CASE c # d
    BY <1>2, <2>2, OthersPackets, PacketFrame DEF IInv, DecoderStep
  <2> QED
    BY <2>1, <2>2
<1>3. ASSUME Downstream PROVE PacketFacts(d)'
  BY <1>3, DownstreamPackets, PacketFrame
<1> QED
  BY <1>1, <1>2, <1>3 DEF Next, DecoderStep, Downstream

\* What a client has produced, and its last frame, in a step that is not its
\* receiver's nor its decoder's.
LEMMA OthersFrames ==
  ASSUME NEW c \in Clients,
         recvQ'[c] = recvQ[c], recvPc'[c] = recvPc[c],
         pktNum'[c] = pktNum[c], decPkt'[c] = decPkt[c],
         decDone'[c] = decDone[c], evicted'[c] = evicted[c]
  PROVE  Last(c)' = Last(c) /\ Produced(c)' = Produced(c)
<1>1. Decoded(c)' = Decoded(c) /\ Taken(c)' = Taken(c)
  BY PacketFrame
<1> QED
  BY <1>1 DEF Last, Produced, FramesOf

\* What the mixers' steps do to hands and queues.
LEMMA FetchStep ==
  ASSUME IInv, NEW m \in Mixers, FetchFrame(m)
  PROVE  \E c \in Clients :
         /\ c \in Nat /\ c = mixSlot[m]
         /\ mixSlot' = [mixSlot EXCEPT ![m] = c + 1]
         /\ UNCHANGED <<mixQ, encQ, sent, encFrm>>
         /\ \A d \in Clients : d # c =>
              decQ'[d] = decQ[d] /\ Hands(d)' = Hands(d)
         /\ \/ /\ decQ[c] # <<>>
               /\ decQ'[c] = Tail(decQ[c])
               /\ frms' = [frms EXCEPT ![m][c] = Head(decQ[c])]
               /\ Hands(c)' = [Hands(c) EXCEPT ![m] = Head(decQ[c])]
               /\ UNCHANGED emptyFlag
            \/ /\ decQ[c] = <<>> /\ decQ' = decQ
               /\ frms' = [frms EXCEPT ![m][c] = NoFrame]
               /\ Hands(c)' = [Hands(c) EXCEPT ![m] = NoFrame]
               /\ emptyFlag' = [emptyFlag EXCEPT ![m] = @ + 1]
<1>0. PICK c : c = mixSlot[m]
  OBVIOUS
<1>1. /\ c \in Clients /\ c \in Nat
      /\ mixSlot' = [mixSlot EXCEPT ![m] = c + 1]
      /\ UNCHANGED <<mixQ, encQ, sent, encFrm>>
  BY <1>0, ClientAssumption DEF FetchFrame, Clients
<1>2. /\ decQ \in [Clients -> Seq(Nat)] /\ frms \in [Mixers -> [Clients -> Nat]]
  BY DEF IInv, TypeOK, MixedFrames
<1>3. ASSUME NEW x, frms' = [frms EXCEPT ![m][c] = x]
      PROVE  /\ \A d \in Clients : d # c => Hands(d)' = Hands(d)
             /\ Hands(c)' = [Hands(c) EXCEPT ![m] = x]
  <2>1. ASSUME NEW d \in Clients, d # c PROVE Hands(d)' = Hands(d)
    <3>1. \A n \in Mixers : frms'[n][d] = frms[n][d]
      BY <1>1, <1>2, <1>3, <2>1
    <3> QED
      BY <3>1 DEF Hands
  <2>2. \A n \in Mixers : frms'[n][c] = IF n = m THEN x ELSE frms[n][c]
    BY <1>1, <1>2, <1>3
  <2>3. Hands(c)' = [Hands(c) EXCEPT ![m] = x]
    BY <2>2 DEF Hands
  <2> QED
    BY <2>1, <2>3
<1>4. \/ /\ decQ[c] # <<>>
         /\ decQ' = [decQ EXCEPT ![c] = Tail(@)]
         /\ frms' = [frms EXCEPT ![m][c] = Head(decQ[c])]
         /\ UNCHANGED emptyFlag
      \/ /\ decQ[c] = <<>> /\ decQ' = decQ
         /\ frms' = [frms EXCEPT ![m][c] = NoFrame]
         /\ emptyFlag' = [emptyFlag EXCEPT ![m] = @ + 1]
  BY <1>0 DEF FetchFrame, RemoveDecoded
<1> QED
  BY <1>0, <1>1, <1>2, <1>3, <1>4

\* A mixer that clears its frms empties its hand of every client.
LEMMA ClearStep ==
  ASSUME IInv, NEW m \in Mixers,
         frms' = [frms EXCEPT ![m] = [c \in Clients |-> NoFrame]],
         NEW d \in Clients
  PROVE  Hands(d)' = [Hands(d) EXCEPT ![m] = 0]
<1>1. frms \in [Mixers -> [Clients -> Nat]]
  BY DEF IInv, TypeOK, MixedFrames
<1>2. \A n \in Mixers : frms'[n][d] = IF n = m THEN 0 ELSE frms[n][d]
  BY <1>1 DEF NoFrame
<1> QED
  BY <1>2 DEF Hands

\* The mixers' own facts, in any step.
LEMMA StepMixers ==
  ASSUME IInv, IInv', \A m \in Mixers : MixerFacts(m),
         \A c \in Clients : FrameFacts(c), Next, NEW n \in Mixers
  PROVE  MixerFacts(n)'
<1>0. /\ mixSlot[n] \in 0..(ClientNum + 1) /\ emptyFlag[n] \in 0..ClientNum
      /\ emptyFlag[n] <= mixSlot[n]
      /\ frms \in [Mixers -> [Clients -> Nat]]
      /\ mixSlot \in [Mixers -> 0..(ClientNum + 1)]
      /\ emptyFlag \in [Mixers -> 0..ClientNum]
      /\ ClientNum \in Nat \ {0}
      /\ \A c \in Clients : c \in Int /\ 0 <= c /\ c < ClientNum
  <2>1. /\ frms \in [Mixers -> [Clients -> Nat]]
        /\ mixSlot \in [Mixers -> 0..(ClientNum + 1)]
        /\ emptyFlag \in [Mixers -> 0..ClientNum]
        /\ emptyFlag[n] <= mixSlot[n]
    BY DEF IInv, TypeOK, MixedFrames, FlagWithinSlot
  <2>2. mixSlot[n] \in 0..(ClientNum + 1) /\ emptyFlag[n] \in 0..ClientNum
    BY ONLY <2>1, n \in Mixers
  <2>3. \A c \in Clients : c \in Int /\ 0 <= c /\ c < ClientNum
    BY ClientAssumption DEF Clients
  <2> QED
    BY <2>1, <2>2, <2>3, ClientAssumption
<1>1. ASSUME frms'[n] = frms[n], mixSlot'[n] = mixSlot[n],
             emptyFlag'[n] = emptyFlag[n]
      PROVE  MixerFacts(n)'
  <2>1. MixerFacts(n)
    OBVIOUS
  <2> QED
    BY ONLY <1>1, <2>1 DEF MixerFacts
<1>2. ASSUME NEW m \in Mixers, FetchFrame(m) PROVE MixerFacts(n)'
  <2>1. PICK c \in Clients :
        /\ c = mixSlot[m]
        /\ mixSlot' = [mixSlot EXCEPT ![m] = c + 1]
        /\ \/ /\ decQ[c] # <<>>
              /\ frms' = [frms EXCEPT ![m][c] = Head(decQ[c])]
              /\ UNCHANGED emptyFlag
           \/ /\ frms' = [frms EXCEPT ![m][c] = NoFrame]
              /\ emptyFlag' = [emptyFlag EXCEPT ![m] = @ + 1]
    BY <1>2, FetchStep
  <2>2. CASE m # n
    BY <1>0, <1>1, <2>1, <2>2
  <2>3. CASE m = n
    <3>1. ASSUME decQ[c] # <<>> PROVE Head(decQ[c]) > 0
      <4>1. decQ[c] \in Seq(Nat)
        BY <2>1 DEF IInv, TypeOK
      <4>2. Head(decQ[c]) = decQ[c][1] /\ 1 \in 1..Len(decQ[c])
        BY <3>1, <4>1, RemoveHead
      <4> QED
        BY <2>1, <4>2 DEF FrameFacts, Once, Ascending
    <3>2. CASE decQ[c] # <<>> /\ frms' = [frms EXCEPT ![m][c] = Head(decQ[c])]
               /\ UNCHANGED emptyFlag
      BY <1>0, <2>1, <2>3, <3>1, <3>2 DEF MixerFacts, NoFrame
    <3>3. CASE /\ frms' = [frms EXCEPT ![m][c] = NoFrame]
               /\ emptyFlag' = [emptyFlag EXCEPT ![m] = @ + 1]
      <4>1. /\ mixSlot'[n] = c + 1 /\ emptyFlag'[n] = emptyFlag[n] + 1
            /\ \A d \in Clients :
                 frms'[n][d] = IF d = c THEN NoFrame ELSE frms[n][d]
        BY <1>0, <2>1, <2>3, <3>3
      <4>2. frms[n][c] = NoFrame
        BY <1>0, <2>1, <2>3 DEF MixerFacts
      <4>3. \A d \in Clients : frms'[n][d] = frms[n][d]
        BY <4>1, <4>2
      <4>4. MixerFacts(n) /\ mixSlot[n] = c
        BY <2>1, <2>3
      <4> QED
        BY ONLY <1>0, <2>1, <4>1, <4>3, <4>4 DEF MixerFacts
    <3> QED
      BY <2>1, <3>2, <3>3
  <2> QED
    BY <2>2, <2>3
<1>3. ASSUME NEW m \in Mixers, SkipRound(m) PROVE MixerFacts(n)'
  <2>1. /\ mixSlot[m] = ClientNum /\ emptyFlag[m] = ClientNum
        /\ mixSlot' = [mixSlot EXCEPT ![m] = 0]
        /\ emptyFlag' = [emptyFlag EXCEPT ![m] = 0] /\ frms' = frms
    BY <1>3 DEF SkipRound, BeginRound
  <2>2. CASE m # n
    BY <1>0, <1>1, <2>1, <2>2
  <2>3. CASE m = n
    <3>1. /\ mixSlot'[n] = 0 /\ emptyFlag'[n] = 0
          /\ \A c \in Clients : frms'[n][c] = NoFrame
      BY <1>0, <2>1, <2>3 DEF MixerFacts
    <3> QED
      BY <1>0, <3>1 DEF MixerFacts
  <2> QED
    BY <2>2, <2>3
<1>4. ASSUME NEW m \in Mixers, MixFrames(m) \/ ReleaseFrames(m)
      PROVE  MixerFacts(n)'
  <2>1. /\ frms' = [frms EXCEPT ![m] = [c \in Clients |-> NoFrame]]
        /\ \/ /\ mixSlot' = [mixSlot EXCEPT ![m] = ClientNum + 1]
              /\ emptyFlag' = emptyFlag
           \/ /\ mixSlot' = [mixSlot EXCEPT ![m] = 0]
              /\ emptyFlag' = [emptyFlag EXCEPT ![m] = 0]
    BY <1>4 DEF MixFrames, ReleaseFrames, BeginRound
  <2>2. CASE m # n
    BY <1>0, <1>1, <2>1, <2>2
  <2>3. CASE m = n
    <3>1. /\ \A c \in Clients : frms'[n][c] = NoFrame
          /\ \/ mixSlot'[n] = ClientNum + 1
             \/ mixSlot'[n] = 0 /\ emptyFlag'[n] = 0
      BY <1>0, <2>1, <2>3
    <3> QED
      BY <1>0, <3>1 DEF MixerFacts
  <2> QED
    BY <2>2, <2>3
<1>5. ASSUME \/ \E c \in Clients : Receive(c) \/ ReceiverStep(c) \/ DecoderStep(c)
             \/ EncoderStep \/ SendPacket
      PROVE  MixerFacts(n)'
  <2>1. UNCHANGED mixers
    BY <1>5 DEF Receive, ReceiverStep, CheckLimit, Evict, InsertPacket,
       DecoderStep, TakePacket, DecodeFrame, FinishPacket, EncoderStep,
       TakeMixed, EncodeFrame, SendPacket
  <2> QED
    BY <1>1, <2>1 DEF mixers
<1> QED
  BY <1>2, <1>3, <1>4, <1>5 DEF Next, MixerStep

\* The invariant, as the lemmas on one client want it.
LEMMA UnpackFInv ==
  ASSUME FInv, NEW d \in Clients
  PROVE  /\ IInv /\ PacketFacts(d) /\ FrameFacts(d) /\ TypeOK
         /\ Columns(decQ[d], Hands(d), Line(d), Last(d))
         /\ QueueTypes /\ \A m \in Mixers : frms[m] \in MixedFrames
         /\ Last(d) \in Nat
<1>1. IInv /\ PacketFacts(d) /\ FrameFacts(d) /\ TypeOK
  BY DEF FInv, IInv
<1>2. /\ Columns(decQ[d], Hands(d), Line(d), Last(d))
      /\ QueueTypes /\ \A m \in Mixers : frms[m] \in MixedFrames
  BY <1>1, ColumnTypes
<1> QED
  BY <1>1, <1>2 DEF Columns

\* The frames of all clients, in any step.
LEMMA StepFrames ==
  ASSUME FInv, IInv', Next, NEW d \in Clients
  PROVE  FrameFacts(d)'
<1>0. /\ IInv /\ PacketFacts(d) /\ FrameFacts(d) /\ TypeOK
      /\ Columns(decQ[d], Hands(d), Line(d), Last(d))
      /\ QueueTypes /\ \A m \in Mixers : frms[m] \in MixedFrames
      /\ Last(d) \in Nat
  BY UnpackFInv
<1>1. ASSUME decQ'[d] = decQ[d], Hands(d)' = Hands(d), Line(d)' = Line(d),
             recvQ'[d] = recvQ[d], recvPc'[d] = recvPc[d],
             pktNum'[d] = pktNum[d], decPkt'[d] = decPkt[d],
             decDone'[d] = decDone[d], evicted'[d] = evicted[d]
      PROVE  FrameFacts(d)'
  <2>1. Last(d)' = Last(d) /\ Produced(d)' = Produced(d)
    BY ONLY <1>1, d \in Clients, OthersFrames
  <2>2. Last(d)' \in Nat /\ Last(d) <= Last(d)'
    BY <1>0, <2>1
  <2> QED
    BY ONLY <1>0, <1>1, <2>1, <2>2, d \in Clients, FramesStay
<1>2. ASSUME NEW c \in Clients,
             Receive(c) \/ ReceiverStep(c) \/ TakePacket(c) \/ FinishPacket(c)
      PROVE  FrameFacts(d)'
  <2>1. /\ UNCHANGED <<sent, encQ, encFrm, mixQ>>
        /\ decQ' = decQ /\ frms' = frms
    BY <1>2, QuietSteps DEF mixers
  <2>2. decQ'[d] = decQ[d] /\ Hands(d)' = Hands(d) /\ Line(d)' = Line(d)
    BY <2>1, LineStays DEF Hands
  <2>3. CASE c = d
    <3>1. /\ Last(d)' \in Nat /\ Last(d) <= Last(d)'
          /\ Produced(d)' = Produced(d)
      BY ONLY IInv', <1>0, <1>2, <2>3, PacketStep
    <3> QED
      BY ONLY <1>0, <2>2, <3>1, d \in Clients, FramesStay
  <2>4. CASE c # d
    <3>1. DecoderStep(c) \/ Receive(c) \/ ReceiverStep(c)
      BY <1>2 DEF DecoderStep
    <3> QED
      BY <1>0, <1>1, <2>2, <2>4, <3>1, OthersPackets
  <2> QED
    BY <2>3, <2>4
<1>3. ASSUME NEW c \in Clients, DecodeFrame(c) PROVE FrameFacts(d)'
  <2>1. /\ UNCHANGED <<sent, encQ, encFrm, mixQ>> /\ frms' = frms
    BY <1>3 DEF DecodeFrame, mixers
  <2>2. Hands(d)' = Hands(d) /\ Line(d)' = Line(d)
    BY <2>1, LineStays DEF Hands
  <2>3. CASE c = d
    <3>1. PICK k \in Nat \ {0} :
            /\ decQ' = [decQ EXCEPT ![d] = Append(@, k)]
            /\ Last(d) < k /\ Last(d)' = k
            /\ Produced(d)' = Produced(d) \cup {k}
      BY ONLY IInv', <1>0, <1>3, <2>3, DecodeStep
    <3>2. decQ'[d] = Append(decQ[d], k)
      BY <1>0, <3>1 DEF TypeOK
    <3> QED
      BY ONLY <1>0, <2>2, <3>1, <3>2, d \in Clients, k \in Nat \ {0}, FramesDecode
  <2>4. CASE c # d
    <3>1. DecoderStep(c) \/ Receive(c) \/ ReceiverStep(c)
      BY <1>3 DEF DecoderStep
    <3>2. decQ'[d] = decQ[d]
      BY <1>0, <1>3, <2>4 DEF DecodeFrame, InsertDecoded, TypeOK
    <3> QED
      BY <1>0, <1>1, <2>2, <2>4, <3>1, <3>2, OthersPackets
  <2> QED
    BY <2>3, <2>4
<1>4. ASSUME Downstream
      PROVE  /\ recvQ'[d] = recvQ[d] /\ recvPc'[d] = recvPc[d]
             /\ pktNum'[d] = pktNum[d] /\ decPkt'[d] = decPkt[d]
             /\ decDone'[d] = decDone[d] /\ evicted'[d] = evicted[d]
             /\ Last(d)' = Last(d) /\ Produced(d)' = Produced(d)
  <2>1. /\ recvQ'[d] = recvQ[d] /\ recvPc'[d] = recvPc[d]
        /\ pktNum'[d] = pktNum[d] /\ decPkt'[d] = decPkt[d]
        /\ decDone'[d] = decDone[d] /\ evicted'[d] = evicted[d]
    BY <1>4, DownstreamPackets
  <2> QED
    BY ONLY <2>1, d \in Clients, OthersFrames
<1>5. ASSUME NEW m \in Mixers, FetchFrame(m) PROVE FrameFacts(d)'
  <2>0. Downstream
    BY <1>5 DEF Downstream, MixerStep
  <2>1. PICK c \in Clients :
          /\ c \in Nat /\ c = mixSlot[m]
          /\ UNCHANGED <<mixQ, encQ, sent, encFrm>>
          /\ \A e \in Clients : e # c =>
               decQ'[e] = decQ[e] /\ Hands(e)' = Hands(e)
          /\ \/ /\ decQ[c] # <<>>
                /\ decQ'[c] = Tail(decQ[c])
                /\ Hands(c)' = [Hands(c) EXCEPT ![m] = Head(decQ[c])]
             \/ /\ decQ[c] = <<>> /\ decQ' = decQ
                /\ Hands(c)' = [Hands(c) EXCEPT ![m] = NoFrame]
    BY ONLY <1>0, <1>5, FetchStep
  <2>2. Line(d)' = Line(d)
    BY <2>1, LineStays
  <2>3. Hands(c)[m] = 0 /\ Hands(c) \in [Mixers -> Nat]
    <3>1. mixSlot[m] <= c /\ MixerFacts(m)
      BY <2>1 DEF FInv
    <3> QED
      BY <1>0, <3>1 DEF MixerFacts, Hands, NoFrame, MixedFrames
  <2>4. CASE c # d
    <3>1. decQ'[d] = decQ[d] /\ Hands(d)' = Hands(d)
      BY <2>1, <2>4
    <3> QED
      BY <1>1, <1>4, <2>0, <2>2, <3>1
  <2>5. CASE /\ c = d /\ decQ[c] # <<>>
             /\ decQ'[c] = Tail(decQ[c])
             /\ Hands(c)' = [Hands(c) EXCEPT ![m] = Head(decQ[c])]
    <3>1. Last(d)' = Last(d) /\ Produced(d)' = Produced(d)
      BY <1>4, <2>0
    <3> QED
      BY ONLY <1>0, <2>2, <2>3, <2>5, <3>1, d \in Clients, m \in Mixers, FramesFetch
  <2>6. CASE /\ c = d /\ decQ' = decQ
             /\ Hands(c)' = [Hands(c) EXCEPT ![m] = NoFrame]
    <3>1. Hands(d)' = Hands(d)
      BY <2>3, <2>6 DEF NoFrame
    <3>2. decQ'[d] = decQ[d]
      BY <2>6
    <3> QED
      BY <1>1, <1>4, <2>0, <2>2, <3>1, <3>2
  <2> QED
    BY <2>1, <2>4, <2>5, <2>6
<1>6. ASSUME NEW m \in Mixers, SkipRound(m) PROVE FrameFacts(d)'
  <2>1. /\ UNCHANGED <<sent, encQ, encFrm, mixQ>>
        /\ decQ'[d] = decQ[d] /\ frms' = frms /\ Downstream
    BY <1>6 DEF SkipRound, queues, Downstream, MixerStep
  <2>2. Hands(d)' = Hands(d) /\ Line(d)' = Line(d)
    BY <2>1, LineStays DEF Hands
  <2> QED
    BY <1>1, <1>4, <2>1, <2>2
<1>7. ASSUME NEW m \in Mixers, MixFrames(m) PROVE FrameFacts(d)'
  <2>1. /\ Downstream /\ decQ'[d] = decQ[d]
        /\ frms' = [frms EXCEPT ![m] = [c \in Clients |-> NoFrame]]
    BY <1>7 DEF MixFrames, Downstream, MixerStep
  <2>2. Hands(d)' = [Hands(d) EXCEPT ![m] = 0]
    BY <1>0, <2>1, ClearStep
  <2>3. Line(d)' = Append(Line(d), Hands(d)[m])
    <3>1. Line(d)' = Append(Line(d), frms[m][d])
      BY <1>0, <1>7, LineGrows
    <3> QED
      BY <3>1 DEF Hands
  <2>4. Last(d)' = Last(d) /\ Produced(d)' = Produced(d)
    BY <1>4, <2>1
  <2> QED
    BY ONLY <1>0, <2>1, <2>2, <2>3, <2>4, d \in Clients, m \in Mixers, FramesMix
<1>8. ASSUME NEW m \in Mixers, ReleaseFrames(m) PROVE FrameFacts(d)'
  <2>1. /\ UNCHANGED <<sent, encQ, encFrm, mixQ>> /\ mixSlot[m] = ClientNum + 1
        /\ frms' = [frms EXCEPT ![m] = [c \in Clients |-> NoFrame]]
        /\ decQ'[d] = decQ[d] /\ Downstream
    BY <1>8 DEF ReleaseFrames, queues, Downstream, MixerStep
  <2>2. Hands(d)[m] = 0 /\ Hands(d) \in [Mixers -> Nat]
    <3>1. MixerFacts(m) /\ mixSlot[m] > ClientNum
      BY <2>1, ClientAssumption DEF FInv
    <3> QED
      BY <1>0, <3>1 DEF MixerFacts, Hands, NoFrame, MixedFrames
  <2>3. Hands(d)' = [Hands(d) EXCEPT ![m] = 0]
    BY <1>0, <2>1, ClearStep
  <2>4. Hands(d)' = Hands(d) /\ Line(d)' = Line(d)
    BY <2>1, <2>2, <2>3, LineStays
  <2> QED
    BY <1>1, <1>4, <2>1, <2>4
<1>9. ASSUME EncoderStep \/ SendPacket PROVE FrameFacts(d)'
  <2>1. /\ frms' = frms /\ decQ'[d] = decQ[d] /\ Downstream
    BY <1>9 DEF EncoderStep, TakeMixed, EncodeFrame, SendPacket, mixers, Downstream
  <2>2. Hands(d)' = Hands(d) /\ Line(d)' = Line(d)
    BY <1>0, <1>9, <2>1, LineMoves DEF Hands, EncoderStep
  <2> QED
    BY <1>1, <1>4, <2>1, <2>2
<1> QED
  BY <1>2, <1>3, <1>5, <1>6, <1>7, <1>8, <1>9 DEF Next, DecoderStep, MixerStep

\* A picture comes onto the line only with somebody in it.
LEMMA StepColoured ==
  ASSUME FInv, Next
  PROVE  Coloured'
<1>0. /\ QueueTypes /\ \A m \in Mixers : frms[m] \in MixedFrames /\ MixerFacts(m)
      /\ Coloured
  BY DEF FInv, IInv, TypeOK, QueueTypes
<1>1. LineLen \in Nat
  BY <1>0, LineType
<1>2. ASSUME LineLen' = LineLen, \A n \in 1..LineLen : Picture(n)' = Picture(n)
      PROVE  Coloured'
  BY <1>0, <1>1, <1>2 DEF Coloured
<1>3. ASSUME NEW m \in Mixers, MixFrames(m) PROVE Coloured'
  <2>1. /\ LineLen' = LineLen + 1
        /\ \A n : n = LineLen + 1 => Picture(n)' = frms[m]
        /\ \A n \in 1..LineLen : Picture(n)' = Picture(n)
    BY <1>0, <1>3, LineGrows
  <2>2. \E c \in Clients : frms[m][c] # NoFrame
    <3>1. mixSlot[m] <= ClientNum /\ emptyFlag[m] # mixSlot[m]
      BY <1>3, ClientAssumption DEF MixFrames
    <3> QED
      BY <1>0, <3>1 DEF MixerFacts
  <2>3. ASSUME NEW n \in 1..(LineLen + 1)
        PROVE  \E c \in Clients : Picture(n)'[c] # NoFrame
    <3>1. CASE n = LineLen + 1
      BY <2>1, <2>2, <3>1
    <3>2. CASE n # LineLen + 1
      BY <1>0, <1>1, <2>1, <3>2 DEF Coloured
    <3> QED
      BY <3>1, <3>2
  <2> QED
    BY <2>1, <2>3 DEF Coloured
<1>4. ASSUME TakeMixed \/ EncodeFrame \/ SendPacket PROVE Coloured'
  BY <1>0, <1>2, <1>4, LineMoves
<1>5. ASSUME UNCHANGED <<sent, encQ, encFrm, mixQ>> PROVE Coloured'
  BY <1>2, <1>5, LineStays
<1>6. ASSUME \/ \E c \in Clients : Receive(c) \/ ReceiverStep(c) \/ DecoderStep(c)
             \/ \E m \in Mixers : FetchFrame(m) \/ SkipRound(m) \/ ReleaseFrames(m)
      PROVE  Coloured'
  <2>1. UNCHANGED <<sent, encQ, encFrm, mixQ>>
    BY <1>6 DEF Receive, ReceiverStep, CheckLimit, Evict, InsertPacket,
       DecoderStep, TakePacket, DecodeFrame, FinishPacket, FetchFrame, SkipRound,
       ReleaseFrames, queues
  <2> QED
    BY <1>5, <2>1
<1> QED
  BY <1>3, <1>4, <1>6 DEF Next, EncoderStep, MixerStep

\* The three facts of the inductive invariant: it holds at the start,
LEMMA InitFInv == Init => FInv
<1> SUFFICES ASSUME Init PROVE FInv
  OBVIOUS
<1>1. IInv
  BY InitIInv
<1>2. /\ sent = <<>> /\ encQ = <<>> /\ encFrm = NULL /\ mixQ = <<>>
      /\ QueueTypes
  BY <1>1 DEF Init, IInv, TypeOK, QueueTypes
<1>3. LineLen = 0
  BY <1>2 DEF LineLen, Working
<1>4. Coloured
  BY <1>3 DEF Coloured
<1>5. ASSUME NEW m \in Mixers PROVE MixerFacts(m)
  BY ClientAssumption DEF Init, MixerFacts
<1>6. ASSUME NEW c \in Clients PROVE PacketFacts(c) /\ FrameFacts(c)
  <2>1. /\ recvQ[c] = <<>> /\ decQ[c] = <<>> /\ recvPc[c] = "recv"
        /\ pktNum[c] = 0 /\ decPkt[c] = 0 /\ decDone[c] = 0 /\ evicted[c] = {}
        /\ \A m \in Mixers : frms[m][c] = 0
        /\ PacketsFrom[c] \in Nat
    BY <1>6, PacketAssumption DEF Init, NoPacket, NoFrame
  <2>2. Queued(c) = 0 /\ Taken(c) = 0
    <3>1. Queued(c) = 0
      BY <2>1 DEF Queued
    <3>2. Len(recvQ[c]) = 0
      BY <2>1
    <3> QED
      BY ONLY <3>1, <3>2 DEF Taken
  <2>3. PacketFacts(c)
    BY <2>1, <2>2 DEF PacketFacts
  <2>4. Last(c) \in Nat
    BY <1>1, <2>3, ColumnTypes DEF Columns
  <2>5. Len(decQ[c]) = 0 /\ Len(Line(c)) = 0 /\ \A m \in Mixers : Hands(c)[m] = 0
    BY <1>2, <1>3, <2>1, LineType DEF Hands
  <2>6. Once(decQ[c], Hands(c), Line(c), Last(c))
    BY <2>4, <2>5 DEF Once, Ascending, Single, Older, Before
  <2>7. Produced(c) = {}
    <3>1. Decoded(c) = {}
      BY <2>2 DEF Decoded
    <3>2. \A k : k \notin UNION {FramesOf(p, FramesPerPacket) : p \in Decoded(c)}
      BY ONLY <3>1
    <3>3. decPkt[c] = NoPacket
      BY <2>1 DEF NoPacket
    <3> QED
      BY ONLY <3>2, <3>3 DEF Produced
  <2>8. \A k \in Nat \ {0} : ~Shows(decQ[c], Hands(c), Line(c), k)
    BY <2>5 DEF Shows
  <2> QED
    BY <2>3, <2>5, <2>6, <2>7, <2>8 DEF FrameFacts, Ordered
<1> QED
  BY <1>1, <1>4, <1>5, <1>6 DEF FInv

\* it survives a stuttering step,
LEMMA StutterFInv == FInv /\ UNCHANGED vars => FInv'
<1> SUFFICES ASSUME FInv, UNCHANGED vars PROVE FInv'
  OBVIOUS
<1>1. IInv'
  BY StutterIInv DEF FInv
<1>2. UNCHANGED <<recvQ, decQ, mixQ, encQ, recvPc, pktNum, evicted, decPkt, decDone,
                  mixSlot, frms, emptyFlag, encFrm, sent>>
  BY DEF vars, queues, receivers, decoders, mixers
<1>3. ASSUME NEW m \in Mixers PROVE MixerFacts(m)'
  <2>1. MixerFacts(m)
    BY DEF FInv
  <2> QED
    BY ONLY <1>2, <2>1 DEF MixerFacts
<1>4. Coloured'
  <2>1. /\ LineLen' = LineLen /\ \A n : Picture(n)' = Picture(n) /\ Coloured
    BY <1>2, LineStays DEF FInv
  <2> QED
    BY ONLY <2>1 DEF Coloured
<1>5. ASSUME NEW c \in Clients PROVE PacketFacts(c)' /\ FrameFacts(c)'
  <2>1. /\ PacketFacts(c) /\ FrameFacts(c) /\ Last(c) \in Nat
        /\ Columns(decQ[c], Hands(c), Line(c), Last(c))
    BY UnpackFInv
  <2>2. /\ recvQ'[c] = recvQ[c] /\ recvPc'[c] = recvPc[c]
        /\ pktNum'[c] = pktNum[c] /\ decPkt'[c] = decPkt[c]
        /\ decDone'[c] = decDone[c] /\ evicted'[c] = evicted[c]
    BY ONLY <1>2
  <2>3. decQ'[c] = decQ[c] /\ Hands(c)' = Hands(c) /\ Line(c)' = Line(c)
    BY <1>2, LineStays DEF Hands
  <2>4. Last(c)' = Last(c) /\ Produced(c)' = Produced(c)
    BY ONLY <2>2, c \in Clients, OthersFrames
  <2>5. Last(c)' \in Nat /\ Last(c) <= Last(c)'
    BY <2>1, <2>4
  <2>6. PacketFacts(c)'
    BY ONLY <2>1, <2>2, c \in Clients, PacketFrame
  <2>7. FrameFacts(c)'
    BY ONLY <2>1, <2>3, <2>4, <2>5, c \in Clients, FramesStay
  <2> QED
    BY <2>6, <2>7
<1> QED
  BY <1>1, <1>3, <1>4, <1>5 DEF FInv

\* and every step.
LEMMA StepFInv == FInv /\ [Next]_vars => FInv'
<1>1. ASSUME FInv, Next PROVE FInv'
  <2>1. IInv /\ IInv'
    BY <1>1, StepTypes, StepReceivers DEF IInv, FInv
  <2>2. \A c \in Clients : PacketFacts(c)' /\ FrameFacts(c)'
    BY <1>1, <2>1, StepPackets, StepFrames DEF FInv
  <2>3. \A m \in Mixers : MixerFacts(m)'
    BY <1>1, <2>1, StepMixers DEF FInv
  <2>4. Coloured'
    BY <1>1, StepColoured
  <2> QED
    BY <2>1, <2>2, <2>3, <2>4 DEF FInv
<1> QED
  BY <1>1, StutterFInv

\* The queues, the mixers' hands and the line of pictures agree with what the
\* decoders have decoded, in every state.
THEOREM FrameInvariance == Spec => []FInv
BY InitFInv, StepFInv, PTL DEF Spec

\* A mixer never queues a picture that shows nobody: it mixes only after a
\* round in which it found some queue with a frame.
THEOREM SomebodyShown == Spec => NoBluePicture
<1> DEFINE Shown == Len(mixQ') > Len(mixQ) =>
                      \E c \in Clients : mixQ'[Len(mixQ')][c] # NoFrame
<1>1. FInv /\ [Next]_vars => [Shown]_vars
  <2> SUFFICES ASSUME FInv, Next, Len(mixQ') > Len(mixQ)
               PROVE  \E c \in Clients : mixQ'[Len(mixQ')][c] # NoFrame
    OBVIOUS
  <2>1. /\ mixQ \in Seq(MixedFrames) /\ Len(mixQ) \in Nat
        /\ \A m \in Mixers : frms[m] \in MixedFrames /\ MixerFacts(m)
    BY DEF FInv, IInv, TypeOK
  <2>2. PICK m \in Mixers : MixFrames(m)
    <3>1. ASSUME UNCHANGED mixQ PROVE FALSE
      BY <2>1, <3>1
    <3>2. ASSUME TakeMixed PROVE FALSE
      <4>1. mixQ # <<>> /\ mixQ' = Tail(mixQ)
        BY <3>2 DEF TakeMixed, RemoveMixed
      <4> QED
        BY <2>1, <4>1, RemoveHead
    <3>3. UNCHANGED mixQ \/ TakeMixed \/ \E m \in Mixers : MixFrames(m)
      BY DEF Next, Receive, ReceiverStep, CheckLimit, Evict, InsertPacket,
         DecoderStep, TakePacket, DecodeFrame, FinishPacket, MixerStep, FetchFrame,
         SkipRound, ReleaseFrames, EncoderStep, EncodeFrame, SendPacket, queues
    <3> QED
      BY <3>1, <3>2, <3>3
  <2>3. mixQ' = Append(mixQ, frms[m])
    BY <2>2 DEF MixFrames, InsertMixed
  <2>4. mixQ'[Len(mixQ')] = frms[m]
    BY <2>1, <2>3, AppendProperties
  <2>5. mixSlot[m] <= ClientNum /\ emptyFlag[m] # mixSlot[m]
    BY <2>2, ClientAssumption DEF MixFrames
  <2> QED
    BY <2>1, <2>4, <2>5 DEF MixerFacts
<1> QED
  BY <1>1, FrameInvariance, PTL DEF Spec, NoBluePicture

-----------------------------------------------------------------------------
(* Every frame in one place.                                               *)

LinePlace(n) ==
  IF n <= Len(sent) THEN <<"sent", n>>
  ELSE IF n <= Len(sent) + Len(encQ) THEN <<"encQ", n - Len(sent)>>
  ELSE IF n <= Len(sent) + Len(encQ) + Working THEN <<"encFrm", 1>>
  ELSE <<"mixQ", n - (Len(sent) + Len(encQ) + Working)>>

\* The places of a frame are positions of the queue, the hands and the line.
LEMMA PlacesFound ==
  ASSUME QueueTypes, NEW c \in Clients, NEW k, decQ[c] \in Seq(Nat), NEW x
  PROVE  x \in Places(c, k) <=>
           \/ \E i \in 1..Len(decQ[c]) : x = <<"decQ", i>> /\ decQ[c][i] = k
           \/ \E m \in Mixers : x = <<"frms", m>> /\ frms[m][c] = k
           \/ \E n \in 1..LineLen : x = LinePlace(n) /\ Picture(n)[c] = k
<1> DEFINE InLine ==
             \/ \E i \in 1..Len(sent) : x = <<"sent", i>> /\ sent[i][c] = k
             \/ \E i \in 1..Len(encQ) : x = <<"encQ", i>> /\ encQ[i][c] = k
             \/ x = <<"encFrm", 1>> /\ encFrm # NULL /\ encFrm[c] = k
             \/ \E i \in 1..Len(mixQ) : x = <<"mixQ", i>> /\ mixQ[i][c] = k
<1>1. /\ Len(sent) \in Nat /\ Len(encQ) \in Nat /\ Len(mixQ) \in Nat
      /\ DOMAIN sent = 1..Len(sent) /\ DOMAIN encQ = 1..Len(encQ)
      /\ DOMAIN mixQ = 1..Len(mixQ) /\ DOMAIN decQ[c] = 1..Len(decQ[c])
  BY LenProperties DEF QueueTypes
<1>2. Working \in {0, 1} /\ (Working = 1 <=> encFrm # NULL)
  BY DEF Working
<1>3. x \in Places(c, k) <=>
        \/ \E i \in 1..Len(decQ[c]) : x = <<"decQ", i>> /\ decQ[c][i] = k
        \/ \E m \in Mixers : x = <<"frms", m>> /\ frms[m][c] = k
        \/ InLine
  BY <1>1, Zenon DEF Places
<1>4. ASSUME NEW n \in 1..LineLen, x = LinePlace(n), Picture(n)[c] = k
      PROVE  InLine
  <2>1. CASE n <= Len(sent)
    BY <1>1, <1>4, <2>1 DEF LinePlace, Picture
  <2>2. CASE ~(n <= Len(sent)) /\ n <= Len(sent) + Len(encQ)
    <3>1. /\ n - Len(sent) \in 1..Len(encQ) /\ x = <<"encQ", n - Len(sent)>>
          /\ encQ[n - Len(sent)][c] = k
      BY <1>1, <1>4, <2>2 DEF LinePlace, Picture
    <3> QED
      BY <3>1
  <2>3. CASE /\ ~(n <= Len(sent)) /\ ~(n <= Len(sent) + Len(encQ))
             /\ n <= Len(sent) + Len(encQ) + Working
    <3>1. Working = 1
      BY <1>1, <1>2, <2>3
    <3> QED
      BY <1>2, <1>4, <2>3, <3>1 DEF LinePlace, Picture
  <2>4. CASE /\ ~(n <= Len(sent)) /\ ~(n <= Len(sent) + Len(encQ))
             /\ ~(n <= Len(sent) + Len(encQ) + Working)
    <3> DEFINE i == n - (Len(sent) + Len(encQ) + Working)
    <3>1. i \in 1..Len(mixQ)
      BY <1>1, <1>2, <2>4 DEF LineLen
    <3>2. x = <<"mixQ", i>> /\ mixQ[i][c] = k
      BY <1>4, <2>4 DEF LinePlace, Picture
    <3> QED
      BY <3>1, <3>2
  <2> QED
    BY <2>1, <2>2, <2>3, <2>4
<1>5. ASSUME InLine
      PROVE  \E n \in 1..LineLen : x = LinePlace(n) /\ Picture(n)[c] = k
  <2>1. CASE \E i \in 1..Len(sent) : x = <<"sent", i>> /\ sent[i][c] = k
    <3>1. PICK i \in 1..Len(sent) : x = <<"sent", i>> /\ sent[i][c] = k
      BY <2>1
    <3>2. i \in 1..LineLen /\ i <= Len(sent)
      BY <1>1, <1>2 DEF LineLen
    <3> QED
      BY <3>1, <3>2 DEF LinePlace, Picture
  <2>2. CASE \E i \in 1..Len(encQ) : x = <<"encQ", i>> /\ encQ[i][c] = k
    <3>1. PICK i \in 1..Len(encQ) : x = <<"encQ", i>> /\ encQ[i][c] = k
      BY <2>2
    <3>2. PICK n : n = Len(sent) + i
      OBVIOUS
    <3>3. /\ n \in 1..LineLen /\ ~(n <= Len(sent)) /\ n <= Len(sent) + Len(encQ)
          /\ n - Len(sent) = i
      BY <1>1, <1>2, <3>2 DEF LineLen
    <3> QED
      BY <3>1, <3>3 DEF LinePlace, Picture
  <2>3. CASE x = <<"encFrm", 1>> /\ encFrm # NULL /\ encFrm[c] = k
    <3>1. PICK n : n = Len(sent) + Len(encQ) + 1
      OBVIOUS
    <3>2. /\ n \in 1..LineLen /\ ~(n <= Len(sent)) /\ ~(n <= Len(sent) + Len(encQ))
          /\ n <= Len(sent) + Len(encQ) + Working
      BY <1>1, <1>2, <2>3, <3>1 DEF LineLen
    <3> QED
      BY <2>3, <3>2 DEF LinePlace, Picture
  <2>4. CASE \E i \in 1..Len(mixQ) : x = <<"mixQ", i>> /\ mixQ[i][c] = k
    <3>1. PICK i \in 1..Len(mixQ) : x = <<"mixQ", i>> /\ mixQ[i][c] = k
      BY <2>4
    <3>2. PICK n : n = Len(sent) + Len(encQ) + Working + i
      OBVIOUS
    <3>3. /\ n \in 1..LineLen /\ ~(n <= Len(sent)) /\ ~(n <= Len(sent) + Len(encQ))
          /\ ~(n <= Len(sent) + Len(encQ) + Working)
          /\ n - (Len(sent) + Len(encQ) + Working) = i
      BY <1>1, <1>2, <3>2 DEF LineLen
    <3> QED
      BY <3>1, <3>3 DEF LinePlace, Picture
  <2> QED
    BY <1>5, <2>1, <2>2, <2>3, <2>4
<1> QED
  BY <1>3, <1>4, <1>5

\* A frame produced has one place, any other none.
LEMMA PlacesSingle ==
  ASSUME FInv, NEW c \in Clients, NEW k \in Nat \ {0}
  PROVE  /\ k \notin Produced(c) => Places(c, k) = {}
         /\ k \in Produced(c) => \E x : Places(c, k) = {x}
<1> DEFINE InQueue(x) == \E i \in 1..Len(decQ[c]) : x = <<"decQ", i>> /\ decQ[c][i] = k
           InHand(x) == \E m \in Mixers : x = <<"frms", m>> /\ frms[m][c] = k
           OnLine(x) == \E n \in 1..LineLen : x = LinePlace(n) /\ Picture(n)[c] = k
<1>1. PICK q, h, l, last :
        /\ q = decQ[c] /\ h = Hands(c) /\ l = Line(c) /\ last = Last(c)
  OBVIOUS
<1>2. /\ Once(q, h, l, last) /\ Columns(q, h, l, last)
      /\ Shows(q, h, l, k) <=> k \in Produced(c)
      /\ QueueTypes /\ decQ[c] \in Seq(Nat)
  BY <1>1, UnpackFInv DEF FrameFacts, TypeOK
<1>3. /\ \A i \in 1..Len(decQ[c]) : decQ[c][i] = q[i]
      /\ \A m \in Mixers : frms[m][c] = h[m]
      /\ Len(l) = LineLen /\ \A n \in 1..LineLen : Picture(n)[c] = l[n]
      /\ Len(decQ[c]) = Len(q) /\ Len(q) \in Nat /\ Len(l) \in Nat
  BY <1>1, <1>2, LineType DEF Hands
<1>4. \A x : x \in Places(c, k) <=> InQueue(x) \/ InHand(x) \/ OnLine(x)
  BY <1>2, PlacesFound
<1>5. (\E x : x \in Places(c, k)) <=> Shows(q, h, l, k)
  <2>1. (\E x : InQueue(x)) <=> \E i \in 1..Len(q) : q[i] = k
    BY <1>3
  <2>2. (\E x : InHand(x)) <=> \E m \in Mixers : h[m] = k
    BY <1>3
  <2>3. (\E x : OnLine(x)) <=> \E n \in 1..Len(l) : l[n] = k
    BY <1>3
  <2> QED
    BY <1>4, <2>1, <2>2, <2>3 DEF Shows
<1>6. /\ \A i \in 1..Len(q) : q[i] \in Nat
      /\ \A m \in Mixers : h[m] \in Nat
      /\ \A n \in 1..Len(l) : l[n] \in Nat
  BY <1>2, ElementOfSeq DEF Columns
<1>7. ASSUME NEW i \in 1..Len(q), q[i] = k
      PROVE  /\ \A j \in 1..Len(q) : q[j] = k => j = i
             /\ \A m \in Mixers : h[m] # k
             /\ \A n \in 1..Len(l) : l[n] # k
  BY <1>2, <1>3, <1>6, <1>7 DEF Once, Ascending, Older, Before
<1>8. ASSUME NEW m \in Mixers, h[m] = k
      PROVE  /\ \A o \in Mixers : h[o] = k => o = m
             /\ \A n \in 1..Len(l) : l[n] # k
  BY <1>2, <1>8 DEF Once, Single
<1>9. ASSUME NEW n \in 1..Len(l), l[n] = k
      PROVE  \A o \in 1..Len(l) : l[o] = k => o = n
  BY <1>2, <1>9 DEF Once, Single
<1>10. ASSUME NEW x \in Places(c, k), NEW y \in Places(c, k) PROVE x = y
  <2>1. /\ InQueue(x) \/ InHand(x) \/ OnLine(x)
        /\ InQueue(y) \/ InHand(y) \/ OnLine(y)
    BY <1>4
  <2>2. CASE InQueue(x)
    BY <1>3, <1>7, <2>1, <2>2
  <2>3. CASE InHand(x)
    BY <1>3, <1>7, <1>8, <2>1, <2>3
  <2>4. CASE OnLine(x)
    BY <1>3, <1>7, <1>8, <1>9, <2>1, <2>4
  <2> QED
    BY <2>1, <2>2, <2>3, <2>4
<1>11. ASSUME k \notin Produced(c) PROVE Places(c, k) = {}
  <2>1. ~ \E x : x \in Places(c, k)
    BY <1>2, <1>5, <1>11
  <2> QED
    BY ONLY <2>1
<1>12. ASSUME k \in Produced(c) PROVE \E x : Places(c, k) = {x}
  <2>1. PICK x : x \in Places(c, k)
    BY <1>2, <1>5, <1>12
  <2>2. \A y \in Places(c, k) : y = x
    BY <1>10, <2>1
  <2>3. Places(c, k) = {x}
    BY ONLY <2>1, <2>2
  <2> QED
    BY ONLY <2>3
<1> QED
  BY <1>11, <1>12

\* Every packet read is dropped whole or decoded whole, and every frame that
\* was decoded is in exactly one place, whichever mixers take it and whatever
\* rounds they give up.
THEOREM EveryFrameOnce == Spec => []FramesOnce
<1>1. FInv => FramesOnce
  <2> SUFFICES ASSUME FInv, NEW c \in Clients,
                      NEW k \in 1..(PacketsFrom[c] * FramesPerPacket)
               PROVE  Cardinality(Places(c, k)) = IF k \in Produced(c) THEN 1 ELSE 0
    BY DEF FramesOnce
  <2>1. k \in Nat \ {0}
    OBVIOUS
  <2>2. CASE k \in Produced(c)
    <3>1. PICK x : Places(c, k) = {x}
      BY <2>1, <2>2, PlacesSingle
    <3> QED
      BY <2>2, <3>1, FS_Singleton
  <2>3. CASE k \notin Produced(c)
    BY <2>1, <2>3, PlacesSingle, FS_EmptySet
  <2> QED
    BY <2>2, <2>3
<1> QED
  BY <1>1, FrameInvariance, PTL

\* With two clients, and so one mixer, a client's frames are sent in the order
\* they were decoded, and they are when there is none; with more clients two
\* mixers may overtake each other, which a run shows.
THEOREM OneMixerInOrder ==
  ASSUME ClientNum <= 2
  PROVE  Spec => []SentInOrder
<1>1. FInv => SentInOrder
  <2> SUFFICES ASSUME FInv, NEW c \in Clients, NEW i \in DOMAIN sent,
                      NEW j \in DOMAIN sent, i < j,
                      sent[i][c] # NoFrame, sent[j][c] # NoFrame
               PROVE  sent[i][c] < sent[j][c]
    BY DEF SentInOrder
  <2>1. Ordered(Hands(c), Line(c)) /\ QueueTypes
    BY UnpackFInv DEF FrameFacts
  <2>2. /\ i \in 1..LineLen /\ j \in 1..LineLen
        /\ i <= Len(sent) /\ j <= Len(sent)
        /\ Len(Line(c)) = LineLen
        /\ Line(c)[i] = Picture(i)[c] /\ Line(c)[j] = Picture(j)[c]
    <3>1. i \in 1..Len(sent) /\ j \in 1..Len(sent)
      BY <2>1, LenProperties DEF QueueTypes
    <3>2. /\ LineLen \in Nat /\ Len(sent) \in Nat /\ Len(sent) <= LineLen
          /\ Len(Line(c)) = LineLen
          /\ \A n \in 1..LineLen : Line(c)[n] = Picture(n)[c]
      BY <2>1, LineType
    <3> QED
      BY ONLY <3>1, <3>2
  <2>3. Line(c)[i] = sent[i][c] /\ Line(c)[j] = sent[j][c]
    BY <2>2 DEF Picture
  <2> QED
    BY <2>1, <2>2, <2>3 DEF Ordered, NoFrame
<1> QED
  BY <1>1, FrameInvariance, PTL
=============================================================================
