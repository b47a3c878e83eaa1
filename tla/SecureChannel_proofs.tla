------------------------ MODULE SecureChannel_proofs ------------------------
(***************************************************************************)
(* Proofs about SecureChannel, for every size of the messages, the prefix, *)
(* the buffer and the limiters: the invariant of the run, and that each    *)
(* step is one of MessageChannel.                                          *)
(*                                                                         *)
(* The inductive invariant says of all the bytes on the way what           *)
(* StreamIsWhole says of neighbours: a frame is there whole from any of    *)
(* its bytes on, no byte twice, and it belongs to a message that is not    *)
(* delivered yet.                                                          *)
(***************************************************************************)
EXTENDS SecureChannel, SequenceTheorems, TLAPS

-----------------------------------------------------------------------------
(* What is on the way, as a stream of bytes.                               *)

\* A byte and what follows it in its frame are next to each other.
FramesWhole(s) ==
    \A i, j \in 1..Len(s) :
        i <= j /\ s[i][2] + (j - i) <= FrameLen(s[i][1]) => s[j] = <<s[i][1], s[i][2] + (j - i)>>

\* The frame after a frame is that of the next message.
FramesInOrder(s, q) ==
    \A i \in 1..Len(s) - 1 :
        s[i][2] = FrameLen(s[i][1])
            => \E n \in 1..Len(q) - 1 : q[n] = s[i][1] /\ s[i + 1] = <<q[n + 1], 1>>

NoByteTwice(s) == \A i, j \in 1..Len(s) : s[i] = s[j] => i = j

\* It starts after the d messages of q that have been delivered.
StartsAfter(s, q, d) ==
    /\ s # <<>> => d < Len(q) /\ s[1] = <<q[d + 1], 1>>
    /\ \A i \in 1..Len(s) : \E n \in d + 1..Len(q) : s[i][1] = q[n]

Stream(s, q, d) ==
    /\ s \in Seq(Byte)
    /\ FramesWhole(s)
    /\ FramesInOrder(s, q)
    /\ NoByteTwice(s)
    /\ StartsAfter(s, q, d)

\* It ends with the last message.
EndsWith(s, q, d) ==
    IF s = <<>> THEN d = Len(q) ELSE s[Len(s)] = <<q[Len(q)], FrameLen(q[Len(q)])>>

Reading == reader.at \notin Failed

StreamAgrees ==
    Reading => /\ Stream(OnTheWay, sent, Len(delivered))
               /\ up => EndsWith(OnTheWay, sent, Len(delivered))

\* Messages are sent once; the one that is being written is the last.
SendersAgree ==
    /\ \A i, j \in 1..Len(sent) : sent[i] = sent[j] => i = j
    /\ \A m \in Messages : sender[m] = "idle" <=> ~\E i \in 1..Len(sent) : sent[i] = m
    /\ \A m \in Messages : sender[m] = "writing" => sent # <<>> /\ m = sent[Len(sent)]
    /\ \A m \in Messages : out[m] # <<>> => sender[m] = "writing" /\ Len(delivered) < Len(sent)

\* How far ReadNextMessage is.
ReaderAgrees ==
    /\ reader.at = "prefix" => reader.head = <<>> /\ reader.body = <<>>
    /\ reader.at = "body" => /\ Len(reader.head) \in 1..Prefix
                             /\ reader.need = Size[reader.head[1][1]] % Base^Len(reader.head)
                             /\ Len(reader.body) <= reader.need

\* The rest of message m was lost with the connection.
Lost(m) ==
    /\ ~up
    /\ out[m] # <<>> \/ (sender[m] = "error" /\ ~Throttled(m))

LostAgrees ==
    \A m \in Messages :
        Lost(m) => /\ \A i \in 1..Len(delivered) : delivered[i] # m
                   /\ Reading => \A i \in 1..Len(OnTheWay) : OnTheWay[i] # <<m, FrameLen(m)>>

ErrorsAgree ==
    \A m \in Messages : sender[m] = "error" /\ ~Throttled(m) => ~up

OrderAgrees ==
    /\ Len(delivered) <= Len(sent)
    /\ \A i \in 1..Len(delivered) : delivered[i] = sent[i]

IInv ==
    /\ TypeOK
    /\ OrderAgrees
    /\ GarbledOnlyBySplitPrefix
    /\ StreamAgrees
    /\ SendersAgree
    /\ ReaderAgrees
    /\ LostAgrees
    /\ ErrorsAgree

-----------------------------------------------------------------------------
(* Frames and sequences.                                                   *)

LEMMA Sizes ==
    ASSUME NEW m \in Messages
    PROVE  /\ Size[m] \in Nat /\ Size[m] > 0 /\ Size[m] < Base^Prefix /\ Base^Prefix \in Nat
           /\ Prefix \in Nat /\ Prefix > 0
           /\ FrameLen(m) \in Nat /\ FrameLen(m) > Prefix /\ FrameLen(m) = Prefix + Size[m]
<1>1. Prefix \in Nat /\ Prefix > 0 /\ Prefix \in 1..Prefix
      BY SizeAssumption
<1>2. Base^Prefix \in Nat
      BY <1>1, PowersAssumption
<1>3. Size[m] \in 1..(Base^Prefix - 1)
      BY SizeAssumption
<1> QED BY <1>1, <1>2, <1>3 DEF FrameLen

LEMMA Bytes ==
    ASSUME NEW b \in Byte
    PROVE  b[1] \in Messages /\ b[2] \in 1..FrameLen(b[1]) /\ b = <<b[1], b[2]>>
BY DEF Byte

LEMMA FrameIs ==
    ASSUME NEW m \in Messages
    PROVE  /\ Frame(m) \in Seq(Byte) /\ Len(Frame(m)) = FrameLen(m)
           /\ \A i \in 1..FrameLen(m) : Frame(m)[i] = <<m, i>>
<1>1. FrameLen(m) \in Nat
      BY Sizes
<1>2. \A i \in 1..FrameLen(m) : <<m, i>> \in Byte
      BY <1>1 DEF Byte
<1> QED BY <1>1, <1>2 DEF Frame

\* A sequence that is cut after k elements.
LEMMA Cut ==
    ASSUME NEW S, NEW s \in Seq(S), NEW k \in 0..Len(s)
    PROVE  /\ SubSeq(s, 1, k) \in Seq(S) /\ SubSeq(s, k + 1, Len(s)) \in Seq(S)
           /\ Len(SubSeq(s, 1, k)) = k /\ Len(SubSeq(s, k + 1, Len(s))) = Len(s) - k
           /\ \A i \in 1..k : SubSeq(s, 1, k)[i] = s[i]
           /\ \A i \in 1..Len(s) - k : SubSeq(s, k + 1, Len(s))[i] = s[k + i]
           /\ SubSeq(s, 1, k) \o SubSeq(s, k + 1, Len(s)) = s
<1>1. Len(s) \in Nat /\ k \in Nat /\ k <= Len(s) /\ \A i \in 1..Len(s) : s[i] \in S
      OBVIOUS
<1>2. \A i \in 1..k : s[i] \in S
      BY <1>1
<1>3. \A i \in k + 1..Len(s) : s[i] \in S
      BY <1>1
<1>4. /\ SubSeq(s, 1, k) \in Seq(S) /\ Len(SubSeq(s, 1, k)) = k
      /\ \A i \in 1..k : SubSeq(s, 1, k)[i] = s[i]
      BY <1>1, <1>2, SubSeqProperties
<1>5. /\ SubSeq(s, k + 1, Len(s)) \in Seq(S)
      /\ Len(SubSeq(s, k + 1, Len(s))) = Len(s) - k
      /\ \A i \in 1..Len(s) - k : SubSeq(s, k + 1, Len(s))[i] = s[k + i]
      BY <1>1, <1>3, SubSeqProperties
<1>6. SubSeq(s, 1, k) \o SubSeq(s, k + 1, Len(s)) = SubSeq(s, 1, Len(s))
      <2>1. 1 \in 1..Len(s) + 1 /\ k \in 1 - 1..Len(s) /\ Len(s) \in k..Len(s)
            BY <1>1
      <2> QED BY <2>1, ConcatAdjacentSubSeq
<1>7. SubSeq(s, 1, Len(s)) = s
      BY SubSeqFull
<1> QED BY <1>4, <1>5, <1>6, <1>7

LEMMA Glued ==
    ASSUME NEW S, NEW s \in Seq(S), NEW t \in Seq(S)
    PROVE  /\ s \o t \in Seq(S) /\ Len(s \o t) = Len(s) + Len(t) /\ Len(s) \in Nat /\ Len(t) \in Nat
           /\ \A i \in 1..Len(s) : (s \o t)[i] = s[i]
           /\ \A i \in 1..Len(t) : (s \o t)[Len(s) + i] = t[i]
           /\ \A i \in 1..Len(s \o t) : \/ i \in 1..Len(s) /\ (s \o t)[i] = s[i]
                                        \/ i - Len(s) \in 1..Len(t) /\ (s \o t)[i] = t[i - Len(s)]
<1>1. Len(s) \in Nat /\ Len(t) \in Nat
      OBVIOUS
<1>2. /\ s \o t \in Seq(S) /\ Len(s \o t) = Len(s) + Len(t)
      /\ \A i \in 1..Len(s) + Len(t) : (s \o t)[i] = IF i <= Len(s) THEN s[i] ELSE t[i - Len(s)]
      BY ConcatProperties
<1> QED BY <1>1, <1>2

-----------------------------------------------------------------------------
(* Streams.                                                                *)

\* The first frame of a stream is that of the next message.
LEMMA AtStart ==
    ASSUME NEW s, NEW q \in Seq(Messages), NEW d \in Nat, Stream(s, q, d), NEW i \in 1..Len(s)
    PROVE  /\ Len(s) \in Nat /\ d < Len(q) /\ q[d + 1] \in Messages
           /\ i <= FrameLen(q[d + 1]) => s[i] = <<q[d + 1], i>>
<1>1. Len(s) \in Nat /\ s # <<>> /\ 1 \in 1..Len(s)
      BY DEF Stream
<1>2. d < Len(q) /\ s[1] = <<q[d + 1], 1>>
      BY <1>1 DEF Stream, StartsAfter
<1>3. q[d + 1] \in Messages
      BY <1>2
<1>4. s[1][1] = q[d + 1] /\ s[1][2] = 1
      BY <1>2
<1>5. s[1][2] + (i - 1) <= FrameLen(s[1][1]) => s[i] = <<s[1][1], s[1][2] + (i - 1)>>
      BY <1>1 DEF Stream, FramesWhole
<1>6. FrameLen(q[d + 1]) \in Nat
      BY <1>3, Sizes
<1> QED BY <1>1, <1>2, <1>3, <1>4, <1>5, <1>6

\* What is left of a stream that breaks.
LEMMA StreamBreaks ==
    ASSUME NEW s, NEW q, NEW d, Stream(s, q, d), NEW t \in Seq(Byte), Len(t) <= Len(s),
           \A i \in 1..Len(t) : t[i] = s[i]
    PROVE  Stream(t, q, d)
<1>1. Len(s) \in Nat /\ Len(t) \in Nat /\ \A i \in 1..Len(t) : i \in 1..Len(s)
      BY DEF Stream
<1>2. FramesWhole(t)
      BY <1>1 DEF Stream, FramesWhole
<1>3. FramesInOrder(t, q)
      <2>1. \A i \in 1..Len(t) - 1 : i \in 1..Len(s) - 1 /\ t[i] = s[i] /\ t[i + 1] = s[i + 1]
            BY <1>1
      <2> QED BY <2>1 DEF Stream, FramesInOrder
<1>4. NoByteTwice(t)
      BY <1>1 DEF Stream, NoByteTwice
<1>5. StartsAfter(t, q, d)
      <2>1. t # <<>> => s # <<>> /\ t[1] = s[1]
            BY <1>1
      <2> QED BY <1>1, <2>1 DEF Stream, StartsAfter
<1> QED BY <1>2, <1>3, <1>4, <1>5 DEF Stream

\* A message more is locked, of which nothing is on the way.
LEMMA StreamStays ==
    ASSUME NEW s, NEW q \in Seq(Messages), NEW d \in Nat, NEW m \in Messages, Stream(s, q, d)
    PROVE  Stream(s, Append(q, m), d)
<1> DEFINE r == Append(q, m)
<1>1. /\ Len(q) \in Nat /\ Len(r) = Len(q) + 1 /\ \A n \in 1..Len(q) : r[n] = q[n]
      BY AppendProperties
<1> HIDE DEF r
<1>2. FramesInOrder(s, r)
      <2> SUFFICES ASSUME NEW i \in 1..Len(s) - 1, s[i][2] = FrameLen(s[i][1])
                   PROVE  \E n \in 1..Len(r) - 1 : r[n] = s[i][1] /\ s[i + 1] = <<r[n + 1], 1>>
          BY DEF FramesInOrder
      <2>1. PICK n \in 1..Len(q) - 1 : q[n] = s[i][1] /\ s[i + 1] = <<q[n + 1], 1>>
            BY DEF Stream, FramesInOrder
      <2>2. n \in 1..Len(r) - 1 /\ r[n] = q[n] /\ r[n + 1] = q[n + 1]
            BY <1>1
      <2> QED BY <2>1, <2>2
<1>3. StartsAfter(s, r, d)
      <2>1. s # <<>> => d < Len(r) /\ s[1] = <<r[d + 1], 1>>
            BY <1>1 DEF Stream, StartsAfter
      <2>2. ASSUME NEW i \in 1..Len(s) PROVE \E n \in d + 1..Len(r) : s[i][1] = r[n]
            <3>1. PICK n \in d + 1..Len(q) : s[i][1] = q[n]
                  BY DEF Stream, StartsAfter
            <3>2. n \in d + 1..Len(r) /\ r[n] = q[n]
                  BY <1>1
            <3> QED BY <3>1, <3>2
      <2> QED BY <2>1, <2>2 DEF StartsAfter
<1> QED BY <1>2, <1>3 DEF Stream, r

\* A frame more is locked, behind all that is on the way.
LEMMA FrameAdded ==
    ASSUME NEW s, NEW q \in Seq(Messages), NEW d \in Nat, NEW m \in Messages,
           Stream(s, q, d), EndsWith(s, q, d), d <= Len(q),
           \A i \in 1..Len(q) : q[i] # m
    PROVE  /\ Stream(s \o Frame(m), Append(q, m), d)
           /\ EndsWith(s \o Frame(m), Append(q, m), d)
<1> DEFINE r == Append(q, m)
           t == s \o Frame(m)
           f == FrameLen(m)
           l == Len(s)
<1>1. /\ Len(q) \in Nat /\ Len(r) = Len(q) + 1 /\ (\A n \in 1..Len(q) : r[n] = q[n])
      /\ r[Len(r)] = m
      BY AppendProperties
<1>2. f \in Nat /\ f > 0
      BY Sizes
<1>3. /\ t \in Seq(Byte) /\ Len(t) = l + f /\ l \in Nat
      /\ \A i \in 1..l : t[i] = s[i]
      /\ \A i \in 1..Len(t) : i \in 1..l \/ (i - l \in 1..f /\ t[i] = <<m, i - l>>)
      <2>1. s \in Seq(Byte) /\ Frame(m) \in Seq(Byte) /\ Len(Frame(m)) = f
            BY FrameIs DEF Stream
      <2>2. /\ t \in Seq(Byte) /\ Len(t) = l + f /\ l \in Nat
            /\ \A i \in 1..l : t[i] = s[i]
            /\ \A i \in 1..Len(t) : i \in 1..l \/ (i - l \in 1..f /\ t[i] = Frame(m)[i - l])
            <3> DEFINE x == Frame(m)
            <3>1. s \in Seq(Byte) /\ x \in Seq(Byte) /\ Len(x) = f
                  BY <2>1
            <3> HIDE DEF x, f
            <3>2. /\ s \o x \in Seq(Byte) /\ Len(s \o x) = Len(s) + Len(x) /\ Len(s) \in Nat
                  /\ \A i \in 1..Len(s) : (s \o x)[i] = s[i]
                  /\ \A i \in 1..Len(s \o x) : \/ i \in 1..Len(s) /\ (s \o x)[i] = s[i]
                                               \/ i - Len(s) \in 1..Len(x) /\ (s \o x)[i] = x[i - Len(s)]
                  BY <3>1, Glued
            <3> QED BY <3>1, <3>2 DEF x
      <2> QED BY <2>2, FrameIs
<1>4. \A i \in 1..l : /\ s[i][1] # m /\ s[i][1] \in Messages /\ s[i] \in Byte
                      /\ FrameLen(s[i][1]) \in Nat /\ s[i][2] \in 1..FrameLen(s[i][1])
      <2> SUFFICES ASSUME NEW i \in 1..l
                   PROVE  /\ s[i][1] # m /\ s[i][1] \in Messages /\ s[i] \in Byte
                          /\ FrameLen(s[i][1]) \in Nat /\ s[i][2] \in 1..FrameLen(s[i][1])
          OBVIOUS
      <2>1. PICK n \in d + 1..Len(q) : s[i][1] = q[n]
            BY DEF Stream, StartsAfter
      <2>2. n \in 1..Len(q)
            BY <1>1
      <2>3. s[i] \in Byte
            BY DEF Stream
      <2> QED BY <2>1, <2>2, <2>3, Bytes, Sizes
\* the byte before the frame
<1>5. l > 0 => /\ s[l] = <<q[Len(q)], FrameLen(q[Len(q)])>> /\ Len(q) > 0
               /\ s[l][1] = q[Len(q)] /\ s[l][2] = FrameLen(s[l][1])
      <2> SUFFICES ASSUME l > 0
                   PROVE  s[l] = <<q[Len(q)], FrameLen(q[Len(q)])>> /\ Len(q) > 0
          OBVIOUS
      <2>1. s # <<>>
            BY <1>3
      <2> QED BY <2>1, <1>1 DEF EndsWith, Stream, StartsAfter
<1> HIDE DEF r, t, f
<1>6. FramesWhole(t)
      <2> SUFFICES ASSUME NEW i \in 1..Len(t), NEW j \in 1..Len(t), i <= j,
                          t[i][2] + (j - i) <= FrameLen(t[i][1])
                   PROVE  t[j] = <<t[i][1], t[i][2] + (j - i)>>
          BY DEF FramesWhole
      <2>1. CASE i \in 1..l /\ j \in 1..l
            BY <2>1, <1>3 DEF Stream, FramesWhole
      <2>2. CASE i \in 1..l /\ j \notin 1..l
            <3>1. i <= l /\ l \in 1..l /\ j > l /\ t[i] = s[i]
                  BY <2>2, <1>3
            <3>2. s[i][2] + (l - i) <= FrameLen(s[i][1])
                  BY <3>1, <1>4, <2>2
            <3>3. s[l] = <<s[i][1], s[i][2] + (l - i)>>
                  BY <2>2, <3>1, <3>2 DEF Stream, FramesWhole
            <3>4. s[i][1] = s[l][1] /\ s[i][2] + (l - i) = s[l][2]
                  BY <3>3
            <3>5. s[i][2] + (l - i) = FrameLen(s[i][1])
                  BY <3>4, <3>1, <1>5, <1>3
            <3> QED BY <3>1, <3>5, <1>4, <1>3, <2>2
      <2>3. CASE i \notin 1..l
            <3>1. i - l \in 1..f /\ t[i] = <<m, i - l>> /\ j - l \in 1..f /\ t[j] = <<m, j - l>>
                  BY <2>3, <1>3, <1>2
            <3>2. t[i][1] = m /\ t[i][2] = i - l
                  BY <3>1
            <3>3. (i - l) + (j - i) = j - l
                  BY <1>3
            <3> QED BY <3>1, <3>2, <3>3
      <2> QED BY <2>1, <2>2, <2>3
<1>7. FramesInOrder(t, r)
      <2> SUFFICES ASSUME NEW i \in 1..Len(t) - 1, t[i][2] = FrameLen(t[i][1])
                   PROVE  \E n \in 1..Len(r) - 1 : r[n] = t[i][1] /\ t[i + 1] = <<r[n + 1], 1>>
          BY DEF FramesInOrder
      <2>1. CASE i \in 1..l - 1
            <3>1. t[i] = s[i] /\ t[i + 1] = s[i + 1]
                  BY <2>1, <1>3
            <3>2. PICK n \in 1..Len(q) - 1 : q[n] = s[i][1] /\ s[i + 1] = <<q[n + 1], 1>>
                  BY <2>1, <3>1 DEF Stream, FramesInOrder
            <3>3. n \in 1..Len(r) - 1 /\ r[n] = q[n] /\ r[n + 1] = q[n + 1]
                  BY <1>1
            <3> QED BY <3>1, <3>2, <3>3
      <2>2. CASE i = l
            <3>1. l > 0 /\ t[l] = s[l] /\ t[l + 1] = <<m, 1>>
                  BY <2>2, <1>3, <1>2
            <3>2. Len(q) \in 1..Len(r) - 1 /\ r[Len(q)] = t[l][1] /\ r[Len(q) + 1] = m
                  BY <3>1, <1>1, <1>5
            <3> QED BY <2>2, <3>1, <3>2
      <2>3. CASE i > l
            <3>1. t[i] = <<m, i - l>> /\ i - l < f
                  BY <2>3, <1>3, <1>2
            <3>2. t[i][1] = m /\ t[i][2] = i - l
                  BY <3>1
            <3> QED BY <3>1, <3>2, <1>2, <1>3 DEF f
      <2> QED BY <2>1, <2>2, <2>3, <1>3
<1>8. NoByteTwice(t)
      <2> SUFFICES ASSUME NEW i \in 1..Len(t), NEW j \in 1..Len(t), t[i] = t[j]
                   PROVE  i = j
          BY DEF NoByteTwice
      <2>1. CASE i \in 1..l /\ j \in 1..l
            BY <2>1, <1>3 DEF Stream, NoByteTwice
      <2>2. CASE i \in 1..l /\ j \notin 1..l
            BY <2>2, <1>3, <1>4
      <2>3. CASE i \notin 1..l /\ j \in 1..l
            BY <2>3, <1>3, <1>4
      <2>4. CASE i \notin 1..l /\ j \notin 1..l
            <3>1. i - l = j - l
                  BY <2>4, <1>3
            <3> QED BY <3>1, <1>3
      <2> QED BY <2>1, <2>2, <2>3, <2>4
<1>9. StartsAfter(t, r, d)
      <2>1. d < Len(r)
            BY <1>1
      <2>2. t[1] = <<r[d + 1], 1>>
            <3>1. CASE l > 0
                  BY <3>1, <1>1, <1>3 DEF Stream, StartsAfter
            <3>2. CASE l = 0
                  <4>1. d = Len(q)
                        BY <3>2, <1>3 DEF EndsWith, Stream
                  <4> QED BY <3>2, <4>1, <1>1, <1>2, <1>3
            <3> QED BY <3>1, <3>2, <1>3
      <2>3. ASSUME NEW i \in 1..Len(t) PROVE \E n \in d + 1..Len(r) : t[i][1] = r[n]
            <3>1. CASE i \in 1..l
                  <4>1. PICK n \in d + 1..Len(q) : s[i][1] = q[n]
                        BY <3>1 DEF Stream, StartsAfter
                  <4>2. n \in d + 1..Len(r) /\ r[n] = q[n]
                        BY <1>1
                  <4> QED BY <4>1, <4>2, <3>1, <1>3
            <3>2. CASE i \notin 1..l
                  <4>1. t[i][1] = m
                        BY <3>2, <1>3
                  <4>2. Len(r) \in d + 1..Len(r)
                        BY <1>1
                  <4> QED BY <4>1, <4>2, <1>1
            <3> QED BY <3>1, <3>2
      <2> QED BY <2>1, <2>2, <2>3 DEF StartsAfter
<1>10. EndsWith(t, r, d)
      <2>1. t # <<>> /\ Len(t) - l = f /\ Len(t) \notin 1..l /\ Len(t) \in 1..Len(t)
            BY <1>2, <1>3
      <2>2. t[Len(t)] = <<m, f>>
            BY <2>1, <1>3
      <2> QED BY <2>1, <2>2, <1>1 DEF EndsWith, f
<1> QED BY <1>3, <1>6, <1>7, <1>8, <1>9, <1>10 DEF Stream, r, t

\* The first frame has been read.
LEMMA FrameTaken ==
    ASSUME NEW s, NEW q \in Seq(Messages), NEW d \in Nat, Stream(s, q, d),
           \A i, j \in 1..Len(q) : q[i] = q[j] => i = j,
           NEW m, m = q[d + 1], s # <<>>, FrameLen(m) <= Len(s),
           NEW t \in Seq(Byte), Len(t) = Len(s) - FrameLen(m),
           \A i \in 1..Len(t) : t[i] = s[FrameLen(m) + i]
    PROVE  Stream(t, q, d + 1) /\ (EndsWith(s, q, d) => EndsWith(t, q, d + 1))
<1> DEFINE f == FrameLen(m)
           l == Len(t)
<1>1. Len(s) \in Nat /\ Len(q) \in Nat /\ 1 \in 1..Len(s) /\ l \in Nat
      BY DEF Stream
<1>2. d < Len(q) /\ m \in Messages /\ d + 1 \in 1..Len(q)
      BY <1>1, AtStart
<1>3. f \in Nat /\ f > 0 /\ f \in 1..Len(s)
      BY <1>1, <1>2, Sizes
<1>4. \A i \in 1..f : i \in 1..Len(s) /\ s[i] = <<m, i>>
      BY <1>1, <1>3, AtStart
<1>5. s[f] = <<m, f>> /\ s[f][1] = m /\ s[f][2] = f
      BY <1>3, <1>4
<1>6. Len(s) = f + l /\ \A i \in 1..l : f + i \in 1..Len(s) /\ t[i] = s[f + i]
      BY <1>1, <1>3
\* the frame after it
<1>7. ASSUME l > 0
      PROVE  d + 1 < Len(q) /\ t[1] = <<q[d + 2], 1>>
      <2>1. f \in 1..Len(s) - 1
            BY <1>3, <1>6, <1>7, <1>1
      <2>2. PICK n \in 1..Len(q) - 1 : q[n] = m /\ s[f + 1] = <<q[n + 1], 1>>
            BY <2>1, <1>5 DEF Stream, FramesInOrder
      <2>3. n = d + 1
            BY <2>2, <1>2, <1>1
      <2>4. t[1] = s[f + 1]
            BY <1>6, <1>7, <1>1
      <2> QED BY <2>2, <2>3, <2>4, <1>1
<1> HIDE DEF f
<1>8. FramesWhole(t)
      <2> SUFFICES ASSUME NEW i \in 1..Len(t), NEW j \in 1..Len(t), i <= j,
                          t[i][2] + (j - i) <= FrameLen(t[i][1])
                   PROVE  t[j] = <<t[i][1], t[i][2] + (j - i)>>
          BY DEF FramesWhole
      <2>1. /\ f + i \in 1..Len(s) /\ f + j \in 1..Len(s) /\ f + i <= f + j
            /\ (f + j) - (f + i) = j - i /\ t[i] = s[f + i] /\ t[j] = s[f + j]
            BY <1>1, <1>3, <1>6
      <2>2. s[f + i][2] + ((f + j) - (f + i)) <= FrameLen(s[f + i][1])
            BY <2>1
      <2>3. s[f + j] = <<s[f + i][1], s[f + i][2] + ((f + j) - (f + i))>>
            BY <2>1, <2>2 DEF Stream, FramesWhole
      <2> QED BY <2>1, <2>3
<1>9. FramesInOrder(t, q)
      <2> SUFFICES ASSUME NEW i \in 1..Len(t) - 1, t[i][2] = FrameLen(t[i][1])
                   PROVE  \E n \in 1..Len(q) - 1 : q[n] = t[i][1] /\ t[i + 1] = <<q[n + 1], 1>>
          BY DEF FramesInOrder
      <2>1. /\ f + i \in 1..Len(s) - 1 /\ t[i] = s[f + i] /\ t[i + 1] = s[f + (i + 1)]
            /\ f + (i + 1) = (f + i) + 1
            BY <1>1, <1>3, <1>6
      <2>2. PICK n \in 1..Len(q) - 1 : q[n] = s[f + i][1] /\ s[(f + i) + 1] = <<q[n + 1], 1>>
            BY <2>1 DEF Stream, FramesInOrder
      <2> QED BY <2>1, <2>2
<1>10. NoByteTwice(t)
      <2> SUFFICES ASSUME NEW i \in 1..Len(t), NEW j \in 1..Len(t), t[i] = t[j]
                   PROVE  i = j
          BY DEF NoByteTwice
      <2>1. f + i = f + j
            BY <1>6 DEF Stream, NoByteTwice
      <2> QED BY <2>1, <1>1, <1>3
<1>11. StartsAfter(t, q, d + 1)
      <2>1. t # <<>> => d + 1 < Len(q) /\ t[1] = <<q[(d + 1) + 1], 1>>
            BY <1>7, <1>1
      <2>2. ASSUME NEW i \in 1..Len(t) PROVE \E n \in (d + 1) + 1..Len(q) : t[i][1] = q[n]
            <3>1. f + i \in 1..Len(s) /\ t[i] = s[f + i]
                  BY <1>6
            <3>2. PICK n \in d + 1..Len(q) : s[f + i][1] = q[n]
                  BY <3>1 DEF Stream, StartsAfter
            <3>3. s[f + i][1] # m
                  <4> SUFFICES ASSUME s[f + i][1] = m PROVE FALSE
                      OBVIOUS
                  <4>1. s[f + i] \in Byte
                        BY <3>1 DEF Stream
                  <4>2. PICK p \in 1..f : s[f + i] = <<m, p>>
                        BY <4>1, Bytes DEF f
                  <4>3. s[p] = s[f + i] /\ p \in 1..Len(s)
                        BY <4>2, <1>4
                  <4>4. p = f + i
                        BY <4>3, <3>1 DEF Stream, NoByteTwice
                  <4> QED BY <4>4, <1>1, <1>3
            <3>4. n # d + 1
                  BY <3>2, <3>3
            <3>5. n \in (d + 1) + 1..Len(q)
                  BY <3>2, <3>4, <1>1
            <3> QED BY <3>1, <3>2, <3>5
      <2> QED BY <2>1, <2>2 DEF StartsAfter
<1>12. ASSUME EndsWith(s, q, d) PROVE EndsWith(t, q, d + 1)
      <2>1. s[Len(s)] = <<q[Len(q)], FrameLen(q[Len(q)])>>
            BY <1>12 DEF EndsWith
      <2>2. CASE t = <<>>
            <3>1. Len(s) = f
                  BY <2>2, <1>6, <1>3
            <3>2. s[Len(s)][1] = q[Len(q)]
                  BY <2>1
            <3>3. q[Len(q)] = m /\ Len(q) \in 1..Len(q)
                  BY <3>1, <3>2, <1>5, <1>1, <1>2
            <3>4. Len(q) = d + 1
                  BY <3>3, <1>2
            <3> QED BY <3>4, <2>2 DEF EndsWith
      <2>3. CASE t # <<>>
            <3>1. Len(t) \in 1..Len(t) /\ f + Len(t) = Len(s)
                  BY <2>3, <1>1, <1>6
            <3>2. t[Len(t)] = s[Len(s)]
                  BY <3>1, <1>6
            <3> QED BY <3>2, <2>1, <2>3 DEF EndsWith
      <2> QED BY <2>2, <2>3
<1> QED BY <1>8, <1>9, <1>10, <1>11, <1>12 DEF Stream

-----------------------------------------------------------------------------
(* What is on the way.                                                     *)

Rest == IF up THEN Pending ELSE <<>>

\* No two frames are partly written.
LEMMA PendingIs ==
    ASSUME NEW o, \A x, y \in Messages : o[x] # <<>> /\ o[y] # <<>> => x = y,
           NEW p, p = LET w == {m \in Messages : o[m] # <<>>}
                      IN  IF w = {} THEN <<>> ELSE o[CHOOSE m \in w : TRUE]
    PROVE  /\ \A m \in Messages : o[m] # <<>> => p = o[m]
           /\ (\A m \in Messages : o[m] = <<>>) => p = <<>>
<1> DEFINE w == {m \in Messages : o[m] # <<>>}
           c == CHOOSE m \in w : TRUE
<1>1. p = IF w = {} THEN <<>> ELSE o[c]
      OBVIOUS
<1>2. ASSUME NEW m \in Messages, o[m] # <<>> PROVE p = o[m]
      <2>1. m \in w
            BY <1>2
      <2>2. c \in w
            BY <2>1
      <2>3. c = m
            BY <1>2, <2>2
      <2> QED BY <1>1, <2>1, <2>3
<1>3. ASSUME \A m \in Messages : o[m] = <<>> PROVE p = <<>>
      <2>1. w = {}
            BY <1>3
      <2> QED BY <1>1, <2>1
<1> QED BY <1>2, <1>3

LEMMA OneWriter ==
    ASSUME SendersAgree
    PROVE  \A x, y \in Messages : out[x] # <<>> /\ out[y] # <<>> => x = y
BY DEF SendersAgree

LEMMA RestIs ==
    ASSUME TypeOK, SendersAgree
    PROVE  /\ Rest \in Seq(Byte)
           /\ \A m \in Messages : up /\ out[m] # <<>> => Rest = out[m]
           /\ up /\ (\A m \in Messages : out[m] = <<>>) => Rest = <<>>
<1>1. /\ \A m \in Messages : out[m] # <<>> => Pending = out[m]
      /\ (\A m \in Messages : out[m] = <<>>) => Pending = <<>>
      BY OneWriter, PendingIs DEF Pending
<1>2. Pending \in Seq(Byte)
      <2>1. \A m \in Messages : out[m] \in Seq(Byte)
            BY DEF TypeOK
      <2> QED BY <1>1, <2>1, EmptySeq
<1> QED BY <1>1, <1>2, EmptySeq DEF Rest

\* Of what it consists.
LEMMA Parts ==
    ASSUME TypeOK, SendersAgree
    PROVE  /\ reader.head \in Seq(Byte) /\ reader.body \in Seq(Byte) /\ wire \in Seq(Byte) /\ Rest \in Seq(Byte)
           /\ OnTheWay = ((reader.head \o reader.body) \o wire) \o Rest
           /\ OnTheWay \in Seq(Byte)
BY RestIs DEF TypeOK, OnTheWay, Rest

LEMMA PartsOf ==
    /\ OnTheWay = ((reader.head \o reader.body) \o wire) \o Rest
    /\ OnTheWay' = ((reader'.head \o reader'.body) \o wire') \o Rest'
BY DEF OnTheWay, Rest

\* Where the parts are in it.
LEMMA Places ==
    ASSUME NEW h \in Seq(Byte), NEW b \in Seq(Byte), NEW w \in Seq(Byte), NEW p \in Seq(Byte),
           NEW s, s = ((h \o b) \o w) \o p
    PROVE  /\ s \in Seq(Byte) /\ Len(h) \in Nat /\ Len(b) \in Nat /\ Len(w) \in Nat /\ Len(p) \in Nat
           /\ Len(s) = ((Len(h) + Len(b)) + Len(w)) + Len(p)
           /\ \A i \in 1..Len(h) : s[i] = h[i]
           /\ \A i \in 1..Len(b) : s[Len(h) + i] = b[i]
           /\ \A i \in 1..Len(w) : s[(Len(h) + Len(b)) + i] = w[i]
           /\ \A i \in 1..Len(p) : s[((Len(h) + Len(b)) + Len(w)) + i] = p[i]
<1> DEFINE x == h \o b
           y == x \o w
<1>1. /\ x \in Seq(Byte) /\ Len(x) = Len(h) + Len(b) /\ Len(h) \in Nat /\ Len(b) \in Nat
      /\ \A i \in 1..Len(h) : x[i] = h[i]
      /\ \A i \in 1..Len(b) : x[Len(h) + i] = b[i]
      BY Glued
<1> HIDE DEF x
<1>2. x \in Seq(Byte)
      BY <1>1
<1>3. /\ y \in Seq(Byte) /\ Len(y) = Len(x) + Len(w) /\ Len(w) \in Nat
      /\ \A i \in 1..Len(x) : y[i] = x[i]
      /\ \A i \in 1..Len(w) : y[Len(x) + i] = w[i]
      BY <1>2, Glued
<1>4. s = y \o p
      BY DEF x
<1> HIDE DEF y
<1>5. y \in Seq(Byte)
      BY <1>3
<1>6. /\ y \o p \in Seq(Byte) /\ Len(y \o p) = Len(y) + Len(p) /\ Len(p) \in Nat
      /\ \A i \in 1..Len(y) : (y \o p)[i] = y[i]
      /\ \A i \in 1..Len(p) : (y \o p)[Len(y) + i] = p[i]
      BY <1>5, Glued
<1>7. /\ s \in Seq(Byte) /\ Len(s) = Len(y) + Len(p) /\ Len(p) \in Nat
      /\ \A i \in 1..Len(y) : s[i] = y[i]
      /\ \A i \in 1..Len(p) : s[Len(y) + i] = p[i]
      BY <1>6, <1>4
<1>8. \A i \in 1..Len(h) : i \in 1..Len(x) /\ i \in 1..Len(y)
      BY <1>1, <1>3
<1>9. \A i \in 1..Len(b) : Len(h) + i \in 1..Len(x) /\ Len(h) + i \in 1..Len(y)
      BY <1>1, <1>3
<1>10. \A i \in 1..Len(w) : Len(x) + i \in 1..Len(y)
       BY <1>1, <1>3
<1>11. Len(y) = (Len(h) + Len(b)) + Len(w)
       BY <1>1, <1>3
<1> QED BY <1>1, <1>3, <1>7, <1>8, <1>9, <1>10, <1>11

-----------------------------------------------------------------------------
(* Steps.                                                                  *)

\* A step of the reader that leaves what is on the way alone, or gives up, keeps IInv.
LEMMA ReadKeeps ==
    ASSUME IInv, TypeOK', UNCHANGED <<sender, out, sent, delivered, up>>,
           Reading' => Reading /\ OnTheWay' = OnTheWay, ReaderAgrees', GarbledOnlyBySplitPrefix'
    PROVE  IInv'
<1>1. OrderAgrees' /\ SendersAgree' /\ ErrorsAgree'
      BY DEF IInv, OrderAgrees, SendersAgree, ErrorsAgree, Throttled
<1>2. StreamAgrees'
      BY DEF IInv, StreamAgrees
<1>3. LostAgrees'
      BY DEF IInv, LostAgrees, Lost, Throttled
<1> QED BY <1>1, <1>2, <1>3 DEF IInv

LEMMA RestStays ==
    ASSUME UNCHANGED <<out, up>>
    PROVE  Rest' = Rest
BY DEF Rest, Pending

\* The bytes of the length prefix are taken (cryptobox.go:111-124): as many as have come.
LEMMA ReadPrefixStep ==
    ASSUME IInv, ReadPrefix
    PROVE  IInv'
<1> DEFINE k == Minimum(Prefix, Len(wire))
           a == SubSeq(wire, 1, k)
           m == sent[Len(delivered) + 1]
<1>1. /\ reader.at = "prefix" /\ k > 0 /\ wire' = SubSeq(wire, k + 1, Len(wire))
      /\ UNCHANGED <<sender, out, sent, delivered, up>>
      /\ \E n \in Decoded(a) :
            reader' = IF Refused(k) THEN [reader EXCEPT !.at = "refused"]
                      ELSE [at |-> "body", head |-> a, body |-> <<>>, need |-> n]
      BY DEF ReadPrefix
<1>2. wire \in Seq(Byte) /\ Len(wire) \in Nat /\ Len(wire) <= Buffer
      BY DEF IInv, TypeOK
<1>3. k \in 1..Prefix /\ k \in 0..Len(wire) /\ k \in Nat /\ Prefix \in Nat
      BY <1>1, <1>2, SizeAssumption DEF Minimum
<1>4. /\ a \in Seq(Byte) /\ wire' \in Seq(Byte) /\ Len(a) = k /\ Len(wire') = Len(wire) - k
      /\ \A i \in 1..k : a[i] = wire[i]
      /\ a \o wire' = wire
      <2> HIDE DEF k
      <2> QED BY <1>1, <1>2, <1>3, Cut
<1>5. /\ reader \in [at : {"prefix", "body"} \cup Failed, head : Seq(Byte), body : Seq(Byte), need : Nat]
      /\ reader.head = <<>> /\ reader.body = <<>> /\ Reading
      BY <1>1 DEF IInv, TypeOK, ReaderAgrees, Reading, Failed
<1>6. OnTheWay = ((<<>> \o <<>>) \o wire) \o Rest /\ OnTheWay \in Seq(Byte) /\ Rest \in Seq(Byte)
      BY <1>5, Parts DEF IInv
<1>7. OnTheWay = wire \o Rest
      BY <1>6, <1>2, ConcatEmptySeq, EmptySeq
<1>8. /\ Len(OnTheWay) = Len(wire) + Len(Rest) /\ Len(Rest) \in Nat
      /\ \A i \in 1..Len(wire) : OnTheWay[i] = wire[i]
      BY <1>2, <1>6, <1>7, Glued
<1>9. Stream(OnTheWay, sent, Len(delivered)) /\ sent \in Seq(Messages) /\ Len(delivered) \in Nat
      BY <1>5 DEF IInv, StreamAgrees, TypeOK
<1>10. 1 \in 1..Len(OnTheWay) /\ m \in Messages
      <2>1. 1 \in 1..Len(OnTheWay)
            BY <1>3, <1>8, <1>2
      <2> QED BY <2>1, <1>9, AtStart
<1>11. \A i \in 1..k : a[i] = <<m, i>>
      <2> SUFFICES ASSUME NEW i \in 1..k PROVE a[i] = <<m, i>>
          OBVIOUS
      <2>1. i \in 1..Len(OnTheWay) /\ i <= FrameLen(m) /\ i \in 1..Len(wire)
            BY <1>2, <1>3, <1>8, <1>10, Sizes
      <2>2. OnTheWay[i] = <<m, i>>
            BY <2>1, <1>9, AtStart
      <2> QED BY <2>1, <2>2, <1>4, <1>8
<1> HIDE DEF k, a, m
<1>12. a = SubSeq(Frame(m), 1, Len(a))
      <2>1. Frame(m) \in Seq(Byte) /\ k \in 0..Len(Frame(m)) /\ (\A i \in 1..k : Frame(m)[i] = <<m, i>>)
            BY <1>3, <1>10, FrameIs, Sizes
      <2>2. /\ SubSeq(Frame(m), 1, k) \in Seq(Byte) /\ Len(SubSeq(Frame(m), 1, k)) = k
            /\ \A i \in 1..k : SubSeq(Frame(m), 1, k)[i] = Frame(m)[i]
            BY <2>1, Cut
      <2>3. \A i \in 1..Len(a) : a[i] = SubSeq(Frame(m), 1, k)[i]
            BY <1>4, <1>11, <2>1, <2>2
      <2> QED BY <1>4, <2>2, <2>3, SeqEqual
<1>13. Decoded(a) = {Size[m] % Base^k} /\ a[1][1] = m
      <2>1. a[1] = <<m, 1>>
            BY <1>3, <1>11
      <2>2. Decoded(a) = {Size[a[1][1]] % Base^Len(a)}
            BY <1>10, <1>12 DEF Decoded
      <2> QED BY <2>1, <2>2, <1>4
<1>14. Size[m] % Base^k \in Nat
      <2>1. Base^k \in Nat \ {0} /\ Size[m] \in Nat
            BY <1>3, <1>10, PowersAssumption, Sizes
      <2> DEFINE e == Base^k
      <2>2. e \in Nat \ {0}
            BY <2>1
      <2> HIDE DEF e
      <2>3. Size[m] % e \in Nat
            BY <2>1, <2>2
      <2> QED BY <2>3 DEF e
<1>15. TypeOK' /\ ReaderAgrees' /\ GarbledOnlyBySplitPrefix' /\ (Reading' => OnTheWay' = OnTheWay)
      <2>1. Len(wire') <= Buffer
            BY <1>2, <1>3, <1>4, BufferAssumption
      <2>2. CASE Refused(k)
            <3>1. reader' = [reader EXCEPT !.at = "refused"]
                  BY <1>1, <2>2 DEF a, k
            <3>2. /\ reader' \in [at : {"prefix", "body"} \cup Failed, head : Seq(Byte), body : Seq(Byte), need : Nat]
                  /\ reader'.at = "refused"
                  BY <3>1, <1>5 DEF Failed
            <3>3. TypeOK'
                  BY <3>2, <2>1, <1>1, <1>4 DEF IInv, TypeOK
            <3> QED BY <3>2, <3>3 DEF ReaderAgrees, GarbledOnlyBySplitPrefix, Reading, Failed
      <2>3. CASE ~Refused(k)
            <3>1. reader' = [at |-> "body", head |-> a, body |-> <<>>, need |-> Size[m] % Base^k]
                  BY <1>1, <1>13, <2>3 DEF a, k
            <3>2. /\ reader' \in [at : {"prefix", "body"} \cup Failed, head : Seq(Byte), body : Seq(Byte), need : Nat]
                  /\ reader'.at = "body" /\ reader'.head = a /\ reader'.body = <<>>
                  /\ reader'.need = Size[m] % Base^k
                  BY <3>1, <1>4, <1>14, EmptySeq
            <3>3. TypeOK'
                  BY <3>2, <2>1, <1>1, <1>4 DEF IInv, TypeOK
            <3>4. ReaderAgrees'
                  BY <3>2, <1>3, <1>4, <1>13, <1>14 DEF ReaderAgrees
            <3>5. OnTheWay' = ((a \o <<>>) \o wire') \o Rest
                  BY <3>2, <1>1, RestStays DEF OnTheWay, Rest
            <3>6. (a \o <<>>) \o wire' = wire
                  BY <1>4, ConcatEmptySeq
            <3> QED BY <3>2, <3>3, <3>4, <3>5, <3>6, <1>7 DEF GarbledOnlyBySplitPrefix
      <2> QED BY <2>2, <2>3
<1> QED BY <1>1, <1>5, <1>15, ReadKeeps

\* Bytes of the message are taken (cryptobox.go:127-129).
LEMMA ReadBodyStep ==
    ASSUME IInv, NEW k, ReadBody(k)
    PROVE  IInv'
<1> DEFINE a == SubSeq(wire, 1, k)
<1>1. /\ reader.at = "body" /\ k \in 1..Minimum(reader.need - Len(reader.body), Len(wire))
      /\ wire' = SubSeq(wire, k + 1, Len(wire))
      /\ reader' = IF Refused(k) THEN [reader EXCEPT !.at = "refused"]
                   ELSE [reader EXCEPT !.body = reader.body \o a]
      /\ UNCHANGED <<sender, out, sent, delivered, up>>
      BY DEF ReadBody
<1>2. wire \in Seq(Byte) /\ Len(wire) \in Nat /\ Len(wire) <= Buffer
      BY DEF IInv, TypeOK
<1>3. /\ reader \in [at : {"prefix", "body"} \cup Failed, head : Seq(Byte), body : Seq(Byte), need : Nat]
      /\ reader.head \in Seq(Byte) /\ reader.body \in Seq(Byte) /\ reader.need \in Nat
      /\ Len(reader.body) \in Nat /\ Reading
      BY <1>1 DEF IInv, TypeOK, Reading, Failed
<1>4. k \in 0..Len(wire) /\ k \in Nat /\ k <= reader.need - Len(reader.body)
      BY <1>1, <1>2, <1>3 DEF Minimum
<1>5. /\ a \in Seq(Byte) /\ wire' \in Seq(Byte) /\ Len(a) = k /\ Len(wire') = Len(wire) - k
      /\ a \o wire' = wire
      BY <1>1, <1>2, <1>4, Cut
<1> HIDE DEF a
<1>6. /\ reader.body \o a \in Seq(Byte) /\ Len(reader.body \o a) = Len(reader.body) + k
      BY <1>3, <1>5, Glued
<1>7. Len(wire') <= Buffer
      BY <1>2, <1>4, <1>5, BufferAssumption
<1>8. CASE Refused(k)
      <2>1. /\ reader' \in [at : {"prefix", "body"} \cup Failed, head : Seq(Byte), body : Seq(Byte), need : Nat]
            /\ reader'.at = "refused"
            BY <1>1, <1>3, <1>8 DEF Failed
      <2>2. TypeOK'
            BY <2>1, <1>1, <1>5, <1>7 DEF IInv, TypeOK
      <2>3. ReaderAgrees' /\ GarbledOnlyBySplitPrefix' /\ ~Reading'
            BY <2>1 DEF ReaderAgrees, GarbledOnlyBySplitPrefix, Reading, Failed
      <2> QED BY <1>1, <2>2, <2>3, ReadKeeps
<1>9. CASE ~Refused(k)
      <2>1. /\ reader' \in [at : {"prefix", "body"} \cup Failed, head : Seq(Byte), body : Seq(Byte), need : Nat]
            /\ reader'.at = "body" /\ reader'.head = reader.head /\ reader'.body = reader.body \o a
            /\ reader'.need = reader.need
            BY <1>1, <1>3, <1>6, <1>9
      <2>2. TypeOK'
            BY <2>1, <1>1, <1>5, <1>7 DEF IInv, TypeOK
      <2>3. ReaderAgrees'
            BY <2>1, <1>1, <1>3, <1>4, <1>6 DEF IInv, ReaderAgrees
      <2>4. OnTheWay' = OnTheWay
            <3>1. OnTheWay' = ((reader.head \o (reader.body \o a)) \o wire') \o Rest
                  <4>1. Rest' = Rest
                        BY <1>1, RestStays
                  <4> QED BY <2>1, <4>1, PartsOf
            <3>2. OnTheWay = ((reader.head \o reader.body) \o wire) \o Rest
                  BY PartsOf
            <3>3. /\ reader.head \in Seq(Byte) /\ reader.body \in Seq(Byte)
                  /\ a \in Seq(Byte) /\ wire' \in Seq(Byte) /\ a \o wire' = wire
                  BY <1>3, <1>5
            <3>4. (reader.head \o (reader.body \o a)) \o wire' = (reader.head \o reader.body) \o wire
                  <4>1. PICK h, b, x, w \in Seq(Byte) : h = reader.head /\ b = reader.body /\ x = a /\ w = wire'
                        BY <3>3
                  <4>2. (h \o (b \o x)) \o w = (h \o b) \o (x \o w)
                        <5>1. h \o (b \o x) = (h \o b) \o x
                              BY ConcatAssociative
                        <5>2. h \o b \in Seq(Byte)
                              BY ConcatProperties
                        <5>3. \A z \in Seq(Byte) : (z \o x) \o w = z \o (x \o w)
                              BY ConcatAssociative
                        <5> QED BY <5>1, <5>2, <5>3
                  <4> QED BY <3>3, <4>1, <4>2
            <3> QED BY <3>1, <3>2, <3>4
      <2> QED BY <2>1, <2>2, <2>3, <2>4, <1>1, <1>3, ReadKeeps DEF GarbledOnlyBySplitPrefix
<1> QED BY <1>8, <1>9

\* What was read as a message is a part of the next frame: the bytes behind those
\* that were read as its length, which can only say less than it is.
LEMMA BodyIs ==
    ASSUME IInv, reader.at = "body"
    PROVE  LET m == sent[Len(delivered) + 1]
               h == Len(reader.head)
           IN  /\ m \in Messages /\ Len(delivered) < Len(sent)
               /\ h \in 1..Prefix /\ reader.need = Size[m] % Base^h
               /\ reader.need <= Size[m]
               /\ \A i \in 1..Len(reader.body) : reader.body[i] = <<m, h + i>>
<1> DEFINE m == sent[Len(delivered) + 1]
           h == Len(reader.head)
           b == Len(reader.body)
<1>1. /\ reader.head \in Seq(Byte) /\ reader.body \in Seq(Byte) /\ reader.need \in Nat
      /\ h \in Nat /\ b \in Nat /\ b <= reader.need /\ h \in 1..Prefix
      /\ reader.need = Size[reader.head[1][1]] % Base^h
      BY DEF IInv, TypeOK, ReaderAgrees
<1>2. Reading
      BY DEF Reading, Failed
<1>3. /\ OnTheWay \in Seq(Byte) /\ Len(OnTheWay) \in Nat /\ Len(OnTheWay) >= h + b
      /\ \A i \in 1..h : OnTheWay[i] = reader.head[i]
      /\ \A i \in 1..b : OnTheWay[h + i] = reader.body[i]
      <2>1. /\ OnTheWay \in Seq(Byte) /\ Len(wire) \in Nat /\ Len(Rest) \in Nat
            /\ Len(OnTheWay) = ((h + b) + Len(wire)) + Len(Rest)
            /\ \A i \in 1..h : OnTheWay[i] = reader.head[i]
            /\ \A i \in 1..b : OnTheWay[h + i] = reader.body[i]
            <3>1. /\ wire \in Seq(Byte) /\ Rest \in Seq(Byte)
                  /\ OnTheWay = ((reader.head \o reader.body) \o wire) \o Rest
                  BY Parts DEF IInv
            <3> DEFINE hd == reader.head
                       bd == reader.body
                       s == OnTheWay
            <3>2. hd \in Seq(Byte) /\ bd \in Seq(Byte) /\ s = ((hd \o bd) \o wire) \o Rest
                  BY <1>1, <3>1
            <3> HIDE DEF hd, bd, s
            <3>3. /\ s \in Seq(Byte) /\ Len(wire) \in Nat /\ Len(Rest) \in Nat
                  /\ Len(s) = ((Len(hd) + Len(bd)) + Len(wire)) + Len(Rest)
                  /\ \A i \in 1..Len(hd) : s[i] = hd[i]
                  /\ \A i \in 1..Len(bd) : s[Len(hd) + i] = bd[i]
                  BY <3>1, <3>2, Places
            <3> QED BY <3>3 DEF hd, bd, s
      <2>2. Len(OnTheWay) \in Nat /\ Len(OnTheWay) >= h + b
            <3> DEFINE n == Len(OnTheWay)
                       x == Len(wire)
                       y == Len(Rest)
            <3>1. n = ((h + b) + x) + y /\ x \in Nat /\ y \in Nat /\ h \in Nat /\ b \in Nat
                  BY <2>1, <1>1
            <3> HIDE DEF n, x, y, h, b
            <3> QED BY <3>1 DEF n
      <2> QED BY <2>1, <2>2
<1>4. Stream(OnTheWay, sent, Len(delivered)) /\ sent \in Seq(Messages) /\ Len(delivered) \in Nat
      BY <1>2 DEF IInv, StreamAgrees, TypeOK
<1> HIDE DEF h, b, m
<1>5. Prefix \in Nat /\ 1 \in 1..h /\ 1 \in 1..Len(OnTheWay)
      BY <1>1, <1>3, SizeAssumption
<1>6. Len(delivered) < Len(sent) /\ m \in Messages /\ (1 <= FrameLen(m) => OnTheWay[1] = <<m, 1>>)
      BY <1>4, <1>5, AtStart DEF m
<1>7. /\ FrameLen(m) \in Nat /\ FrameLen(m) = Prefix + Size[m] /\ FrameLen(m) > Prefix
      /\ Size[m] \in Nat
      BY <1>6, Sizes
<1>8. reader.head[1][1] = m
      BY <1>3, <1>5, <1>6, <1>7
<1>9. reader.need = Size[m] % Base^h /\ reader.need <= Size[m]
      <2> DEFINE e == Base^h
      <2>1. e \in Nat \ {0}
            BY <1>1, PowersAssumption
      <2>2. reader.need = Size[m] % e
            BY <1>1, <1>8
      <2> HIDE DEF e
      <2>3. Size[m] % e <= Size[m]
            BY <2>1, <1>7
      <2> QED BY <2>2, <2>3 DEF e
<1>10. \A i \in 1..b : reader.body[i] = <<m, h + i>>
      <2> SUFFICES ASSUME NEW i \in 1..b PROVE reader.body[i] = <<m, h + i>>
          OBVIOUS
      <2>1. h + i \in 1..Len(OnTheWay)
            BY <1>1, <1>3
      <2>2. h + i <= FrameLen(m)
            BY <1>1, <1>5, <1>7, <1>9
      <2>3. OnTheWay[h + i] = <<m, h + i>>
            BY <2>1, <2>2, <1>4, AtStart DEF m
      <2> QED BY <2>3, <1>3
<1> QED BY <1>1, <1>6, <1>9, <1>10 DEF m, h, b

\* A message more is returned (cryptobox.go:131-163): that of the next frame, whole.
LEMMA Delivers ==
    ASSUME IInv, ReadReturns, NEW m \in Messages, reader.body = Sealed(m)
    PROVE  IInv'
<1> DEFINE d == Len(delivered)
           s == OnTheWay
           t == OnTheWay'
<1>1. /\ reader.at = "body" /\ Len(reader.body) = reader.need
      /\ delivered' = Append(delivered, reader.body[1][1]) /\ reader' = AtPrefix
      /\ UNCHANGED <<sender, out, wire, sent, up>>
      BY DEF ReadReturns
<1>2. /\ Len(reader.body) = Size[m] /\ reader.body[1] = <<m, Prefix + 1>> /\ 1 \in 1..Len(reader.body)
      /\ Size[m] \in Nat /\ Prefix \in Nat /\ FrameLen(m) = Prefix + Size[m]
      <2>1. Size[m] \in Nat /\ Size[m] > 0 /\ Prefix \in Nat /\ FrameLen(m) = Prefix + Size[m]
            BY Sizes
      <2>2. Len(Sealed(m)) = Size[m]
            BY <2>1 DEF Sealed
      <2>3. Sealed(m)[1] = <<m, Prefix + 1>>
            BY <2>1 DEF Sealed
      <2> QED BY <2>1, <2>2, <2>3
\* the bytes of the prefix were all there
<1>3. m = sent[d + 1] /\ d < Len(sent) /\ Len(reader.head) = Prefix
      <2>1. /\ sent[d + 1] \in Messages /\ d < Len(sent) /\ Len(reader.head) \in 1..Prefix
            /\ \A i \in 1..Len(reader.body) : reader.body[i] = <<sent[d + 1], Len(reader.head) + i>>
            BY <1>1, BodyIs
      <2>2. <<m, Prefix + 1>> = <<sent[d + 1], Len(reader.head) + 1>>
            BY <1>2, <2>1
      <2> QED BY <2>1, <2>2, <1>2
<1>4. /\ sent \in Seq(Messages) /\ delivered \in Seq(Messages) /\ Len(sent) \in Nat /\ d \in Nat
      /\ delivered' = Append(delivered, m) /\ Len(delivered') = d + 1
      /\ delivered' \in Seq(Messages)
      /\ \A i \in 1..d : delivered'[i] = delivered[i]
      /\ delivered'[d + 1] = m
      <2>1. reader.body[1][1] = m
            BY <1>2
      <2>2. sent \in Seq(Messages) /\ delivered \in Seq(Messages)
            BY DEF IInv, TypeOK
      <2> QED BY <1>1, <2>1, <2>2, AppendProperties
<1>5. reader'.at = "prefix" /\ reader'.head = <<>> /\ reader'.body = <<>> /\ Reading /\ Reading'
      BY <1>1 DEF AtPrefix, Reading, Failed
<1>6. TypeOK'
      <2>1. reader' \in [at : {"prefix", "body"} \cup Failed, head : Seq(Byte), body : Seq(Byte), need : Nat]
            BY <1>1, EmptySeq DEF AtPrefix
      <2> QED BY <1>1, <1>4, <2>1 DEF IInv, TypeOK
<1>7. Stream(s, sent, d) /\ (up => EndsWith(s, sent, d))
      BY <1>5 DEF IInv, StreamAgrees
<1>8. /\ wire \in Seq(Byte) /\ Rest \in Seq(Byte) /\ Len(wire) \in Nat /\ Len(Rest) \in Nat
      /\ s \in Seq(Byte) /\ Len(s) = (FrameLen(m) + Len(wire)) + Len(Rest)
      /\ \A i \in 1..Len(wire) : s[FrameLen(m) + i] = wire[i]
      /\ \A i \in 1..Len(Rest) : s[(FrameLen(m) + Len(wire)) + i] = Rest[i]
      <2> HIDE DEF s
      <2>1. /\ reader.head \in Seq(Byte) /\ reader.body \in Seq(Byte)
            /\ wire \in Seq(Byte) /\ Rest \in Seq(Byte)
            /\ s = ((reader.head \o reader.body) \o wire) \o Rest
            BY Parts DEF IInv, s
      <2> DEFINE h == reader.head
                 b == reader.body
      <2>2. h \in Seq(Byte) /\ b \in Seq(Byte) /\ s = ((h \o b) \o wire) \o Rest /\ Len(h) + Len(b) = FrameLen(m)
            BY <2>1, <1>2, <1>3
      <2> HIDE DEF h, b
      <2>3. /\ s \in Seq(Byte) /\ Len(wire) \in Nat /\ Len(Rest) \in Nat
            /\ Len(s) = ((Len(h) + Len(b)) + Len(wire)) + Len(Rest)
            /\ \A i \in 1..Len(wire) : s[(Len(h) + Len(b)) + i] = wire[i]
            /\ \A i \in 1..Len(Rest) : s[((Len(h) + Len(b)) + Len(wire)) + i] = Rest[i]
            BY <2>1, <2>2, Places
      <2> QED BY <2>1, <2>2, <2>3
<1>9. /\ t \in Seq(Byte) /\ Len(t) = Len(wire) + Len(Rest)
      /\ \A i \in 1..Len(t) : \/ i \in 1..Len(wire) /\ t[i] = wire[i]
                              \/ i - Len(wire) \in 1..Len(Rest) /\ t[i] = Rest[i - Len(wire)]
      <2>1. t = ((<<>> \o <<>>) \o wire) \o Rest
            <3>1. Rest' = Rest
                  BY <1>1, RestStays
            <3> QED BY <1>1, <1>5, <3>1, PartsOf
      <2>2. t = wire \o Rest
            BY <2>1, <1>8, ConcatEmptySeq, EmptySeq
      <2> HIDE DEF t
      <2>3. /\ wire \o Rest \in Seq(Byte) /\ Len(wire \o Rest) = Len(wire) + Len(Rest)
            /\ \A i \in 1..Len(wire \o Rest) :
                  \/ i \in 1..Len(wire) /\ (wire \o Rest)[i] = wire[i]
                  \/ i - Len(wire) \in 1..Len(Rest) /\ (wire \o Rest)[i] = Rest[i - Len(wire)]
            <3>1. wire \in Seq(Byte) /\ Rest \in Seq(Byte)
                  BY <1>8
            <3> QED BY <3>1, Glued
      <2> QED BY <2>2, <2>3
<1> PICK r : r = t
    OBVIOUS
<1> HIDE DEF s, t, d
<1>10. /\ r \in Seq(Byte) /\ Len(r) = Len(s) - FrameLen(m)
       /\ \A i \in 1..Len(r) : r[i] = s[FrameLen(m) + i]
      <2>1. FrameLen(m) \in Nat /\ Len(r) = Len(wire) + Len(Rest)
            BY <1>9, Sizes
      <2>2. ASSUME NEW i \in 1..Len(r) PROVE r[i] = s[FrameLen(m) + i]
            <3>1. CASE i \in 1..Len(wire) /\ r[i] = wire[i]
                  BY <3>1, <1>8
            <3>2. CASE i - Len(wire) \in 1..Len(Rest) /\ r[i] = Rest[i - Len(wire)]
                  <4>1. (FrameLen(m) + Len(wire)) + (i - Len(wire)) = FrameLen(m) + i
                        BY <2>1, <1>8
                  <4> QED BY <3>2, <4>1, <1>8
            <3> QED BY <3>1, <3>2, <1>9
      <2> QED BY <2>1, <2>2, <1>8, <1>9
<1>11. Stream(r, sent, d + 1) /\ (EndsWith(s, sent, d) => EndsWith(r, sent, d + 1))
      <2>1. FrameLen(m) <= Len(s) /\ s # <<>>
            BY <1>8, Sizes
      <2>2. \A i, j \in 1..Len(sent) : sent[i] = sent[j] => i = j
            BY DEF IInv, SendersAgree
      <2>3. m = sent[d + 1] /\ sent \in Seq(Messages) /\ d \in Nat /\ Stream(s, sent, d)
            BY <1>3, <1>4, <1>7 DEF d
      <2> QED BY <2>1, <2>2, <2>3, <1>10, FrameTaken
<1>12. StreamAgrees'
      <2>1. Stream(t, sent, d + 1) /\ (up => EndsWith(t, sent, d + 1))
            BY <1>7, <1>11
      <2>2. /\ Stream(OnTheWay', sent', Len(delivered'))
            /\ up' => EndsWith(OnTheWay', sent', Len(delivered'))
            BY <1>1, <1>4, <2>1 DEF t
      <2> QED BY <2>2 DEF StreamAgrees
\* its last byte was there
<1>13. /\ FrameLen(m) \in 1..Len(s) /\ s[FrameLen(m)] = <<m, FrameLen(m)>> /\ Len(s) \in Nat
      <2>1. FrameLen(m) \in 1..Len(s) /\ Len(s) \in Nat
            <3> DEFINE f == FrameLen(m)
                       x == Len(wire)
                       y == Len(Rest)
                       n == Len(s)
            <3>1. f \in Nat /\ f > 0 /\ x \in Nat /\ y \in Nat /\ n = (f + x) + y
                  BY <1>8, Sizes
            <3> HIDE DEF f, x, y, n
            <3>2. f \in 1..n /\ n \in Nat
                  BY <3>1
            <3> QED BY <3>2 DEF f, n
      <2> QED BY <2>1, <1>3, <1>4, <1>7, AtStart
<1>14. ~Lost(m)
      BY <1>5, <1>13 DEF IInv, LostAgrees, s
<1>15. ASSUME NEW x \in Messages, out[x] # <<>> PROVE d + 1 < Len(sent)
      <2>1. x = sent[Len(sent)] /\ sender[x] = "writing"
            BY <1>15 DEF IInv, SendersAgree
      <2> SUFFICES ASSUME d + 1 = Len(sent) PROVE FALSE
          BY <1>3, <1>4 DEF d
      <2>2. x = m
            BY <2>1, <1>3
      <2>3. up
            BY <1>14, <1>15, <2>2 DEF Lost
      <2>4. Rest = out[m] /\ Rest # <<>>
            BY <1>15, <2>2, <2>3, RestIs DEF IInv
      <2>5. Len(Rest) > 0
            BY <1>8, <2>4, EmptySeq
      <2>6. s # <<>> /\ Len(s) \in 1..Len(s)
            BY <1>13, <1>8
      <2>7. s[Len(s)] = <<m, FrameLen(m)>>
            BY <1>7, <2>1, <2>2, <2>3, <2>6 DEF EndsWith
      <2>8. FrameLen(m) = Len(s)
            BY <1>7, <1>13, <2>6, <2>7 DEF Stream, NoByteTwice
      <2>9. FrameLen(m) \in Nat
            BY Sizes
      <2> QED BY <1>8, <2>5, <2>8, <2>9
<1>16. OrderAgrees'
      <2>1. OrderAgrees
            BY DEF IInv
      <2>2. d + 1 <= Len(sent)
            BY <1>3, <1>4
      <2>3. ASSUME NEW i \in 1..d + 1 PROVE delivered'[i] = sent[i]
            <3>1. i = d + 1 \/ i \in 1..d
                  BY <1>4
            <3> QED BY <3>1, <2>1, <1>3, <1>4 DEF OrderAgrees, d
      <2> QED BY <2>2, <2>3, <1>1, <1>4 DEF OrderAgrees
<1>17. SendersAgree'
      BY <1>1, <1>4, <1>15 DEF IInv, SendersAgree
<1>18. ReaderAgrees' /\ GarbledOnlyBySplitPrefix' /\ ErrorsAgree'
      BY <1>1, <1>5 DEF IInv, ReaderAgrees, GarbledOnlyBySplitPrefix, ErrorsAgree, Throttled
<1>19. LostAgrees'
      <2> SUFFICES ASSUME NEW x \in Messages, Lost(x)'
                   PROVE  /\ \A i \in 1..Len(delivered') : delivered'[i] # x
                          /\ \A i \in 1..Len(r) : r[i] # <<x, FrameLen(x)>>
          BY DEF LostAgrees, t
      <2>1. Lost(x)
            BY <1>1 DEF Lost, Throttled
      <2>2. /\ \A i \in 1..d : delivered[i] # x
            /\ \A i \in 1..Len(s) : s[i] # <<x, FrameLen(x)>>
            BY <2>1, <1>5 DEF IInv, LostAgrees, d, s
      <2>3. x # m
            BY <2>1, <1>14
      <2>4. ASSUME NEW i \in 1..Len(delivered') PROVE delivered'[i] # x
            <3>1. i = d + 1 \/ i \in 1..d
                  BY <1>4
            <3> QED BY <3>1, <2>2, <2>3, <1>4
      <2>5. ASSUME NEW i \in 1..Len(r) PROVE r[i] # <<x, FrameLen(x)>>
            <3>1. FrameLen(m) + i \in 1..Len(s)
                  <4>1. FrameLen(m) \in Nat /\ Len(r) \in Nat
                        BY <1>10, Sizes
                  <4> QED BY <4>1, <1>10, <1>13
            <3> QED BY <3>1, <2>2, <1>10
      <2> QED BY <2>4, <2>5
<1> QED BY <1>6, <1>12, <1>16, <1>17, <1>18, <1>19 DEF IInv

\* The other end of ReadNext: what was read is no message, or cannot be read; or the
\* loop does not come back to read.
LEMMA ReadGivesUp ==
    ASSUME IInv, ReadFails \/ Hangs \/ (ReadReturns /\ ~\E m \in Messages : reader.body = Sealed(m))
    PROVE  IInv'
<1>1. UNCHANGED <<sender, out, wire, sent, delivered, up>>
      BY DEF ReadFails, Hangs, ReadReturns
<1>2. PICK pos \in {"ended", "garbled", "hung"} :
          /\ reader' = [reader EXCEPT !.at = pos]
          /\ pos = "garbled" => reader.at = "body" /\ Len(reader.body) = reader.need
                                /\ ~\E m \in Messages : reader.body = Sealed(m)
      BY DEF ReadFails, Hangs, ReadReturns
<1>3. /\ reader \in [at : {"prefix", "body"} \cup Failed, head : Seq(Byte), body : Seq(Byte), need : Nat]
      /\ reader.body \in Seq(Byte)
      BY DEF IInv, TypeOK
<1>4. /\ reader' \in [at : {"prefix", "body"} \cup Failed, head : Seq(Byte), body : Seq(Byte), need : Nat]
      /\ reader'.at = pos /\ reader'.head = reader.head
      BY <1>2, <1>3 DEF Failed
<1>5. TypeOK'
      BY <1>1, <1>4 DEF IInv, TypeOK
<1>6. pos = "garbled" => Len(reader.head) < Prefix
      <2> SUFFICES ASSUME pos = "garbled", ~(Len(reader.head) < Prefix) PROVE FALSE
          OBVIOUS
      <2> DEFINE m == sent[Len(delivered) + 1]
                 h == Len(reader.head)
      <2>1. /\ m \in Messages /\ h \in 1..Prefix /\ reader.need = Size[m] % Base^h
            /\ \A i \in 1..Len(reader.body) : reader.body[i] = <<m, h + i>>
            BY <1>2, BodyIs
      <2> HIDE DEF m, h
      <2>2. h = Prefix
            BY <2>1, SizeAssumption DEF h
      <2>3. /\ Size[m] \in Nat /\ Size[m] > 0 /\ Size[m] < Base^Prefix /\ Base^Prefix \in Nat
            /\ Prefix \in Nat
            BY <2>1, Sizes
      <2>4. reader.need = Size[m]
            <3> DEFINE e == Base^Prefix
            <3>1. reader.need = Size[m] % e /\ Size[m] < e /\ e \in Nat
                  BY <2>1, <2>2, <2>3
            <3> HIDE DEF e
            <3> QED BY <3>1, <2>3
      <2>5. Len(reader.body) = Size[m]
            BY <1>2, <2>4
      <2>6. Sealed(m) \in Seq(Byte) /\ Len(Sealed(m)) = Size[m] /\ (\A i \in 1..Size[m] : Sealed(m)[i] = <<m, Prefix + i>>)
            <3>1. \A i \in 1..Size[m] : <<m, Prefix + i>> \in Byte
                  BY <2>1, <2>3, Sizes DEF Byte
            <3> QED BY <3>1, <2>3 DEF Sealed
      <2>7. \A i \in 1..Len(reader.body) : reader.body[i] = Sealed(m)[i]
            BY <2>1, <2>2, <2>5, <2>6
      <2>8. reader.body = Sealed(m)
            BY <1>3, <2>5, <2>6, <2>7, SeqEqual
      <2> QED BY <1>2, <2>1, <2>8
<1>7. ReaderAgrees' /\ GarbledOnlyBySplitPrefix' /\ ~Reading'
      BY <1>4, <1>6 DEF ReaderAgrees, GarbledOnlyBySplitPrefix, Reading, Failed
<1> QED BY <1>1, <1>5, <1>7, ReadKeeps

\* A reader that has given up closes the connection (remote_peer.go:581-583).
LEMMA DisconnectStep ==
    ASSUME IInv, Disconnect
    PROVE  IInv'
<1>1. reader.at \in Failed /\ up' = FALSE /\ wire' = <<>> /\ UNCHANGED <<sender, out, reader, sent, delivered>>
      BY DEF Disconnect
<1>2. ~Reading' /\ up
      BY <1>1 DEF Reading, Disconnect
<1>3. TypeOK'
      <2>1. up' \in BOOLEAN
            BY <1>1, Zenon
      <2>2. wire' \in Seq(Byte) /\ Len(wire') <= Buffer
            BY <1>1, EmptySeq, BufferAssumption
      <2> QED BY <1>1, <2>1, <2>2 DEF IInv, TypeOK
<1>4. OrderAgrees' /\ SendersAgree' /\ ErrorsAgree' /\ StreamAgrees'
      BY <1>1, <1>2 DEF IInv, OrderAgrees, SendersAgree, ErrorsAgree, StreamAgrees, Throttled
<1>5. ReaderAgrees' /\ GarbledOnlyBySplitPrefix'
      BY <1>1 DEF IInv, ReaderAgrees, GarbledOnlyBySplitPrefix
<1>6. LostAgrees'
      <2> SUFFICES ASSUME NEW m \in Messages, Lost(m)', NEW i \in 1..Len(delivered), delivered[i] = m
                   PROVE  FALSE
          BY <1>1, <1>2 DEF LostAgrees
      <2>1. out[m] # <<>>
            BY <1>1, <1>2 DEF IInv, ErrorsAgree, Lost, Throttled
      <2>2. sent[Len(sent)] = m /\ Len(delivered) < Len(sent) /\ sent[i] = m
            BY <2>1 DEF IInv, SendersAgree, OrderAgrees
      <2>3. Len(sent) \in 1..Len(sent) /\ i \in 1..Len(sent) /\ i # Len(sent)
            BY <2>2 DEF IInv, TypeOK
      <2> QED BY <2>2, <2>3 DEF IInv, SendersAgree
<1> QED BY <1>3, <1>4, <1>5, <1>6 DEF IInv

\* The connection breaks: of what is on the way, a first part is left.
LEMMA BreakStep ==
    ASSUME IInv, NEW k, ConnectionBreaks(k)
    PROVE  IInv'
<1>1. up /\ up' = FALSE /\ k \in 0..Len(wire) /\ wire' = SubSeq(wire, 1, k) /\ UNCHANGED <<sender, out, reader, sent, delivered>>
      BY DEF ConnectionBreaks
<1>2. /\ wire \in Seq(Byte) /\ Len(wire) \in Nat /\ Len(wire) <= Buffer /\ k \in Nat /\ k <= Len(wire)
      /\ wire' \in Seq(Byte) /\ Len(wire') = k /\ (\A i \in 1..k : wire'[i] = wire[i])
      <2>1. wire \in Seq(Byte) /\ Len(wire) <= Buffer
            BY DEF IInv, TypeOK
      <2> QED BY <2>1, <1>1, Cut
<1>3. TypeOK'
      <2>1. up' \in BOOLEAN
            BY <1>1, Zenon
      <2>2. Len(wire') <= Buffer
            BY <1>2, BufferAssumption
      <2> QED BY <1>1, <1>2, <2>1, <2>2 DEF IInv, TypeOK
<1>4. OrderAgrees' /\ SendersAgree' /\ ErrorsAgree'
      BY <1>1 DEF IInv, OrderAgrees, SendersAgree, ErrorsAgree, Throttled
<1>5. ReaderAgrees' /\ GarbledOnlyBySplitPrefix' /\ (Reading' <=> Reading)
      BY <1>1 DEF IInv, ReaderAgrees, GarbledOnlyBySplitPrefix, Reading
<1>6. /\ OnTheWay' \in Seq(Byte) /\ Len(OnTheWay') + (Len(wire) - k) + Len(Rest) = Len(OnTheWay)
      /\ Len(OnTheWay') \in Nat /\ Len(Rest) \in Nat
      /\ \A i \in 1..Len(OnTheWay') : OnTheWay'[i] = OnTheWay[i]
      <2> DEFINE h == reader.head \o reader.body
      <2>1. /\ reader.head \in Seq(Byte) /\ reader.body \in Seq(Byte) /\ Rest \in Seq(Byte)
            /\ OnTheWay = (h \o wire) \o Rest /\ OnTheWay' = (h \o wire') \o <<>>
            <3>1. Rest' = <<>> /\ reader' = reader
                  BY <1>1 DEF Rest
            <3> QED BY <3>1, Parts, PartsOf DEF IInv
      <2>2. h \in Seq(Byte)
            BY <2>1, Glued
      <2> HIDE DEF h
      <2>3. /\ h \o wire' \in Seq(Byte) /\ Len(h \o wire') = Len(h) + k /\ Len(h) \in Nat
            /\ \A i \in 1..Len(h \o wire') :
                  \/ i \in 1..Len(h) /\ (h \o wire')[i] = h[i]
                  \/ i - Len(h) \in 1..k /\ (h \o wire')[i] = wire'[i - Len(h)]
            BY <2>2, <1>2, Glued
      <2>4. OnTheWay' = h \o wire'
            BY <2>1, <2>3, ConcatEmptySeq
      <2>5. /\ h \o wire \in Seq(Byte) /\ Len(h \o wire) = Len(h) + Len(wire)
            /\ \A i \in 1..Len(h) : (h \o wire)[i] = h[i]
            /\ \A i \in 1..Len(wire) : (h \o wire)[Len(h) + i] = wire[i]
            BY <2>2, <1>2, Glued
      <2> DEFINE g == h \o wire
      <2>6. g \in Seq(Byte) /\ OnTheWay = g \o Rest /\ Rest \in Seq(Byte)
            BY <2>1, <2>5
      <2> HIDE DEF g
      <2>7. /\ Len(g \o Rest) = Len(g) + Len(Rest) /\ Len(Rest) \in Nat /\ Len(g) \in Nat
            /\ \A i \in 1..Len(g) : (g \o Rest)[i] = g[i]
            BY <2>6, Glued
      <2>8. Len(g) = Len(h) + Len(wire)
            BY <2>5 DEF g
      <2>9. ASSUME NEW i \in 1..Len(h \o wire') PROVE (h \o wire')[i] = OnTheWay[i]
            <3>1. i \in 1..Len(g)
                  BY <2>3, <2>8, <1>2
            <3>2. OnTheWay[i] = (h \o wire)[i]
                  BY <3>1, <2>6, <2>7 DEF g
            <3>3. CASE i \in 1..Len(h) /\ (h \o wire')[i] = h[i]
                  BY <3>2, <3>3, <2>5
            <3>4. CASE i - Len(h) \in 1..k /\ (h \o wire')[i] = wire'[i - Len(h)]
                  <4>1. i - Len(h) \in 1..Len(wire) /\ Len(h) + (i - Len(h)) = i
                        BY <3>4, <1>2, <2>3
                  <4> QED BY <3>2, <3>4, <4>1, <2>5, <1>2
            <3> QED BY <3>3, <3>4, <2>3
      <2>10. Len(OnTheWay') = Len(h) + k /\ Len(OnTheWay) = (Len(h) + Len(wire)) + Len(Rest)
            BY <2>3, <2>4, <2>6, <2>7, <2>8
      <2>11. Len(OnTheWay') + (Len(wire) - k) + Len(Rest) = Len(OnTheWay) /\ Len(OnTheWay') \in Nat
            BY <2>10, <2>3, <2>7, <1>2
      <2>12. OnTheWay' \in Seq(Byte) /\ \A i \in 1..Len(OnTheWay') : OnTheWay'[i] = OnTheWay[i]
            BY <2>3, <2>4, <2>9
      <2> QED BY <2>7, <2>11, <2>12
<1> PICK t : t = OnTheWay'
    OBVIOUS
<1> DEFINE s == OnTheWay
<1>7. t \in Seq(Byte) /\ Len(t) <= Len(s) /\ (\A i \in 1..Len(t) : t[i] = s[i]) /\ Len(s) \in Nat
      BY <1>2, <1>6
<1>8. Reading => Stream(s, sent, Len(delivered)) /\ EndsWith(s, sent, Len(delivered))
      BY <1>1 DEF IInv, StreamAgrees
<1> HIDE DEF s
<1>9. StreamAgrees'
      <2> SUFFICES ASSUME Reading PROVE Stream(t, sent, Len(delivered))
          BY <1>1, <1>5 DEF StreamAgrees
      <2> QED BY <1>7, <1>8, StreamBreaks
<1>10. LostAgrees'
      <2> SUFFICES ASSUME NEW m \in Messages, Lost(m)'
                   PROVE  /\ \A i \in 1..Len(delivered) : delivered[i] # m
                          /\ Reading => \A i \in 1..Len(t) : t[i] # <<m, FrameLen(m)>>
          BY <1>1, <1>5 DEF LostAgrees
      <2>1. out[m] # <<>> /\ Rest = out[m]
            BY <1>1, RestIs DEF IInv, ErrorsAgree, Lost, Throttled
      <2>2. sent[Len(sent)] = m /\ Len(delivered) < Len(sent)
            BY <2>1 DEF IInv, SendersAgree
      <2>3. ASSUME NEW i \in 1..Len(delivered), delivered[i] = m PROVE FALSE
            <3>1. sent[i] = m
                  BY <2>3 DEF IInv, OrderAgrees
            <3>2. Len(sent) \in 1..Len(sent) /\ i \in 1..Len(sent) /\ i # Len(sent)
                  BY <2>2 DEF IInv, TypeOK
            <3> QED BY <2>2, <3>1, <3>2 DEF IInv, SendersAgree
      <2>4. ASSUME Reading, NEW i \in 1..Len(t), t[i] = <<m, FrameLen(m)>> PROVE FALSE
            <3>1. Len(Rest) > 0
                  BY <2>1, <1>6, Parts, EmptySeq DEF IInv
            <3>2. Len(t) < Len(s)
                  BY <3>1, <1>2, <1>6 DEF s
            <3>3. s # <<>> /\ i \in 1..Len(s) /\ Len(s) \in 1..Len(s) /\ i # Len(s)
                  BY <3>2, <1>7
            <3>4. s[i] = s[Len(s)]
                  BY <3>3, <2>2, <2>4, <1>7, <1>8 DEF EndsWith
            <3> QED BY <3>3, <3>4, <2>4, <1>8 DEF Stream, NoByteTwice
      <2> QED BY <2>3, <2>4
<1> QED BY <1>3, <1>4, <1>5, <1>9, <1>10 DEF IInv

\* A sender gets the lock (remote_peer.go:245-256): nothing of another frame is left to
\* be written then.
LEMMA LockStep ==
    ASSUME IInv, NEW m \in Messages, Lock(m)
    PROVE  IInv'
<1> DEFINE d == Len(delivered)
           r == Append(sent, m)
<1>1. /\ sender[m] = "idle" /\ (\A q \in Messages : sender[q] # "writing")
      /\ sender' = [sender EXCEPT ![m] = "writing"] /\ out' = [out EXCEPT ![m] = Frame(m)]
      /\ sent' = r /\ UNCHANGED <<wire, reader, delivered, up>>
      BY DEF Lock
<1>2. /\ sender \in [Messages -> {"idle", "writing", "ok", "error"}] /\ out \in [Messages -> Seq(Byte)]
      /\ sent \in Seq(Messages) /\ Len(sent) \in Nat /\ d \in Nat /\ d <= Len(sent)
      BY DEF IInv, TypeOK, OrderAgrees
<1>3. /\ r \in Seq(Messages) /\ Len(r) = Len(sent) + 1 /\ (\A i \in 1..Len(sent) : r[i] = sent[i])
      /\ r[Len(sent) + 1] = m
      BY <1>2, AppendProperties
<1>4. /\ Frame(m) \in Seq(Byte) /\ Len(Frame(m)) > 0 /\ Frame(m) # <<>>
      BY FrameIs, Sizes, EmptySeq
<1>5. /\ sender' \in [Messages -> {"idle", "writing", "ok", "error"}] /\ sender'[m] = "writing"
      /\ \A x \in Messages \ {m} : sender'[x] = sender[x]
      /\ out' \in [Messages -> Seq(Byte)] /\ out'[m] = Frame(m)
      /\ \A x \in Messages \ {m} : out'[x] = out[x]
      BY <1>1, <1>2, <1>4
<1>6. \A x \in Messages : out[x] = <<>>
      BY <1>1 DEF IInv, SendersAgree
<1>7. \A i \in 1..Len(sent) : sent[i] # m
      BY <1>1 DEF IInv, SendersAgree
<1> HIDE DEF r, d
<1>8. TypeOK'
      BY <1>1, <1>3, <1>5 DEF IInv, TypeOK
<1>9. OrderAgrees'
      <2>1. d <= Len(r)
            BY <1>2, <1>3
      <2>2. ASSUME NEW i \in 1..d PROVE delivered[i] = r[i]
            <3>1. i \in 1..Len(sent)
                  BY <1>2
            <3>2. delivered[i] = sent[i]
                  BY DEF IInv, OrderAgrees, d
            <3> QED BY <3>1, <3>2, <1>3
      <2> QED BY <2>1, <2>2, <1>1 DEF OrderAgrees, d
<1>10. SendersAgree'
      <2>1. \A i, j \in 1..Len(r) : r[i] = r[j] => i = j
            <3> SUFFICES ASSUME NEW i \in 1..Len(r), NEW j \in 1..Len(r), r[i] = r[j] PROVE i = j
                OBVIOUS
            <3>1. (i \in 1..Len(sent) \/ i = Len(sent) + 1) /\ (j \in 1..Len(sent) \/ j = Len(sent) + 1)
                  BY <1>2, <1>3
            <3>2. \A x, y \in 1..Len(sent) : sent[x] = sent[y] => x = y
                  BY DEF IInv, SendersAgree
            <3> QED BY <3>1, <3>2, <1>3, <1>7
      <2>2. ASSUME NEW x \in Messages
            PROVE  sender'[x] = "idle" <=> ~\E i \in 1..Len(r) : r[i] = x
            <3>1. CASE x = m
                  <4>1. Len(sent) + 1 \in 1..Len(r)
                        BY <1>2, <1>3
                  <4> QED BY <3>1, <4>1, <1>3, <1>5
            <3>2. CASE x # m
                  <4>1. sender[x] = "idle" <=> ~\E i \in 1..Len(sent) : sent[i] = x
                        BY DEF IInv, SendersAgree
                  <4>2. (\E i \in 1..Len(sent) : sent[i] = x) <=> (\E i \in 1..Len(r) : r[i] = x)
                        <5>1. \A i \in 1..Len(r) : i \in 1..Len(sent) \/ i = Len(sent) + 1
                              BY <1>2, <1>3
                        <5>2. \A i \in 1..Len(sent) : i \in 1..Len(r)
                              BY <1>2, <1>3
                        <5> QED BY <5>1, <5>2, <3>2, <1>3
                  <4> QED BY <4>1, <4>2, <3>2, <1>5
            <3> QED BY <3>1, <3>2
      <2>3. ASSUME NEW x \in Messages, sender'[x] = "writing" PROVE r # <<>> /\ x = r[Len(r)]
            BY <2>3, <1>1, <1>2, <1>3, <1>5, EmptySeq
      <2>4. ASSUME NEW x \in Messages, out'[x] # <<>> PROVE sender'[x] = "writing" /\ d < Len(r)
            BY <2>4, <1>2, <1>3, <1>5, <1>6
      <2> QED BY <2>1, <2>2, <2>3, <2>4, <1>1 DEF SendersAgree, d
<1>11. ReaderAgrees' /\ GarbledOnlyBySplitPrefix'
      BY <1>1 DEF IInv, ReaderAgrees, GarbledOnlyBySplitPrefix
<1>12. ErrorsAgree'
      BY <1>1, <1>5 DEF IInv, ErrorsAgree, Throttled
<1>13. ~up => OnTheWay' = OnTheWay
      BY <1>1 DEF OnTheWay
<1>14. up => OnTheWay' = OnTheWay \o Frame(m)
      <2> SUFFICES ASSUME up PROVE OnTheWay' = OnTheWay \o Frame(m)
          OBVIOUS
      <2>1. Rest = <<>>
            BY <1>6, RestIs DEF IInv
      <2>2. Rest' = Frame(m)
            <3>1. \A x, y \in Messages : out'[x] # <<>> /\ out'[y] # <<>> => x = y
                  BY <1>5, <1>6
            <3> PICK o : o = out'
                OBVIOUS
            <3> PICK p : p = Pending'
                OBVIOUS
            <3>2. p = LET w == {x \in Messages : o[x] # <<>>}
                      IN  IF w = {} THEN <<>> ELSE o[CHOOSE x \in w : TRUE]
                  BY DEF Pending
            <3>3. p = o[m]
                  BY <3>1, <3>2, <1>4, <1>5, PendingIs
            <3> QED BY <3>3, <1>1, <1>5 DEF Rest
      <2> DEFINE h == (reader.head \o reader.body) \o wire
      <2>3. h \in Seq(Byte)
            BY Parts, Glued DEF IInv
      <2>4. OnTheWay = h \o <<>> /\ OnTheWay' = h \o Frame(m)
            BY <1>1, <2>1, <2>2, PartsOf
      <2> HIDE DEF h
      <2> QED BY <2>3, <2>4, ConcatEmptySeq
<1>15. StreamAgrees'
      <2> SUFFICES ASSUME Reading
                   PROVE  /\ Stream(OnTheWay', r, d)
                          /\ up => EndsWith(OnTheWay', r, d)
          BY <1>1 DEF StreamAgrees, Reading, d
      <2>1. Stream(OnTheWay, sent, d) /\ (up => EndsWith(OnTheWay, sent, d))
            BY DEF IInv, StreamAgrees, d
      <2>2. CASE up
            BY <2>1, <2>2, <1>2, <1>7, <1>14, FrameAdded DEF r
      <2>3. CASE ~up
            BY <2>1, <2>3, <1>2, <1>13, StreamStays DEF r
      <2> QED BY <2>2, <2>3
<1>16. LostAgrees'
      <2> SUFFICES ASSUME NEW x \in Messages, Lost(x)'
                   PROVE  /\ \A i \in 1..Len(delivered) : delivered[i] # x
                          /\ Reading => \A i \in 1..Len(OnTheWay) : OnTheWay[i] # <<x, FrameLen(x)>>
          BY <1>1, <1>13 DEF LostAgrees, Lost, Reading
      <2>1. CASE x = m
            <3>1. \A i \in 1..Len(delivered) : delivered[i] # x
                  BY <2>1, <1>2, <1>7 DEF IInv, OrderAgrees, d
            <3>2. ASSUME Reading, NEW i \in 1..Len(OnTheWay) PROVE OnTheWay[i] # <<x, FrameLen(x)>>
                  <4>1. PICK n \in d + 1..Len(sent) : OnTheWay[i][1] = sent[n]
                        BY <3>2 DEF IInv, StreamAgrees, Stream, StartsAfter, d
                  <4>2. n \in 1..Len(sent)
                        BY <1>2
                  <4> QED BY <4>1, <4>2, <2>1, <1>7
            <3> QED BY <3>1, <3>2
      <2>2. CASE x # m
            BY <2>2, <1>1, <1>5 DEF IInv, LostAgrees, Lost, Throttled
      <2> QED BY <2>1, <2>2
<1> QED BY <1>8, <1>9, <1>10, <1>11, <1>12, <1>15, <1>16 DEF IInv

\* The connection takes a part of a frame.
LEMMA WriteSomeStep ==
    ASSUME IInv, NEW m \in Messages, NEW k \in 1..Buffer, WriteSome(m, k)
    PROVE  IInv'
<1> DEFINE taken == SubSeq(out[m], 1, k)
           left == SubSeq(out[m], k + 1, Len(out[m]))
<1>1. /\ up /\ k <= Len(out[m]) /\ Len(wire) + k <= Buffer
      /\ wire' = wire \o taken /\ out' = [out EXCEPT ![m] = left]
      /\ UNCHANGED <<sender, reader, sent, delivered, up>>
      BY DEF WriteSome
<1>2. /\ out \in [Messages -> Seq(Byte)] /\ out[m] \in Seq(Byte) /\ wire \in Seq(Byte)
      /\ k \in Nat /\ k > 0 /\ Len(out[m]) \in Nat /\ Len(wire) \in Nat /\ Buffer \in Nat
      BY BufferAssumption DEF IInv, TypeOK
<1>3. /\ taken \in Seq(Byte) /\ left \in Seq(Byte) /\ Len(taken) = k /\ taken \o left = out[m]
      <2>1. k \in 0..Len(out[m])
            BY <1>1, <1>2
      <2> QED BY <1>2, <2>1, Cut
<1> HIDE DEF taken, left
<1>4. /\ out' \in [Messages -> Seq(Byte)] /\ out'[m] = left
      /\ \A x \in Messages \ {m} : out'[x] = out[x]
      BY <1>1, <1>2, <1>3
<1>5. out[m] # <<>>
      BY <1>1, <1>2, EmptySeq
<1>6. \A x \in Messages \ {m} : out'[x] = <<>>
      BY <1>4, <1>5, OneWriter DEF IInv
<1>7. wire' \in Seq(Byte) /\ Len(wire') <= Buffer
      <2>1. wire \o taken \in Seq(Byte) /\ Len(wire \o taken) = Len(wire) + Len(taken)
            BY <1>2, <1>3, Glued
      <2> QED BY <2>1, <1>1, <1>3
<1>8. TypeOK'
      BY <1>1, <1>4, <1>7 DEF IInv, TypeOK
<1>9. OrderAgrees' /\ ReaderAgrees' /\ GarbledOnlyBySplitPrefix' /\ ErrorsAgree'
      BY <1>1 DEF IInv, OrderAgrees, ReaderAgrees, GarbledOnlyBySplitPrefix, ErrorsAgree, Throttled
<1>10. SendersAgree'
      <2>1. \A x \in Messages : out'[x] # <<>> => out[x] # <<>>
            BY <1>5, <1>6
      <2> QED BY <2>1, <1>1 DEF IInv, SendersAgree
<1>11. OnTheWay' = OnTheWay
      <2>1. Rest = out[m]
            BY <1>1, <1>5, RestIs DEF IInv
      <2>2. Rest' = left
            <3>1. \A x, y \in Messages : out'[x] # <<>> /\ out'[y] # <<>> => x = y
                  BY <1>6
            <3> PICK o : o = out'
                OBVIOUS
            <3> PICK p : p = Pending'
                OBVIOUS
            <3>2. p = LET w == {x \in Messages : o[x] # <<>>}
                      IN  IF w = {} THEN <<>> ELSE o[CHOOSE x \in w : TRUE]
                  BY DEF Pending
            <3>3. /\ \A x \in Messages : o[x] # <<>> => p = o[x]
                  /\ (\A x \in Messages : o[x] = <<>>) => p = <<>>
                  BY <3>1, <3>2, PendingIs
            <3>4. p = left
                  BY <3>3, <1>4, <1>6
            <3> QED BY <3>4, <1>1 DEF Rest
      <2>3. /\ OnTheWay = ((reader.head \o reader.body) \o wire) \o out[m]
            /\ OnTheWay' = ((reader.head \o reader.body) \o (wire \o taken)) \o left
            BY <1>1, <2>1, <2>2, PartsOf
      <2>4. PICK h, w, x, y \in Seq(Byte) :
               h = reader.head \o reader.body /\ w = wire /\ x = taken /\ y = left
            <3>1. reader.head \o reader.body \in Seq(Byte)
                  BY Parts, Glued DEF IInv
            <3> QED BY <3>1, <1>2, <1>3
      <2>5. (h \o (w \o x)) \o y = (h \o w) \o (x \o y)
            <3>1. h \o (w \o x) = (h \o w) \o x
                  BY ConcatAssociative
            <3>2. h \o w \in Seq(Byte)
                  BY ConcatProperties
            <3>3. \A z \in Seq(Byte) : (z \o x) \o y = z \o (x \o y)
                  BY ConcatAssociative
            <3> QED BY <3>1, <3>2, <3>3
      <2>6. OnTheWay = (h \o w) \o (x \o y)
            BY <2>3, <2>4, <1>3, Zenon
      <2>7. OnTheWay' = (h \o (w \o x)) \o y
            BY <2>3, <2>4, Zenon
      <2> QED BY <2>5, <2>6, <2>7, Zenon
<1>12. StreamAgrees'
      BY <1>1, <1>11 DEF IInv, StreamAgrees, Reading
<1>13. LostAgrees'
      BY <1>1 DEF LostAgrees, Lost
<1> QED BY <1>8, <1>9, <1>10, <1>12, <1>13 DEF IInv

\* Write has returned, with or without an error; the lock is given back.
LEMMA WriteEndStep ==
    ASSUME IInv, NEW m \in Messages, WriteFails(m) \/ WriteReturns(m)
    PROVE  IInv'
<1>1. /\ UNCHANGED <<wire, reader, sent, delivered, up>>
      /\ out' = [out EXCEPT ![m] = <<>>] /\ sender[m] = "writing"
      /\ \E end \in {"ok", "error"} :
            /\ sender' = [sender EXCEPT ![m] = end]
            /\ end = "error" => Throttled(m) \/ (~up /\ out[m] # <<>>)
      /\ up => out' = out
      <2>1. out \in [Messages -> Seq(Byte)]
            BY DEF IInv, TypeOK
      <2>2. CASE WriteFails(m)
            BY <2>2 DEF IInv, SendersAgree, WriteFails
      <2>3. CASE WriteReturns(m)
            <3>1. out' = [out EXCEPT ![m] = <<>>]
                  BY <2>1, <2>3 DEF WriteReturns
            <3> QED BY <2>3, <3>1 DEF WriteReturns
      <2> QED BY <2>2, <2>3
<1>2. PICK end \in {"ok", "error"} :
          /\ sender' = [sender EXCEPT ![m] = end]
          /\ end = "error" => Throttled(m) \/ (~up /\ out[m] # <<>>)
      BY <1>1
<1>3. sender \in [Messages -> {"idle", "writing", "ok", "error"}] /\ out \in [Messages -> Seq(Byte)]
      BY DEF IInv, TypeOK
<1>4. /\ sender' \in [Messages -> {"idle", "writing", "ok", "error"}] /\ sender'[m] = end
      /\ \A x \in Messages \ {m} : sender'[x] = sender[x]
      /\ out' \in [Messages -> Seq(Byte)] /\ out'[m] = <<>>
      /\ \A x \in Messages \ {m} : out'[x] = out[x]
      BY <1>1, <1>2, <1>3, EmptySeq
<1>5. TypeOK'
      BY <1>1, <1>4 DEF IInv, TypeOK
<1>6. OrderAgrees' /\ ReaderAgrees' /\ GarbledOnlyBySplitPrefix'
      BY <1>1 DEF IInv, OrderAgrees, ReaderAgrees, GarbledOnlyBySplitPrefix
<1>7. SendersAgree'
      BY <1>1, <1>4 DEF IInv, SendersAgree
<1>8. ErrorsAgree'
      BY <1>1, <1>2, <1>4 DEF IInv, ErrorsAgree, Throttled
<1>9. OnTheWay' = OnTheWay
      <2>1. CASE up
            BY <2>1, <1>1 DEF OnTheWay, Pending
      <2>2. CASE ~up
            BY <2>2, <1>1 DEF OnTheWay
      <2> QED BY <2>1, <2>2
<1>10. StreamAgrees'
      BY <1>1, <1>9 DEF IInv, StreamAgrees, Reading
<1>11. LostAgrees'
      <2> SUFFICES ASSUME NEW x \in Messages, Lost(x)' PROVE Lost(x)
          BY <1>1, <1>9 DEF IInv, LostAgrees, Reading
      <2>1. CASE x = m
            BY <2>1, <1>1, <1>2, <1>4 DEF Lost, Throttled
      <2>2. CASE x # m
            BY <2>2, <1>1, <1>4 DEF Lost, Throttled
      <2> QED BY <2>1, <2>2
<1> QED BY <1>5, <1>6, <1>7, <1>8, <1>10, <1>11 DEF IInv

-----------------------------------------------------------------------------
(* The invariant.                                                          *)

LEMMA InitInv ==
    ASSUME Init
    PROVE  IInv
<1>1. /\ sender = [m \in Messages |-> "idle"] /\ out = [m \in Messages |-> <<>>] /\ wire = <<>>
      /\ reader = AtPrefix /\ sent = <<>> /\ delivered = <<>> /\ up = TRUE
      BY DEF Init
<1>2. /\ <<>> \in Seq(Byte) /\ <<>> \in Seq(Messages)
      /\ Len(sent) = 0 /\ Len(delivered) = 0 /\ Len(wire) = 0
      BY <1>1, EmptySeq
<1>3. TypeOK
      <2>1. up \in BOOLEAN
            BY <1>1, Zenon
      <2>2. reader \in [at : {"prefix", "body"} \cup Failed, head : Seq(Byte), body : Seq(Byte), need : Nat]
            BY <1>1, <1>2 DEF AtPrefix
      <2>3. Len(wire) <= Buffer
            BY <1>2, BufferAssumption
      <2> QED BY <1>1, <1>2, <2>1, <2>2, <2>3 DEF TypeOK
<1>4. OrderAgrees
      BY <1>2 DEF OrderAgrees
<1>5. SendersAgree
      BY <1>1, <1>2 DEF SendersAgree
<1>6. ReaderAgrees /\ GarbledOnlyBySplitPrefix
      BY <1>1 DEF ReaderAgrees, GarbledOnlyBySplitPrefix, AtPrefix
<1>7. LostAgrees /\ ErrorsAgree
      BY <1>1 DEF LostAgrees, ErrorsAgree, Lost
<1>8. OnTheWay = <<>>
      <2>1. Pending = <<>>
            BY <1>1 DEF Pending
      <2>2. OnTheWay = <<>> \o <<>> \o <<>> \o <<>>
            BY <1>1, <2>1 DEF OnTheWay, AtPrefix
      <2> QED BY <2>2, <1>2, ConcatEmptySeq
<1>9. StreamAgrees
      <2>1. OnTheWay \in Seq(Byte) /\ Len(OnTheWay) = 0
            BY <1>2, <1>8, EmptySeq
      <2>2. Stream(OnTheWay, sent, Len(delivered))
            BY <2>1, <1>8 DEF Stream, FramesWhole, FramesInOrder, NoByteTwice, StartsAfter
      <2>3. EndsWith(OnTheWay, sent, Len(delivered))
            BY <1>2, <1>8 DEF EndsWith
      <2> QED BY <2>2, <2>3 DEF StreamAgrees
<1> QED BY <1>3, <1>4, <1>5, <1>6, <1>7, <1>9 DEF IInv

LEMMA NextInv ==
    ASSUME IInv, [Next]_vars
    PROVE  IInv'
<1>1. ASSUME NEW m \in Messages, Lock(m) PROVE IInv'
      BY <1>1, LockStep
<1>2. ASSUME NEW m \in Messages, Writer(m) PROVE IInv'
      <2>1. ASSUME NEW k \in 1..Buffer, WriteSome(m, k) PROVE IInv'
            BY <2>1, WriteSomeStep
      <2>2. CASE WriteFails(m) \/ WriteReturns(m)
            BY <2>2, WriteEndStep
      <2> QED BY <1>2, <2>1, <2>2 DEF Writer
<1>3. CASE Reader
      <2>1. CASE ReadPrefix
            BY <2>1, ReadPrefixStep
      <2>2. ASSUME NEW k \in 1..Buffer, ReadBody(k) PROVE IInv'
            BY <2>2, ReadBodyStep
      <2>3. CASE ReadReturns /\ \E m \in Messages : reader.body = Sealed(m)
            BY <2>3, Delivers
      <2>4. CASE ReadFails \/ (ReadReturns /\ ~\E m \in Messages : reader.body = Sealed(m))
            BY <2>4, ReadGivesUp
      <2>5. CASE Disconnect
            BY <2>5, DisconnectStep
      <2> QED BY <1>3, <2>1, <2>2, <2>3, <2>4, <2>5 DEF Reader
<1>4. ASSUME NEW k \in 0..Buffer, ConnectionBreaks(k) PROVE IInv'
      BY <1>4, BreakStep
<1>6. CASE Hangs
      BY <1>6, ReadGivesUp
<1>5. CASE UNCHANGED vars
      <2>1. UNCHANGED <<sender, out, wire, reader, sent, delivered, up>>
            BY <1>5 DEF vars
      <2>2. TypeOK' /\ OrderAgrees' /\ GarbledOnlyBySplitPrefix' /\ SendersAgree' /\ ReaderAgrees'
            BY <2>1 DEF IInv, TypeOK, OrderAgrees, GarbledOnlyBySplitPrefix, SendersAgree, ReaderAgrees
      <2>3. OnTheWay' = OnTheWay
            BY <2>1 DEF OnTheWay, Pending
      <2>4. StreamAgrees' /\ LostAgrees' /\ ErrorsAgree'
            BY <2>1, <2>3 DEF IInv, StreamAgrees, LostAgrees, ErrorsAgree, Reading, Lost, Throttled
      <2> QED BY <2>2, <2>4 DEF IInv
<1> QED BY <1>1, <1>2, <1>3, <1>4, <1>5, <1>6 DEF Next

\* What the runs check of the channel follows.
LEMMA Consequences ==
    ASSUME IInv
    PROVE  Inv
<1>1. TypeOK /\ GarbledOnlyBySplitPrefix
      BY DEF IInv
<1>2. sent \in Seq(Messages) /\ delivered \in Seq(Messages)
      BY <1>1 DEF TypeOK
<1>3. /\ Len(delivered) \in Nat /\ Len(sent) \in Nat /\ Len(delivered) <= Len(sent)
      /\ \A i \in 1..Len(delivered) : delivered[i] = sent[i]
      BY <1>2 DEF IInv, OrderAgrees
<1>4. DeliveredInOrder
      <2>1. Len(delivered) \in 0..Len(sent)
            BY <1>3
      <2>2. /\ SubSeq(sent, 1, Len(delivered)) \in Seq(Messages)
            /\ Len(SubSeq(sent, 1, Len(delivered))) = Len(delivered)
            /\ \A i \in 1..Len(delivered) : SubSeq(sent, 1, Len(delivered))[i] = sent[i]
            BY <2>1, <1>2, Cut
      <2>3. delivered = SubSeq(sent, 1, Len(delivered))
            BY <2>2, <1>2, <1>3, SeqEqual
      <2> QED BY <2>3, <1>3 DEF DeliveredInOrder
<1>5. FailedIsNotDelivered
      <2> SUFFICES ASSUME NEW i \in 1..Len(delivered), sender[delivered[i]] = "error",
                          ~Throttled(delivered[i])
                   PROVE  FALSE
          BY DEF FailedIsNotDelivered
      <2>1. delivered[i] \in Messages
            BY <1>2
      <2>2. Lost(delivered[i])
            BY <2>1 DEF IInv, ErrorsAgree, Lost
      <2> QED BY <2>1, <2>2 DEF IInv, LostAgrees
<1>6. StreamIsWhole
      <2> DEFINE s == OnTheWay
                 d == Len(delivered)
      <2> SUFFICES ASSUME Reading
                   PROVE  /\ s # <<>> => d < Len(sent) /\ s[1] = <<sent[d + 1], 1>>
                          /\ \A i \in 1..Len(s) - 1 : Follows(s[i], s[i + 1])
                          /\ up => IF s = <<>> THEN delivered = sent
                                   ELSE s[Len(s)] = <<sent[Len(sent)], FrameLen(sent[Len(sent)])>>
          BY DEF StreamIsWhole, Reading
      <2>1. Stream(s, sent, d) /\ (up => EndsWith(s, sent, d))
            BY DEF IInv, StreamAgrees
      <2> HIDE DEF s
      <2>2. s \in Seq(Byte) /\ Len(s) \in Nat
            BY <2>1 DEF Stream
      <2>3. ASSUME NEW i \in 1..Len(s) - 1 PROVE Follows(s[i], s[i + 1])
            <3>1. i \in 1..Len(s) /\ i + 1 \in 1..Len(s)
                  BY <2>2
            <3>2. s[i][1] \in Messages /\ s[i][2] \in 1..FrameLen(s[i][1])
                  BY <3>1, <2>2, Bytes
            <3>3. FrameLen(s[i][1]) \in Nat
                  BY <3>2, Sizes
            <3>4. CASE s[i][2] < FrameLen(s[i][1])
                  <4>1. i <= i + 1 /\ (i + 1) - i = 1 /\ s[i][2] + 1 <= FrameLen(s[i][1])
                        BY <3>1, <3>2, <3>3, <3>4
                  <4>2. s[i + 1] = <<s[i][1], s[i][2] + 1>>
                        BY <4>1, <3>1, <2>1 DEF Stream, FramesWhole
                  <4> QED BY <4>2, <3>4 DEF Follows
            <3>5. CASE ~(s[i][2] < FrameLen(s[i][1]))
                  <4>1. s[i][2] = FrameLen(s[i][1])
                        BY <3>2, <3>3, <3>5
                  <4>2. \E n \in 1..Len(sent) - 1 : sent[n] = s[i][1] /\ s[i + 1] = <<sent[n + 1], 1>>
                        BY <4>1, <2>1 DEF Stream, FramesInOrder
                  <4> QED BY <4>2, <3>5 DEF Follows
            <3> QED BY <3>4, <3>5
      <2>4. ASSUME up
            PROVE  IF s = <<>> THEN delivered = sent
                   ELSE s[Len(s)] = <<sent[Len(sent)], FrameLen(sent[Len(sent)])>>
            <3>1. CASE s = <<>>
                  <4>1. d = Len(sent)
                        BY <2>1, <2>4, <3>1 DEF EndsWith
                  <4>2. delivered = sent
                        BY <4>1, <1>2, <1>3, SeqEqual
                  <4> QED BY <3>1, <4>2
            <3>2. CASE s # <<>>
                  BY <2>1, <2>4, <3>2 DEF EndsWith
            <3> QED BY <3>1, <3>2
      <2> QED BY <2>1, <2>3, <2>4 DEF Stream, StartsAfter
<1> QED BY <1>1, <1>4, <1>5, <1>6 DEF Inv

-----------------------------------------------------------------------------
\* The strengthened invariant holds of every behaviour of cryptobox.go:62-163 and
\* remote_peer.go:229-275.
THEOREM Invariance == Spec => []IInv
<1>1. Init => IInv
      BY InitInv
<1>2. IInv /\ [Next]_vars => IInv'
      BY NextInv
<1> QED BY <1>1, <1>2, PTL DEF Spec

\* The bytes on the way are whole frames in the order of the lock, what is received
\* is a first part of what was sent, a message reported as failed is not received
\* unless the limiter refused it after the fact, and nothing but a split length
\* prefix garbles a frame (remote_peer.go:244-272, cryptobox.go:111-163).
THEOREM ChannelSafe == Spec => []Inv
<1>1. IInv => Inv
      BY Consequences
<1> QED BY <1>1, Invariance, PTL

-----------------------------------------------------------------------------
(* The channel of messages that the rest of a session sees.                *)

\* A message that opens is the next one of those sent.
LEMMA OpensTheNext ==
    ASSUME IInv, reader.at = "body", Len(reader.body) = reader.need,
           NEW m \in Messages, reader.body = Sealed(m)
    PROVE  Len(delivered) < Len(sent) /\ reader.body[1][1] = sent[Len(delivered) + 1]
<1>1. /\ sent[Len(delivered) + 1] \in Messages /\ Len(delivered) < Len(sent)
      /\ \A i \in 1..Len(reader.body) :
            reader.body[i] = <<sent[Len(delivered) + 1], Len(reader.head) + i>>
      BY BodyIs
<1>2. 1 \in 1..Len(reader.body)
      <2>1. Size[m] \in Nat /\ Size[m] > 0
            BY Sizes
      <2>2. Len(Sealed(m)) = Size[m]
            BY <2>1 DEF Sealed
      <2> QED BY <2>1, <2>2
<1>3. reader.body[1] = <<sent[Len(delivered) + 1], Len(reader.head) + 1>>
      BY <1>1, <1>2
<1> QED BY <1>1, <1>3

\* Every step of the bytes sends, delivers, gives the session up, or changes nothing
\* that the messages show.
LEMMA NextImplements ==
    ASSUME IInv, [Next]_vars
    PROVE  [Channel!Next]_<<sent, delivered, Reading>>
<1> USE DEF Reading
<1>1. /\ UNCHANGED <<sent, delivered>> /\ Reading' = Reading
          => [Channel!Next]_<<sent, delivered, Reading>>
      OBVIOUS
<1>2. ASSUME NEW m \in Messages, Lock(m) PROVE Channel!Next
      BY <1>2 DEF Lock, Channel!Next, Channel!Send
<1>3. ASSUME Reading, ~Reading', UNCHANGED <<sent, delivered>> PROVE Channel!Next
      BY <1>3 DEF Channel!Next, Channel!GiveUp
<1>4. ASSUME ReadReturns, NEW m \in Messages, reader.body = Sealed(m) PROVE Channel!Next
      <2>1. /\ reader.at = "body" /\ Len(reader.body) = reader.need
            /\ delivered' = Append(delivered, reader.body[1][1]) /\ reader'.at = "prefix"
            /\ UNCHANGED sent
            BY <1>4 DEF ReadReturns, AtPrefix
      <2>2. Reading /\ Reading'
            BY <2>1 DEF Failed
      <2>3. Len(delivered) < Len(sent) /\ reader.body[1][1] = sent[Len(delivered) + 1]
            BY <1>4, <2>1, OpensTheNext
      <2> QED BY <2>1, <2>2, <2>3 DEF Channel!Next, Channel!Deliver
<1>5. /\ \A m \in Messages : Writer(m) => UNCHANGED <<sent, delivered, reader>>
      /\ Disconnect => UNCHANGED <<sent, delivered, reader>>
      /\ \A k \in 0..Buffer : ConnectionBreaks(k) => UNCHANGED <<sent, delivered, reader>>
      /\ UNCHANGED vars => UNCHANGED <<sent, delivered, reader>>
      BY DEF Writer, WriteSome, WriteFails, WriteReturns, Disconnect, ConnectionBreaks, vars
<1>6. /\ ReadPrefix => Reading /\ UNCHANGED <<sent, delivered>>
      /\ \A k \in 1..Buffer : ReadBody(k) => Reading /\ UNCHANGED <<sent, delivered>>
      /\ ReadFails => Reading /\ UNCHANGED <<sent, delivered>>
      BY DEF ReadPrefix, ReadBody, ReadFails, Failed
<1>7. ReadReturns /\ (~\E m \in Messages : reader.body = Sealed(m))
          => Reading /\ UNCHANGED <<sent, delivered>>
      BY DEF ReadReturns, Failed
<1>8. UNCHANGED reader => Reading' = Reading
      OBVIOUS
<1> SUFFICES ASSUME ~(UNCHANGED <<sent, delivered>> /\ Reading' = Reading) PROVE Channel!Next
    BY <1>1
<1> HIDE DEF Reading
<1>9. (Reading /\ UNCHANGED <<sent, delivered>>) => Channel!Next
      <2> SUFFICES ASSUME Reading, UNCHANGED <<sent, delivered>> PROVE Channel!Next
          OBVIOUS
      <2>1. (Reading \in BOOLEAN) /\ (Reading' \in BOOLEAN)
            BY DEF Reading
      <2>2. ~Reading'
            BY <2>1
      <2> QED BY <1>3, <2>2
<1>10. ~UNCHANGED <<sent, delivered, reader>>
      BY <1>8
<1>11. Hangs => UNCHANGED <<sent, delivered>> /\ (Reading \/ (~Reading /\ ~Reading'))
      <2>1. Hangs => UNCHANGED <<sent, delivered>> /\ reader'.at = "hung"
            BY DEF Hangs, IInv, TypeOK
      <2> QED BY <2>1 DEF Reading, Failed
<1>12. Hangs => Reading
      <2>1. (Reading \in BOOLEAN) /\ (Reading' \in BOOLEAN)
            BY DEF Reading
      <2> QED BY <1>11, <2>1
<1> QED BY <1>2, <1>4, <1>5, <1>6, <1>7, <1>9, <1>10, <1>11, <1>12 DEF Next, Reader

\* The bytes implement the channel of messages, whatever the sizes of the messages,
\* the buffer and the limiters are: what is returned was sent, each once and in the
\* order of the lock, and nothing after the reader gave up or hung (remote_peer.go:229-275,
\* cryptobox.go:62-163).  That messages do arrive is left to the model checker.
THEOREM StepsOfMessageChannel ==
    Spec => Channel!Init /\ [][Channel!Next]_<<sent, delivered, Reading>>
<1>1. Init => Channel!Init
      BY DEF Init, Channel!Init, AtPrefix, Failed
<1>2. IInv /\ [Next]_vars => [Channel!Next]_<<sent, delivered, Reading>>
      BY NextImplements
<1> QED BY <1>1, <1>2, Invariance, PTL DEF Spec
=============================================================================
