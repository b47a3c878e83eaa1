--------------------------- MODULE SecureChannel ----------------------------
(***************************************************************************)
(* One direction of a session below its messages: SendMessage under the    *)
(* lock of the encrypter, the frames of encryption/message.go, the rate    *)
(* limiters, the TCP connection as a bounded stream of bytes, and          *)
(* ReadNextMessage (encryption/cryptobox.go:62-163, util/rate_limiter.go,  *)
(* peer/remote_peer.go:229-275).                                           *)
(*                                                                         *)
(* A frame is the length prefix, least significant digit first, and Size   *)
(* bytes of nonce and ciphertext.  A byte is the frame it belongs to and   *)
(* its place in it.  The cipher authenticates: exactly the nonce and the   *)
(* ciphertext of one frame open to a message.                              *)
(***************************************************************************)
EXTENDS Naturals, Sequences, FiniteSets

CONSTANTS
    Messages,      \* the messages, each sent once by a goroutine of its own
    Size,          \* Size[m]: bytes of nonce and ciphertext
    Prefix,        \* bytes of the length prefix
    Base,          \* values of a byte
    Buffer,        \* bytes the connection holds
    WriteBurst,    \* most bytes of one limited write, 0 for no limiter
    ReadBurst      \* the same for one read

ASSUME SizeAssumption ==
    /\ Prefix \in Nat \ {0} /\ Base \in Nat \ {0, 1}
    /\ Size \in [Messages -> 1..(Base^Prefix - 1)]
\* Arithmetic that the provers do not know, true of every Base above.
ASSUME PowersAssumption == \A k \in 1..Prefix : Base^k \in Nat \ {0}
ASSUME BufferAssumption == Buffer \in Nat \ {0}
ASSUME BurstAssumption == WriteBurst \in Nat /\ ReadBurst \in Nat

VARIABLES
    sender,        \* SendMessage of each message: idle, writing, or what it returned
    out,           \* bytes of each frame that are still to be written
    wire,          \* the bytes in the connection
    reader,        \* ReadNextMessage: position, bytes taken, length that was decoded
    sent,          \* history: the messages in the order of the lock
    delivered,     \* the messages ReceiveMessage returned
    up             \* the connection is open

vars == <<sender, out, wire, reader, sent, delivered, up>>

FrameLen(m) == Prefix + Size[m]

Byte == {b \in Messages \X Nat : b[2] \in 1..FrameLen(b[1])}

Frame(m) == [i \in 1..FrameLen(m) |-> <<m, i>>]

\* What opens to message m: its frame without the prefix.
Sealed(m) == [i \in 1..Size[m] |-> <<m, Prefix + i>>]

\* The receive loop reads no more: ReadNext has returned an error (the connection
\* ended, a limiter refused what was read, or it was no message), or it hangs.
Failed == {"ended", "refused", "garbled", "hung"}

AtPrefix == [at |-> "prefix", head |-> <<>>, body |-> <<>>, need |-> 0]

TypeOK ==
    /\ sender \in [Messages -> {"idle", "writing", "ok", "error"}]
    /\ out \in [Messages -> Seq(Byte)]
    /\ wire \in Seq(Byte)
    /\ Len(wire) <= Buffer
    /\ reader \in [at : {"prefix", "body"} \cup Failed, head : Seq(Byte), body : Seq(Byte), need : Nat]
    /\ sent \in Seq(Messages)
    /\ delivered \in Seq(Messages)
    /\ up \in BOOLEAN

Init ==
    /\ sender = [m \in Messages |-> "idle"]
    /\ out = [m \in Messages |-> <<>>]
    /\ wire = <<>>
    /\ reader = AtPrefix
    /\ sent = <<>>
    /\ delivered = <<>>
    /\ up = TRUE

-----------------------------------------------------------------------------
\* The sender: one Write of the encoded frame, under the lock.

\* Slip: no lock is taken.
Lock_Unlocked(m) ==
    /\ sender[m] = "idle"
    /\ sender' = [sender EXCEPT ![m] = "writing"]
    /\ out' = [out EXCEPT ![m] = Frame(m)]
    /\ sent' = Append(sent, m)
    /\ UNCHANGED <<wire, reader, delivered, up>>

Lock(m) ==
    /\ \A q \in Messages : sender[q] # "writing"
    /\ sender[m] = "idle"
    /\ sender' = [sender EXCEPT ![m] = "writing"]
    /\ out' = [out EXCEPT ![m] = Frame(m)]
    /\ sent' = Append(sent, m)
    /\ UNCHANGED <<wire, reader, delivered, up>>

\* TCP takes as many bytes as it has room for.
WriteSome(m, k) ==
    /\ up
    /\ k <= Len(out[m]) /\ Len(wire) + k <= Buffer
    /\ wire' = wire \o SubSeq(out[m], 1, k)
    /\ out' = [out EXCEPT ![m] = SubSeq(@, k + 1, Len(@))]
    /\ UNCHANGED <<sender, reader, sent, delivered, up>>

\* The connection is gone with a part of the frame unwritten.
WriteFails(m) ==
    /\ ~up
    /\ out[m] # <<>>
    /\ sender' = [sender EXCEPT ![m] = "error"]
    /\ out' = [out EXCEPT ![m] = <<>>]
    /\ UNCHANGED <<wire, reader, sent, delivered, up>>

Throttled(m) == WriteBurst \in 1..FrameLen(m) - 1

\* All is written; a limiter refuses a frame above its burst all the same.
WriteReturns(m) ==
    /\ sender[m] = "writing"
    /\ out[m] = <<>>
    /\ sender' = [sender EXCEPT ![m] = IF Throttled(m) THEN "error" ELSE "ok"]
    /\ UNCHANGED <<out, wire, reader, sent, delivered, up>>

-----------------------------------------------------------------------------
\* The receiver.

Minimum(a, b) == IF a <= b THEN a ELSE b

\* DecodeLengthPrefix of bytes s, followed by zeros.  Other bytes than the start
\* of a frame may say anything.
Decoded(s) ==
    IF \E m \in Messages : s = SubSeq(Frame(m), 1, Len(s))
    THEN {Size[s[1][1]] % Base^Len(s)}
    ELSE 0..(Base^Prefix - 1)

\* A limiter refuses the bytes that it has taken from the connection.
Refused(k) == ReadBurst \in 1..k - 1

\* One Read for the prefix: it returns what has come, if that is less.
ReadPrefix ==
    LET k == Minimum(Prefix, Len(wire))
        s == SubSeq(wire, 1, k)
    IN
    /\ reader.at = "prefix"
    /\ k > 0
    /\ wire' = SubSeq(wire, k + 1, Len(wire))
    /\ \E n \in Decoded(s) :
          reader' = IF Refused(k) THEN [reader EXCEPT !.at = "refused"]
                    ELSE [at |-> "body", head |-> s, body |-> <<>>, need |-> n]
    /\ UNCHANGED <<sender, out, sent, delivered, up>>

\* CopyN reads until it has the length.
ReadBody(k) ==
    /\ reader.at = "body"
    /\ k \in 1..Minimum(reader.need - Len(reader.body), Len(wire))
    /\ wire' = SubSeq(wire, k + 1, Len(wire))
    /\ reader' = IF Refused(k) THEN [reader EXCEPT !.at = "refused"]
                 ELSE [reader EXCEPT !.body = @ \o SubSeq(wire, 1, k)]
    /\ UNCHANGED <<sender, out, sent, delivered, up>>

\* Slip: what does not decrypt is skipped.
ReadReturns_Skips ==
    /\ reader.at = "body"
    /\ Len(reader.body) = reader.need
    /\ reader' = AtPrefix
    /\ delivered' = IF \E m \in Messages : reader.body = Sealed(m)
                    THEN Append(delivered, reader.body[1][1])
                    ELSE delivered
    /\ UNCHANGED <<sender, out, wire, sent, up>>

\* DecodeSecureMessage and OpenAfterPrecomputation.
ReadReturns ==
    /\ reader.at = "body"
    /\ Len(reader.body) = reader.need
    /\ IF \E m \in Messages : reader.body = Sealed(m)
       THEN /\ delivered' = Append(delivered, reader.body[1][1])
            /\ reader' = AtPrefix
       ELSE /\ reader' = [reader EXCEPT !.at = "garbled"]
            /\ UNCHANGED delivered
    /\ UNCHANGED <<sender, out, wire, sent, up>>

ReadFails ==
    /\ reader.at = "prefix" \/ (reader.at = "body" /\ Len(reader.body) < reader.need)
    /\ ~up
    /\ wire = <<>>
    /\ reader' = [reader EXCEPT !.at = "ended"]
    /\ UNCHANGED <<sender, out, wire, sent, delivered, up>>

\* The receive loop does not come back to read, or not to close the connection: it
\* is in the handler of the last message, waiting for a transfer's timer
\* (transfer.go:157-163) or for an answer to be taken by a remote that waits
\* likewise; or in Disconnect, where it removes a transfer from the map that it
\* iterates over, before it closes (remote_peer.go:191-202).
Hangs ==
    /\ \/ reader.at = "prefix" /\ delivered # <<>>
       \/ reader.at \in Failed /\ up
    /\ reader' = [reader EXCEPT !.at = "hung"]
    /\ UNCHANGED <<sender, out, wire, sent, delivered, up>>

\* Slip: the loop ends without Disconnect.
Disconnect_Forgotten ==
    /\ reader.at \in Failed \ {"hung"}
    /\ up
    /\ UNCHANGED vars

\* ReceiveMessages returns and its deferred Disconnect closes the connection.
Disconnect ==
    /\ reader.at \in Failed \ {"hung"}
    /\ up
    /\ up' = FALSE
    /\ wire' = <<>>
    /\ UNCHANGED <<sender, out, reader, sent, delivered>>

\* The connection breaks with k bytes left that the receiver may still read.
ConnectionBreaks(k) ==
    /\ up
    /\ k \in 0..Len(wire)
    /\ up' = FALSE
    /\ wire' = SubSeq(wire, 1, k)
    /\ UNCHANGED <<sender, out, reader, sent, delivered>>

-----------------------------------------------------------------------------
Writer(m) ==
    \/ \E k \in 1..Buffer : WriteSome(m, k)
    \/ WriteFails(m)
    \/ WriteReturns(m)

Reader ==
    \/ ReadPrefix
    \/ \E k \in 1..Buffer : ReadBody(k)
    \/ ReadReturns
    \/ ReadFails
    \/ Disconnect

Next ==
    \/ \E m \in Messages : Lock(m) \/ Writer(m)
    \/ Reader \/ Hangs
    \/ \E k \in 0..Buffer : ConnectionBreaks(k)

\* A reader that does not hang reads on, and a sender writes when there is room.
Fairness == WF_vars(Reader) /\ \A m \in Messages : WF_vars(Writer(m))

Spec == Init /\ [][Next]_vars /\ Fairness

-----------------------------------------------------------------------------
\* The bytes between the last message delivered and the end of what is sent.
Pending == LET w == {m \in Messages : out[m] # <<>>}
           IN  IF w = {} THEN <<>> ELSE out[CHOOSE m \in w : TRUE]

OnTheWay == reader.head \o reader.body \o wire \o (IF up THEN Pending ELSE <<>>)

\* Byte v is the one after byte u in the frames of the messages sent.
Follows(u, v) ==
    IF u[2] < FrameLen(u[1]) THEN v = <<u[1], u[2] + 1>>
    ELSE \E i \in 1..Len(sent) - 1 : sent[i] = u[1] /\ v = <<sent[i + 1], 1>>

\* No two goroutines write at a time, and frames leave whole: what is on the way
\* is what was sent and not yet delivered, byte for byte, with nothing torn,
\* mixed or repeated, up to the point where the connection broke
\* (remote_peer.go:244-256).
StreamIsWhole ==
    reader.at \notin Failed =>
        LET s == OnTheWay IN
        /\ s # <<>> => /\ Len(delivered) < Len(sent)
                       /\ s[1] = <<sent[Len(delivered) + 1], 1>>
        /\ \A i \in 1..Len(s) - 1 : Follows(s[i], s[i + 1])
        /\ up => IF s = <<>> THEN delivered = sent
                 ELSE s[Len(s)] = <<sent[Len(sent)], FrameLen(sent[Len(sent)])>>

\* The messages received are those sent, in the order of the lock, whatever the
\* connection and the limiters do to the stream (cryptobox.go:148-163).
DeliveredInOrder ==
    /\ Len(delivered) <= Len(sent)
    /\ delivered = SubSeq(sent, 1, Len(delivered))

\* A message that SendMessage reports as failed has not arrived and will not,
\* unless the limiter refused it after it was written (remote_peer.go:254-272,
\* rate_limiter.go:75-92).
FailedIsNotDelivered ==
    \A i \in 1..Len(delivered) :
        sender[delivered[i]] = "error" => Throttled(delivered[i])

\* What ReadNext refuses to decrypt was read after a length prefix that came in
\* two pieces: the single Read took the first one, and the rest of the prefix was
\* taken for the nonce.  No other split of the stream, no pause and no size of a
\* message confuses the reader (cryptobox.go:111-145).
GarbledOnlyBySplitPrefix == reader.at = "garbled" => Len(reader.head) < Prefix

Inv ==
    /\ TypeOK
    /\ StreamIsWhole
    /\ DeliveredInOrder
    /\ FailedIsNotDelivered
    /\ GarbledOnlyBySplitPrefix

\* The lock of the encrypter is given back unless the receiver hangs: a sender whose
\* frame does not fit the connection waits for the receiver, and if that gives up,
\* its Disconnect frees the sender (remote_peer.go:191-202, 245-248).
SendReturns ==
    \A m \in Messages : sender[m] = "writing" ~> sender[m] # "writing" \/ reader.at = "hung"

Channel == INSTANCE MessageChannel WITH open <- (reader.at \notin Failed)

ImplementsMessageChannel == Channel!Spec
=============================================================================
