----------------------------- MODULE TSMapStream -----------------------------
(***************************************************************************)
(* The map long-poll from the TLS socket up: records, HTTP/2 frames and    *)
(* length-prefixed map messages, none of which line up with each other     *)
(* (TSControlClient, TSControlConn, TSHttp2, TSMap).                       *)
(*                                                                         *)
(* The server cuts its messages into frames and the frames into records as *)
(* it likes, answers the handshake with the first records right behind,    *)
(* pauses anywhere, pings, ends the stream or drops the connection; the    *)
(* client reads in pieces of any size.  A cell stands for a byte: a record *)
(* header is one cell, a frame header two, a length prefix one.            *)
(***************************************************************************)
EXTENDS Integers, Sequences, SequencesExt

CONSTANTS
    Lengths,        \* the length of each map message, a sequence
    MaxFrame,       \* kH2MaxFramePayload
    MaxRecord,      \* kMaxPlaintextPerRecord
    BufSize,        \* sizeof(Http2Conn::fBuf)
    PushbackSize,   \* room behind the Noise response in Handshake's body[256]
    MaxBundle,      \* bound on what the server sends behind its Noise response
    MaxConnections  \* bound on connections

ASSUME MapStreamAssumption ==
    /\ Lengths \in Seq(Nat)
    /\ MaxFrame \in Nat \ {0} /\ MaxRecord \in Nat \ {0}
    /\ MaxRecord <= MaxFrame /\ BufSize \in Nat /\ BufSize >= 2 * MaxFrame
    /\ PushbackSize \in Nat /\ MaxBundle \in Nat /\ MaxConnections \in Nat \ {0}

VARIABLES
    unsent,         \* server: cells of the messages not yet put into frames
    plain,          \* server: cells of frames not yet put into records
    wire,           \* cells sent and not yet read
    over,           \* the server closed, or the connection broke
    phase,          \* handshake, reading, ended or failed
    fPending,       \* ControlConn: read with the Noise response
    part,           \* ControlConn: what of the current record was read
    fBuf, fBufOff,  \* Http2Conn: its buffer, and where the unread part starts
    frame,          \* Http2Conn: the frame whose header was consumed, or NoFrame
    fReqEnded,
    fAcc,           \* MapStream
    delivered,      \* the messages ReadMessage has returned
    connections,
    pausedInside    \* ghost: a pause hit inside a record or a frame

serverVars == <<unsent, plain, over>>
clientVars == <<phase, fPending, part, fBuf, fBufOff, frame, fReqEnded, fAcc>>
mapStreamVars == <<serverVars, wire, clientVars, delivered, connections, pausedInside>>

NoFrame == [type |-> "none", len |-> 0, end |-> FALSE]

Body(m) == <<[is |-> "prefix", of |-> m]>> \o [i \in 1..Lengths[m] |-> [is |-> "body", of |-> m]]
AllMessages == FlattenSeq([m \in DOMAIN Lengths |-> Body(m)])

\* Everything a new connection starts with: Http2Conn::Init, ControlConn::Init,
\* MapStream::Begin.
FreshClient ==
    /\ phase' = "handshake" /\ fPending' = <<>> /\ part' = <<>>
    /\ fBuf' = <<>> /\ fBufOff' = 0 /\ frame' = NoFrame
    /\ fReqEnded' = FALSE /\ fAcc' = <<>>

MapStreamInit ==
    /\ unsent = AllMessages /\ plain = <<>> /\ over = FALSE
    /\ wire = <<>>
    /\ phase = "handshake" /\ fPending = <<>> /\ part = <<>>
    /\ fBuf = <<>> /\ fBufOff = 0 /\ frame = NoFrame /\ fReqEnded = FALSE /\ fAcc = <<>>
    /\ delivered = <<>> /\ connections = 1
    /\ pausedInside = FALSE

-----------------------------------------------------------------------------
(***************************************************************************)
(* The server (external).                                                  *)
(***************************************************************************)
Header(type, n, end) ==
    LET h == [is |-> "frame", frame |-> [type |-> type, len |-> n, end |-> end]]
    IN <<h, [is |-> "frame2"]>>

\* A DATA frame with the next n cells; the last one may end the stream.
ServerData(n) ==
    /\ ~over /\ n <= Len(unsent) /\ plain = <<>>
    /\ \E end \in {FALSE, n = Len(unsent)} :
        plain' = Header("DATA", n, end) \o SubSeq(unsent, 1, n)
    /\ unsent' = SubSeq(unsent, n + 1, Len(unsent))
    /\ UNCHANGED <<over, wire, clientVars, delivered, connections, pausedInside>>

\* SETTINGS, PING, WINDOW_UPDATE; or GOAWAY, RST_STREAM.
ServerControl ==
    /\ ~over /\ plain = <<>> /\ Len(wire) + Len(fBuf) <= 1
    /\ \E type \in {"PING", "GOAWAY"} : plain' = Header(type, 0, FALSE)
    /\ UNCHANGED <<unsent, over, wire, clientVars, delivered, connections, pausedInside>>

\* The next k cells as one record.
ServerRecord(k) ==
    /\ ~over /\ k <= Len(plain) /\ Len(wire) <= MaxRecord
    /\ phase = "handshake" => Len(wire) + k + 1 <= MaxBundle
    /\ wire' = wire \o <<[is |-> "record", len |-> k]>> \o SubSeq(plain, 1, k)
    /\ plain' = SubSeq(plain, k + 1, Len(plain))
    /\ UNCHANGED <<unsent, over, clientVars, delivered, connections, pausedInside>>

ServerCloses ==
    /\ ~over /\ over' = TRUE
    /\ UNCHANGED <<unsent, plain, wire, clientVars, delivered, connections, pausedInside>>

-----------------------------------------------------------------------------
(***************************************************************************)
(* The client.                                                             *)
(***************************************************************************)
\* What Handshake keeps of the n cells read behind the Noise response.
Pushback(n) == SubSeq(wire, 1, IF n < PushbackSize THEN n ELSE PushbackSize)

\* _ReadUpgradeResponse and Handshake: one read takes the response and n cells more.
Handshake ==
    /\ phase = "handshake"
    /\ \E n \in 0..Len(wire) :
        /\ fPending' = Pushback(n)
        /\ wire' = SubSeq(wire, n + 1, Len(wire))
    /\ phase' = "reading"
    /\ UNCHANGED <<serverVars, part, fBuf, fBufOff, frame, fReqEnded, fAcc, delivered,
                   connections, pausedInside>>

Live == SubSeq(fBuf, fBufOff + 1, Len(fBuf))

\* _ReadRaw's need: a frame header, or the payload of the frame begun.
Need == IF frame = NoFrame THEN 2 ELSE frame.len

\* A message in the accumulator, and how many cells it takes.
MessageNeed == IF fAcc = <<>> THEN 1 ELSE 1 + Lengths[fAcc[1].of]

Reading == phase = "reading"
WantsMessage == Reading /\ Len(fAcc) < MessageNeed
WantsRecord == WantsMessage /\ ~fReqEnded /\ Len(Live) < Need
FrameReady == WantsMessage /\ ~fReqEnded /\ Len(Live) >= Need

Fails(cause) == phase' = "failed" /\ pausedInside' = (pausedInside \/ cause)

\* _ReadFull: the pushed back cells first, then the socket, in any pieces.
ReadSome ==
    LET wanted == IF part = <<>> THEN 1 ELSE 1 + part[1].len - Len(part) IN
    /\ WantsRecord /\ wanted > 0
    /\ \E k \in 1..wanted :
        \/ /\ k <= Len(fPending) /\ k = IF wanted < Len(fPending) THEN wanted ELSE Len(fPending)
           /\ part' = part \o SubSeq(fPending, 1, k)
           /\ fPending' = SubSeq(fPending, k + 1, Len(fPending))
           /\ UNCHANGED wire
        \/ /\ fPending = <<>> /\ k <= Len(wire)
           /\ part' = part \o SubSeq(wire, 1, k)
           /\ wire' = SubSeq(wire, k + 1, Len(wire))
           /\ UNCHANGED fPending
    /\ IF Head(part').is = "record" THEN UNCHANGED <<phase, pausedInside>> ELSE Fails(FALSE)
    /\ UNCHANGED <<serverVars, fBuf, fBufOff, frame, fReqEnded, fAcc, delivered, connections>>

\* A timeout here has consumed nothing that could not be read again.
PausesQuietly == part = <<>> /\ frame = NoFrame

\* SO_RCVTIMEO expires.  Between records it is a retry, B_WOULD_BLOCK all the
\* way up to _RunMapSession, unless the frame's header was consumed already.
ReadTimesOut ==
    /\ WantsRecord /\ fPending = <<>> /\ wire = <<>> /\ ~over
    /\ ~PausesQuietly
    /\ Fails(part # <<>> \/ frame # NoFrame)
    /\ UNCHANGED <<serverVars, wire, fPending, part, fBuf, fBufOff, frame, fReqEnded, fAcc,
                   delivered, connections>>

\* The end of the connection is an error to _Fill wherever it comes.
ReadHitsEnd ==
    /\ WantsRecord /\ fPending = <<>> /\ wire = <<>> /\ over
    /\ Fails(FALSE)
    /\ UNCHANGED <<serverVars, wire, fPending, part, fBuf, fBufOff, frame, fReqEnded, fAcc,
                   delivered, connections>>

NeverCompacts == fBuf

\* _Fill moves what is left to the front when another record may not fit.
Compacted == IF fBufOff > 0 /\ Len(fBuf) + MaxFrame > BufSize THEN Live ELSE fBuf

\* ReadRecord returns a whole record, if the buffer has room for it.
TakeRecord ==
    /\ WantsRecord /\ part # <<>> /\ Len(part) = 1 + part[1].len
    /\ LET room == Compacted IN
        IF part[1].len > BufSize - Len(room)
        THEN Fails(FALSE) /\ UNCHANGED <<fBuf, fBufOff>>
        ELSE /\ fBuf' = room \o Tail(part)
             /\ fBufOff' = IF room = fBuf THEN fBufOff ELSE 0
             /\ UNCHANGED <<phase, pausedInside>>
    /\ part' = <<>>
    /\ UNCHANGED <<serverVars, wire, fPending, frame, fReqEnded, fAcc, delivered, connections>>

\* ReadFrame's first half.
TakeHeader ==
    /\ FrameReady /\ frame = NoFrame
    /\ Live[1].is = "frame"
    /\ frame' = Live[1].frame
    /\ fBufOff' = fBufOff + 2
    /\ UNCHANGED <<serverVars, wire, phase, fPending, part, fBuf, fReqEnded, fAcc,
                   delivered, connections, pausedInside>>

\* The second half, and what ReadBody makes of the frame.  A DATA frame with
\* nothing in it ends the stream for _FillAtLeast, as the real end does.
TakeFrame ==
    /\ FrameReady /\ frame # NoFrame
    /\ frame' = NoFrame
    /\ fBufOff' = fBufOff + frame.len
    /\ fAcc' = IF frame.type = "DATA" THEN fAcc \o SubSeq(Live, 1, frame.len) ELSE fAcc
    /\ fReqEnded' = (frame.type = "DATA" /\ frame.end)
    /\ CASE frame.type = "GOAWAY" -> Fails(FALSE)
         [] frame.type = "DATA" /\ frame.len = 0 ->
                /\ phase' = IF fAcc = <<>> THEN "ended" ELSE "failed"
                /\ UNCHANGED pausedInside
         [] OTHER -> UNCHANGED <<phase, pausedInside>>
    /\ UNCHANGED <<serverVars, wire, fPending, part, fBuf, delivered, connections>>

\* The stream has ended and the accumulator does not hold a message.
StreamEnds ==
    /\ WantsMessage /\ fReqEnded
    /\ phase' = IF fAcc = <<>> THEN "ended" ELSE "failed"
    /\ UNCHANGED <<serverVars, wire, fPending, part, fBuf, fBufOff, frame, fReqEnded, fAcc,
                   delivered, connections, pausedInside>>

LeavesPrefix ==
    /\ Reading /\ fAcc # <<>> /\ Len(fAcc) >= MessageNeed
    /\ delivered' = Append(delivered, SubSeq(fAcc, 1, MessageNeed))
    /\ fAcc' = SubSeq(fAcc, MessageNeed, Len(fAcc))
    /\ UNCHANGED <<serverVars, wire, phase, fPending, part, fBuf, fBufOff, frame, fReqEnded,
                   connections, pausedInside>>

\* ReadMessage returns one.
ReadMessage ==
    /\ Reading /\ fAcc # <<>> /\ Len(fAcc) >= MessageNeed
    /\ delivered' = Append(delivered, SubSeq(fAcc, 1, MessageNeed))
    /\ fAcc' = SubSeq(fAcc, MessageNeed + 1, Len(fAcc))
    /\ UNCHANGED <<serverVars, wire, phase, fPending, part, fBuf, fBufOff, frame, fReqEnded,
                   connections, pausedInside>>

\* _RunMap opens the next connection, and control starts from a snapshot.
Reestablish ==
    /\ phase \in {"ended", "failed"} /\ connections < MaxConnections
    /\ connections' = connections + 1
    /\ FreshClient
    /\ unsent' = AllMessages /\ plain' = <<>> /\ over' = FALSE /\ wire' = <<>>
    /\ delivered' = <<>> /\ pausedInside' = FALSE

MapStreamNext ==
    \/ \E n \in 0..MaxFrame : ServerData(n)
    \/ \E k \in 1..MaxRecord : ServerRecord(k)
    \/ ServerControl \/ ServerCloses
    \/ Handshake \/ ReadSome \/ ReadTimesOut \/ ReadHitsEnd
    \/ TakeRecord \/ TakeHeader \/ TakeFrame \/ StreamEnds \/ ReadMessage \/ Reestablish

-----------------------------------------------------------------------------
(***************************************************************************)
(* Properties.                                                             *)
(***************************************************************************)
\* However the server's bytes are cut up, pushed back and buffered, ReadMessage
\* returns the messages of this connection whole, in order and once each.
MessagesIntact ==
    /\ Len(delivered) <= Len(Lengths)
    /\ \A i \in DOMAIN delivered : delivered[i] = Body(i)

\* A stream that fails has a cause: the server closed, sent GOAWAY or an empty
\* frame in mid-message, or paused inside a record or a frame.  No cut of the
\* bytes and no pause between records breaks it.
FailsForCause ==
    phase = "failed" =>
        \/ over \/ pausedInside
        \/ \E f \in {"GOAWAY", "DATA"} : fBuf # <<>> /\ fBufOff >= 2
            /\ fBuf[fBufOff] = [is |-> "frame2"] /\ fBuf[fBufOff - 1].frame.type = f
=============================================================================
