------------------------------ MODULE Traffic ------------------------------
(***************************************************************************)
(* Responses: OnTraffic and onResponse of tglog/client.go on one           *)
(* connection of a V3 client, with the framer.  gnet hands over the bytes  *)
(* of a TCP stream in pieces of any size, or one datagram at a time.       *)
(***************************************************************************)
EXTENDS Framer, SequencesExt

CONSTANTS
    NumWorkers,      \* len(c.workers)
    Cfgs,            \* framer options a caller may choose
    HeaderLen,       \* length of the frame header, options.PayloadBytesToTrip
    Rsps,            \* decoded responses by their bytes: a worker's index, or -1 for a heartbeat
    MaxFrames        \* bound: responses the server sends

ASSUME TrafficAssumption ==
    /\ NumWorkers \in Nat \ {0} /\ MaxFrames \in Nat /\ HeaderLen \in Nat
    /\ \A cfg \in Cfgs : cfg \in LengthFieldCfg /\ Accepts(cfg)

VARIABLES
    tcp, cfg,               \* options: the network, the framer's options
    live,                   \* the workers that are not closed
    sent, wire, inbuf,      \* responses sent, bytes under way, bytes in gnet's buffer
    reading,                \* OnTraffic is running
    stream,                 \* "open", or "closed" by OnTraffic
    handled                 \* what onResponse has done, in order

options == <<tcp, cfg>>
trafficVars == <<options, live, sent, wire, inbuf, reading, stream, handled>>

TrafficInit ==
    /\ tcp \in BOOLEAN /\ cfg \in Cfgs
    /\ live = 0..(NumWorkers - 1)
    /\ sent = <<>> /\ wire = <<>> /\ inbuf = <<>> /\ reading = FALSE
    /\ stream = "open" /\ handled = <<>>

\* The length field, and the frame that EncodeV3Req would write around payload:
\* magic, total length, flags and the rest of the header.
LengthField(n) ==
    LET k == cfg.FieldLength
        digits == [i \in 1..k |-> (n \div Base^(k - i)) % Base]
    IN  IF cfg.LittleEndian THEN Reverse(digits) ELSE digits
Zeros(n) == [i \in 1..n |-> 0]
Frame(payload) ==
    Zeros(cfg.FieldOffset) \o LengthField(HeaderLen + Len(payload))
    \o Zeros(HeaderLen - cfg.FieldOffset - cfg.FieldLength) \o payload

\* The server (external) answers requests.
ServerSends ==
    /\ stream = "open"
    /\ Len(sent) < MaxFrames
    /\ \E p \in DOMAIN Rsps :
         /\ sent' = Append(sent, p)
         /\ wire' = IF tcp THEN wire \o Frame(p) ELSE wire
    /\ UNCHANGED <<options, live, inbuf, reading, stream, handled>>

\* gnet (external) calls OnTraffic after any number of bytes of the TCP stream, ...
Arrive ==
    /\ tcp /\ stream = "open" /\ ~reading
    /\ \E n \in 1..Len(wire) :
         /\ inbuf' = inbuf \o SubSeq(wire, 1, n)
         /\ wire' = SubSeq(wire, n + 1, Len(wire))
    /\ reading' = TRUE
    /\ UNCHANGED <<options, live, sent, stream, handled>>

\* ... or after a datagram; the network loses, repeats and reorders them.
ArriveDatagram ==
    /\ ~tcp /\ ~reading /\ Len(handled) < MaxFrames
    /\ \E p \in Range(sent) : inbuf' = Frame(p)
    /\ reading' = TRUE
    /\ UNCHANGED <<options, live, sent, wire, stream, handled>>

\* onResponse: a log response goes to the worker its batch id names, unless
\* there is none or it is closed.
Nobody == -1
Receiver(p) == IF p \in DOMAIN Rsps /\ Rsps[p] \in live THEN Rsps[p] ELSE Nobody
OnResponse(frame) ==
    LET payload == SubSeq(frame, HeaderLen + 1, Len(frame))
    IN  handled' = Append(handled, [payload |-> payload, to |-> Receiver(payload)])

\* Mutant: everything that was read is discarded with the frame.
DiscardAll(n) == <<>>

\* conn.Discard(n)
Discard(n) == SubSeq(inbuf, n + 1, Len(inbuf))

\* Mutant: one frame per call.
OnTrafficOnce ==
    LET r == ReadFrame(NewLengthField(cfg), inbuf)
    IN  /\ tcp /\ reading
        /\ reading' = FALSE
        /\ IF r.err # "none"
             THEN UNCHANGED <<inbuf, stream, handled>>
             ELSE /\ OnResponse(SubSeq(inbuf, r.offset + 1, r.end))
                  /\ inbuf' = Discard(r.frameLen)
                  /\ UNCHANGED stream
        /\ UNCHANGED <<options, live, sent, wire>>

\* OnTraffic over UDP: what was read is one frame.
OnDatagram ==
    /\ ~tcp /\ reading
    /\ OnResponse(inbuf)
    /\ inbuf' = Discard(Len(inbuf))
    /\ reading' = FALSE
    /\ UNCHANGED <<options, live, sent, wire, stream>>

\* OnTraffic over TCP, one round of its loop per step.
OnTraffic ==
    LET r == ReadFrame(NewLengthField(cfg), inbuf)
    IN  /\ tcp /\ reading
        /\ \/ /\ inbuf = <<>> \/ r.err = "incomplete"
              /\ reading' = FALSE
              /\ UNCHANGED <<inbuf, stream, handled>>
           \/ /\ inbuf # <<>> /\ r.err \notin {"none", "incomplete"}
              /\ reading' = FALSE /\ stream' = "closed"
              /\ UNCHANGED <<inbuf, handled>>
           \/ /\ inbuf # <<>> /\ r.err = "none"
              /\ OnResponse(SubSeq(inbuf, r.offset + 1, r.end))
              /\ inbuf' = Discard(r.frameLen)
              /\ UNCHANGED <<reading, stream>>
        /\ UNCHANGED <<options, live, sent, wire>>

\* A worker is closed meanwhile.
WorkerClosed(w) ==
    /\ w \in live
    /\ live' = live \ {w}
    /\ UNCHANGED <<options, sent, wire, inbuf, reading, stream, handled>>

TrafficNext ==
    \/ ServerSends \/ Arrive \/ ArriveDatagram \/ OnTraffic \/ OnDatagram
    \/ \E w \in live : WorkerClosed(w)

TrafficSpec == TrafficInit /\ [][TrafficNext]_trafficVars

-----------------------------------------------------------------------------
\* Wherever TCP cuts the stream: the responses are handled once, in order and with
\* their own bytes, and the connection is given up only for a response that is longer
\* than MaxFrameLen.  A datagram is handled with its own bytes.
FramesInOrder ==
    /\ IF tcp
         THEN IsPrefix([i \in DOMAIN handled |-> handled[i].payload], sent)
         ELSE \A i \in DOMAIN handled : handled[i].payload \in Range(sent)
    /\ stream = "closed" =>
         /\ Len(handled) < Len(sent)
         /\ Len(Frame(sent[Len(handled) + 1])) > cfg.MaxFrameLen

\* OnTraffic returns only when no complete response is left in the buffer: gnet does
\* not call it again before more bytes arrive.
NoFrameLeft ==
    ~reading /\ stream = "open" =>
        inbuf = <<>> \/ ReadFrame(NewLengthField(cfg), inbuf).err = "incomplete"

=============================================================================
