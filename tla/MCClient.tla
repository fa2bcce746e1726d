------------------------------ MODULE MCClient ------------------------------
\* Three views of the client in one state space: its life (Client), the responses on
\* a connection (Traffic) and the workers' connections (Link).  part chooses at the
\* start which of them takes the steps; the others stay in their first state.
\* Bytes are bits; the frame header has five of them (one before the length field,
\* three of length, one after it).
EXTENDS Client, Traffic, Link, TLC

CONSTANTS h1, h2, w1, c1, c2

VARIABLE part

Header ==
    [LittleEndian |-> FALSE, MaxFrameLen |-> 7, FieldOffset |-> 1, FieldLength |-> 3,
     Adjustment |-> -4, BytesToStrip |-> 0]

\* Big endian, little endian, and a limit that a payload of two exceeds.
MCCfgs ==
    {Header, [Header EXCEPT !.LittleEndian = TRUE], [Header EXCEPT !.MaxFrameLen = 6]}

\* Index 2 is no worker's.
MCRsps == (<<0>> :> 0) @@ (<<1>> :> 1) @@ (<<1, 0>> :> 2) @@ (<<0, 0>> :> -1)

\* A part that takes no steps has panicked before the first.
MCInit ==
    /\ part \in {"life", "responses", "link"}
    /\ ClientStart /\ crashed = (part # "life")
    /\ Start /\ panicked = (part # "link")
    /\ TrafficInit /\ (part # "responses" => tcp /\ cfg = Header)

MCNext ==
    /\ \/ part = "life" /\ ClientNext /\ UNCHANGED <<trafficVars, vars>>
       \/ part = "responses" /\ TrafficNext /\ UNCHANGED <<vars, clientVars>>
       \/ part = "link" /\ Next /\ UNCHANGED <<trafficVars, clientVars>>
    /\ UNCHANGED part

MCSpec ==
    /\ MCInit /\ [][MCNext]_<<vars, trafficVars, part, clientVars>>
    /\ ClientFairness /\ Fairness

OneWorker == <<w1>>

=============================================================================
