----------------------------- MODULE MCWorkerV1 -----------------------------
\* V1 for TLC, over TCP (the instance EXTENDS brings, IsTCP is TRUE in the
\* configuration) or over UDP: udp says which worker this behaviour is about.
EXTENDS MCWorker

VARIABLE udp

UDP == INSTANCE Worker WITH IsTCP <- FALSE

V1Init == Init /\ udp \in BOOLEAN

V1Next ==
    /\ IF udp THEN UDP!Next ELSE Next
    /\ UNCHANGED udp

V1Spec == V1Init /\ [][V1Next]_<<vars, udp>>

\* UDP: when closeAll has set stateClosed, every message that was put into
\* dataChan has had its callback (handleClose waits for nothing else).
UDPClosedMeansCompleted == udp => ClosedMeansCompleted

\* UDP: every batch of handleSendData fits a datagram of V1.
UDPBatchFits == udp => UDP!BatchFitsTransport

=============================================================================
