--------------------------- MODULE ShmTransportMC ---------------------------
(* Small instances of ShmTransport.                                         *)
EXTENDS ShmTransport

CONSTANTS t1, n1, d1, OtherChannel

OneTransmitter == {t1}
WithBystander == {t1, n1}
OneDispatcher == {d1}
TwoChannels == {MyChannel, OtherChannel}
TwoBlocks == {0, 1}

\* What was announced is handed over to a dispatcher that keeps up, and every
\* Transmit returns: see ShmTransport.
AnnouncedArrivesAndTransmitEnds == AnnouncedIsHandedOver /\ TransmitEnds
=============================================================================
