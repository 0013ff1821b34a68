--------------------------- MODULE MCSctpTransfer ---------------------------
(***************************************************************************)
(* Message plans for SctpTransfer.                                         *)
(***************************************************************************)
EXTENDS SctpTransfer

Msg(s, len, ord, rtx) ==
    [streamId |-> s, length |-> len, ordered |-> ord, maxRetransmits |-> rtx]

\* Full chunks on one reliable ordered stream, the second message in two.
FullChunks == <<Msg(1, 2, TRUE, NoLimit), Msg(1, 4, TRUE, NoLimit), Msg(1, 2, TRUE, NoLimit)>>

\* Four small chunks, all within the first window: the first is struck out
\* by three SACKs and retransmitted before T3 fires.
FourSmall == [i \in 1 .. 4 |-> Msg(1, 1, TRUE, NoLimit)]

\* A fragmented unreliable message at the head, reliable ones behind it.
UnreliableFirst == <<Msg(1, 3, TRUE, 1), Msg(1, 1, TRUE, NoLimit), Msg(1, 1, TRUE, NoLimit)>>

\* A reliable channel and one that gives up after one retransmission.
ReliableAndNot == <<Msg(1, 1, TRUE, NoLimit), Msg(2, 1, FALSE, 1)>>

\* Chunks of different sizes (MaxPayload = 4).
UnevenChunks == <<Msg(1, 1, TRUE, NoLimit), Msg(1, 2, TRUE, NoLimit),
                  Msg(1, 4, TRUE, NoLimit), Msg(1, 1, TRUE, NoLimit)>>

Play(msgs, lost, late, races) ==
    [messages |-> msgs, budget |-> [losses |-> lost, lateAcks |-> late, timerRaces |-> races]]
TwoSmall == SubSeq(FourSmall, 1, 2)
AllScenarios == {Play(FourSmall, 2, 0, 0), Play(FullChunks, 2, 1, 0),
                 Play(UnreliableFirst, 3, 0, 0), Play(TwoSmall, 2, 1, 1)}
StallScenario == {Play(UnevenChunks, 1, 0, 0)}
TimerRaceScenario == {Play(FullChunks, 2, 0, 1)}
ReliableScenario == {Play(ReliableAndNot, 4, 0, 0)}
=============================================================================
