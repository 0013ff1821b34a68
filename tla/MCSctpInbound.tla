---------------------------- MODULE MCSctpInbound ----------------------------
(***************************************************************************)
(* Message plans for SctpInbound.  A message of three bytes has two        *)
(* fragments, a shorter one has one (MaxPayload = 2).                      *)
(***************************************************************************)
EXTENDS SctpInbound

Msg(s, len, ord, rtx) ==
    [streamId |-> s, length |-> len, ordered |-> ord, maxRetransmits |-> rtx]

\* One stream, fragmented and short messages.
OneStream == <<Msg(1, 3, TRUE, NoLimit), Msg(1, 1, TRUE, NoLimit), Msg(1, 3, TRUE, NoLimit),
               Msg(1, 1, TRUE, NoLimit), Msg(1, 1, TRUE, NoLimit)>>

\* An ordered and an unordered stream, their TSNs interleaved, with one
\* unreliable message each.
TwoStreams == <<Msg(1, 3, TRUE, 1), Msg(2, 3, FALSE, NoLimit), Msg(1, 1, TRUE, NoLimit),
                Msg(2, 1, FALSE, 1), Msg(1, 3, TRUE, NoLimit)>>

\* Two ordered streams taking turns.
Turns == <<Msg(1, 1, TRUE, NoLimit), Msg(2, 1, TRUE, NoLimit), Msg(1, 1, TRUE, NoLimit)>>

\* An unreliable fragmented message followed by reliable ones.
UnreliableFirst == <<Msg(1, 3, TRUE, 1), Msg(1, 1, TRUE, NoLimit), Msg(1, 1, TRUE, NoLimit)>>

Play(msgs, tsn) == [messages |-> msgs, initialTsn |-> tsn]

\* TSNs inside the space and across its end.
AllScenarios == {Play(TwoStreams, 20), Play(TwoStreams, 97), Play(OneStream, 20)}
TurnsScenario == {Play(Turns, 20)}
UnreliableScenario == {Play(UnreliableFirst, 20)}
DigitScenario == {Play(OneStream, 7)}
=============================================================================
