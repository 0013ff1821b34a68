----------------------------- MODULE ReceiverTwcc -----------------------------
(***************************************************************************)
(* ReceiverTWCC of packages/webrtc/src/media/receiver/receiverTwcc.ts: it  *)
(* tells the sender which transport-wide numbers arrived.                  *)
(*                                                                         *)
(* The generator is [info, next, high, sent]: extensionInfo, nextReportExt,*)
(* highestRecvExt and the windows this call sends. An entry is [ext, wide];*)
(* wide, the true number, is not looked at.                                *)
(***************************************************************************)
EXTENDS Integers, Sequences, FiniteSets, SequencesExt, OrderedSets

CONSTANTS
    Mod,          \* TWCC_SEQ_MOD
    MaxSpan,      \* MAX_FEEDBACK_SPAN
    MaxBuffered   \* 10: more than this and feedback is sent at once

NoNumber == -Mod  \* undefined

Silent == [info |-> {}, next |-> NoNumber, high |-> NoNumber, sent |-> <<>>]

(* Mutant of unwrapTsn: a number below the highest is always late.         *)
unwrapTsnFlat(t, tsn) == IF t.high = NoNumber THEN tsn ELSE t.high - (t.high % Mod) + tsn

(* The number nearest to the highest one received.                         *)
unwrapTsn(t, tsn) ==
    LET delta == (tsn - (t.high % Mod) + Mod) % Mod
    IN  IF t.high = NoNumber THEN tsn
        ELSE IF delta > Mod \div 2 THEN t.high + delta - Mod
        ELSE t.high + delta

(* One more number, in ascending order: it belongs to the open window or   *)
(* begins the next one, at the cursor unless the gap alone fills a window. *)
Extend(acc, x) ==
    IF acc.open /\ x - acc.base < MaxSpan THEN [acc EXCEPT !.last = x]
    ELSE LET cursor == IF acc.open THEN acc.last + 1 ELSE acc.cursor
         IN  [open |-> TRUE, cursor |-> cursor, last |-> x,
              base |-> IF cursor # NoNumber /\ x - cursor < MaxSpan THEN cursor ELSE x,
              windows |-> IF acc.open THEN Append(acc.windows, [base |-> acc.base, last |-> acc.last])
                          ELSE acc.windows]

(* What is not behind the cursor.                                          *)
Pending(t) == {e \in t.info : t.next = NoNumber \/ e.ext >= t.next}

sendTWCC(t) ==
    LET exts == Ascending({e.ext : e \in Pending(t)})
        end  == FoldLeft(Extend, [open |-> FALSE, cursor |-> t.next, base |-> 0, last |-> 0,
                                  windows |-> <<>>], exts)
    IN  IF exts = <<>> THEN [t EXCEPT !.info = {}, !.sent = <<>>]
        ELSE [t EXCEPT !.info = {}, !.next = end.last + 1,
                       !.sent = Append(end.windows, [base |-> end.base, last |-> end.last])]

handleTWCC(t, wide) ==
    LET tsn == wide % Mod
        ext == unwrapTsn(t, tsn)
        u   == [t EXCEPT !.high = IF ext > @ THEN ext ELSE @,
                         !.info = {e \in @ : e.ext % Mod # tsn} \union {[ext |-> ext, wide |-> wide]},
                         !.sent = <<>>]
    IN  IF Cardinality(u.info) > MaxBuffered THEN sendTWCC(u) ELSE u
=============================================================================
