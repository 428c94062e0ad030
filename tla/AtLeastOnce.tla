----------------------------- MODULE AtLeastOnce -----------------------------
(***************************************************************************)
(* What a listener that acknowledges after processing promises of one      *)
(* partition, without members, polls, rebalances or restarts: it begins at *)
(* the end of the log, once; from there on nothing is acknowledged that was*)
(* not handled, and what is acknowledged stays so.  A record may be handled*)
(* again at any time.  SpringListener implements it.                       *)
(***************************************************************************)
EXTENDS Integers

Unknown == -1

VARIABLES
  end,           \* end offset of the log
  acknowledged,  \* the offset from which records are not acknowledged
  done           \* offsets handled at least once

vars == <<end, acknowledged, done>>

Init == end = 0 /\ acknowledged = Unknown /\ done = {}

Append == end' = end + 1 /\ UNCHANGED <<acknowledged, done>>

Begin ==
  /\ acknowledged = Unknown
  /\ acknowledged' = end
  /\ UNCHANGED <<end, done>>

Handle ==
  /\ acknowledged # Unknown
  /\ \E o \in 0 .. end - 1 : done' = done \cup {o}
  /\ UNCHANGED <<end, acknowledged>>

Acknowledge ==
  /\ acknowledged # Unknown
  /\ \E to \in acknowledged .. end :
       /\ acknowledged .. to - 1 \subseteq done
       /\ acknowledged' = to
  /\ UNCHANGED <<end, done>>

Next == Append \/ Begin \/ Handle \/ Acknowledge

Spec == Init /\ [][Next]_vars
=============================================================================
