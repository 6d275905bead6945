-------------------------- MODULE AcquisitionPromise --------------------------
(***************************************************************************)
(* What a durable acquisition run promises to the workflow that started it *)
(* and to the Source Intake that reads its ready files, without handlers,  *)
(* files, locks or operations: bytes of an open item are only ever         *)
(* appended, an item becomes ready once and with everything received, and  *)
(* the run completes with its last item and fails with its first failed one. *)
(***************************************************************************)
EXTENDS Naturals, Sequences

CONSTANTS Items, Size, Byte

VARIABLES
  run,       \* "planned", "active", "completed", "failed"
  phase,     \* phase[i]: "open", "ready", "failed"
  received   \* received[i]: the bytes the run answers for

vars == <<run, phase, received>>

Init ==
  /\ run = "planned"
  /\ phase = [i \in Items |-> "open"]
  /\ received = [i \in Items |-> <<>>]

Activate ==
  /\ run = "planned"
  /\ run' = "active"
  /\ UNCHANGED <<phase, received>>

Receive(i) ==
  /\ run = "active" /\ phase[i] = "open"
  /\ received' \in [Items -> Seq(Byte)]
  /\ Len(received[i]) < Len(received'[i]) /\ Len(received'[i]) <= Size[i]
  /\ SubSeq(received'[i], 1, Len(received[i])) = received[i]
  /\ \A j \in Items \ {i} : received'[j] = received[j]
  /\ UNCHANGED <<run, phase>>

\* While the run is active, what is published is what was received; an item of a
\* failed run can still be published, with its complete content.
Publish(i) ==
  /\ run \in {"active", "failed"} /\ phase[i] = "open"
  /\ phase' = [phase EXCEPT ![i] = "ready"]
  /\ received' \in [Items -> Seq(Byte)]
  /\ Len(received'[i]) = Size[i]
  /\ run = "active" => received'[i] = received[i]
  /\ \A j \in Items \ {i} : received'[j] = received[j]
  /\ run' = IF run = "active" /\ \A j \in Items : phase'[j] = "ready"
            THEN "completed" ELSE run

\* The run fails with the item and answers only for its ready items from then on.
Fail(i) ==
  /\ run \in {"active", "failed"} /\ phase[i] = "open"
  /\ phase' = [phase EXCEPT ![i] = "failed"]
  /\ run' = "failed"
  /\ received' = [j \in Items |-> IF phase[j] = "ready" THEN received[j] ELSE <<>>]

\* Cleanup of a failed run gives up the items whose partial files it removes.
GiveUp ==
  /\ run = "failed"
  /\ \E S \in SUBSET {i \in Items : phase[i] = "open"} :
       phase' = [i \in Items |-> IF i \in S THEN "failed" ELSE phase[i]]
  /\ UNCHANGED <<run, received>>

Next ==
  \/ Activate \/ GiveUp
  \/ \E i \in Items : Receive(i) \/ Publish(i) \/ Fail(i)

Spec == Init /\ [][Next]_vars
=============================================================================
