------------------------- MODULE DocumentLifecycle -------------------------
(***************************************************************************)
(* What the orchestrator promises about one document, whatever happens in  *)
(* the queue, at the Broker, on the desktop or at a restart: it is worked   *)
(* on by one revision at a time, only the last revision is ever resumed, a  *)
(* result is published at most once, and a published document is never      *)
(* worked on again.                                                         *)
(***************************************************************************)
EXTENDS Naturals

CONSTANT Documents

VARIABLES stage,     \* where each document is
          revision   \* how many times it was planned

Stages == {"idle", "working", "result", "published"}

Init ==
    /\ stage = [d \in Documents |-> "idle"]
    /\ revision = [d \in Documents |-> 0]

Move(d, from, to) == stage[d] = from /\ stage' = [stage EXCEPT ![d] = to]

(* It is planned, for the first time or again                               *)
Plan(d)    == Move(d, "idle", "working") /\ revision' = [revision EXCEPT ![d] = @ + 1]

(* Its last revision failed, or was cancelled ...                            *)
Stop(d)    == Move(d, "working", "idle") /\ UNCHANGED revision

(* ... and is resumed where it was                                           *)
Resume(d)  == revision[d] > 0 /\ Move(d, "idle", "working") /\ UNCHANGED revision

Finish(d)  == Move(d, "working", "result") /\ UNCHANGED revision

(* The draft was rejected, or the result cannot be published                 *)
Discard(d) == Move(d, "result", "idle") /\ UNCHANGED revision

Publish(d) == Move(d, "result", "published") /\ UNCHANGED revision

Next == \E d \in Documents : \/ Plan(d) \/ Stop(d) \/ Resume(d)
                             \/ Finish(d) \/ Discard(d) \/ Publish(d)

Spec == Init /\ [][Next]_<<stage, revision>>
=============================================================================
