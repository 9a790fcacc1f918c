-------------------------- MODULE BrokerLifecycle --------------------------
(* BrokerWorkflow implements DocumentLifecycle                              *)
EXTENDS BrokerWorkflow

StageOf(c) ==
    IF \E r \in Revisions : <<c, r>> \in note THEN "published"
    ELSE IF \E r \in Revisions : Live(<<c, r>>) THEN "working"
    ELSE IF \E r \in Revisions : Current(<<c, r>>) THEN "result"
    ELSE "idle"

Lifecycle == INSTANCE DocumentLifecycle WITH
    Documents <- Captures,
    stage     <- [c \in Captures |-> StageOf(c)],
    revision  <- [c \in Captures |-> Cardinality({r \in Revisions : Exists(<<c, r>>)})]

(* The rows of workflows, tasks and notes, and every transaction on them, are a   *)
(* document that is worked on by one revision at a time and published once.       *)
ImplementsLifecycle == Lifecycle!Spec
=============================================================================
