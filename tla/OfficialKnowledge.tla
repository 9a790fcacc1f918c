------------------------- MODULE OfficialKnowledge -------------------------
(***************************************************************************)
(* What the maintenance of published notes promises, without files,        *)
(* requests, intentions or crashes: the official text of a note and the    *)
(* claims in force in it change together. SemanticApplication implements   *)
(* it.                                                                     *)
(***************************************************************************)
EXTENDS KnowledgeClaims

VARIABLES
    text,       \* official text of each note
    open,       \* notes that are published, not retired
    status      \* status of each claim; "none": not added yet

vars == <<text, open, status>>

Init ==
    /\ text = [n \in Notes |-> Original]
    /\ open = Notes
    /\ status = [k \in Claims |-> IF k \in Projections THEN "none" ELSE "ACTIVE"]

(* A proposal is applied *)
Replace(c) ==
    LET n == TargetNote(c)
    IN
    /\ status[Target[c]] = "ACTIVE" /\ status[Successor[c]] = "none"
    /\ text' = [text EXCEPT ![n] = @ \cup {c}]
    /\ status' = [status EXCEPT ![Target[c]] = "SUPERSEDED", ![Successor[c]] = "ACTIVE"]
    /\ UNCHANGED open

(* An application is reverted *)
Undo(c) ==
    LET n == TargetNote(c)
    IN
    /\ n \in open
    /\ status[Target[c]] = "SUPERSEDED" /\ status[Successor[c]] = "ACTIVE"
    /\ text' = [text EXCEPT ![n] = @ \ {c}]
    /\ status' = [status EXCEPT ![Target[c]] = "ACTIVE", ![Successor[c]] = "RETRACTED"]
    /\ UNCHANGED open

Retracted(n) ==
    [k \in Claims |-> IF k \in ClaimsIn(n) /\ status[k] = "ACTIVE" THEN "RETRACTED" ELSE status[k]]

(* A text of the person becomes official: no claim of the old one stays in force *)
Adopt(n, t) ==
    /\ n \in open
    /\ text' = [text EXCEPT ![n] = t]
    /\ status' = Retracted(n)
    /\ UNCHANGED open

Retire(n) ==
    /\ n \in open
    /\ open' = open \ {n}
    /\ status' = Retracted(n)
    /\ UNCHANGED text

Next ==
    \/ \E c \in Candidates : Replace(c) \/ Undo(c)
    \/ \E n \in Notes : Retire(n) \/ \E t \in Texts : Adopt(n, t)

Spec == Init /\ [][Next]_vars

(* A claim in force is in the official text: a projection only while its change is  *)
(* there, a replaced claim only while it is not                                     *)
ClaimsAreInTheText ==
    \A c \in Candidates :
        /\ status[Successor[c]] = "ACTIVE" => c \in text[TargetNote(c)]
        /\ status[Target[c]] = "ACTIVE" => c \notin text[TargetNote(c)]
=============================================================================
