----------------------- MODULE MCSemanticApplication -----------------------
(* Small instances of SemanticApplication for TLC: which claims the two      *)
(* candidates are about. A claim is named after its note.                    *)
EXTENDS SemanticApplication, TLC

MCNoteOf == [k \in Claims |-> CASE k \in {"a", "a1"} -> "A"
                                [] k \in {"b", "b1"} -> "B"
                                [] k \in {"w"} -> "W"]

(* Each replaces the other's evidence *)
CrossTarget    == 1 :> "a"  @@ 2 :> "b"
CrossWitness   == 1 :> "b"  @@ 2 :> "a"
CrossSuccessor == 1 :> "a1" @@ 2 :> "b1"

(* The same evidence for two notes *)
SharedWitness  == 1 :> "w"  @@ 2 :> "w"
=============================================================================
