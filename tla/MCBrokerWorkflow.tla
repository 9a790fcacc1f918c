-------------------------- MODULE MCBrokerWorkflow --------------------------
(* Small instances of BrokerWorkflow for TLC                                *)
EXTENDS BrokerLifecycle, TLC

(* The chunks of a document are interchangeable *)
ChunkSymmetry == Permutations(Chunks)

(* With a command of the person and a crash at any point, what is at the Broker   *)
(* ends and so does every document: a restart loses neither a submission nor an   *)
(* answer (dispatch_once, poll_once, recover_once).                               *)
WorkSettles == InFlightEnds /\ EveryDocumentSettles
=============================================================================
