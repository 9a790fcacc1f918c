---------------------------- MODULE MCIngestion ----------------------------
(***************************************************************************)
(* Ingestion and Sources for TLC, each in scenes of its own: the folders   *)
(* at the grain of one change of a file, the checks of a source, and the   *)
(* delivery of its changes to the inbox with the watcher as a whole. They  *)
(* meet in two places, both in the scenes: a change, which the checks only *)
(* add and the delivery only takes, and the row of a capture, which the    *)
(* folders insert before they remove the file. In one scene more, the      *)
(* person imports documents, and the watcher takes whole what arrives.     *)
(***************************************************************************)
EXTENDS Ingestion, Sources, DocumentImports

VARIABLE scene

MCNameOf == [p \in Papers |-> "notes"]
MCTexts == {[kind |-> "compatible", id |-> 1], [kind |-> "compatible", id |-> 2],
            [kind |-> "ordinary", id |-> 3], [kind |-> "malformed", id |-> 0]}
AnyText == CHOOSE text \in Texts : TRUE

allVars == <<vars, sourceVars, importVars, scene>>
ScenesInit ==
    /\ Init /\ SourcesInit /\ ImportsInit
    /\ scene \in {"folders", "checks", "delivery", "imports"}
    /\ changes = <<>> <=> scene # "delivery"
    /\ scene # "checks" => source.policy = "review" /\ source.loc = "l1"
    /\ \A k \in DOMAIN changes : changes[k].version[1] = source.loc
    /\ IF scene = "imports"     \* the two captures are alike
       THEN paper[1].id < paper[2].id /\ (2 \in {paper[1].id, paper[2].id} => paper[1].id = 1)
       ELSE \A p \in Papers : paper[p] = AnyText

Scene(s, others) == scene = s /\ UNCHANGED <<scene, others>>
Folders    == Scene("folders", <<sourceVars, importVars>>)
Checks     == Scene("checks", <<vars, importVars>>)
Delivery   == Scene("delivery", <<vars, importVars>>)
Importing  == Scene("imports", <<vars, sourceVars>>)
ScenesNext == \/ Folders /\ Next
              \/ Checks /\ Watching
              \/ Delivery /\ Ingesting
              \/ Importing /\ ImportsNext

ScenesSpec == ScenesInit /\ [][ScenesNext]_allVars

(* The loops go round every second, time passes, and a lease runs out after 90  *)
(* seconds; nobody promises that a page changes or that a person accepts. The     *)
(* scenes never meet, so that one condition serves a thread of each               *)
FairScenes ==
    /\ ScenesSpec
    /\ WF_allVars(\/ Folders /\ (Ingest \/ Quarantine \/ Recover)
                  \/ Checks /\ Checking
                  \/ Delivery /\ Delivering
                  \/ Importing /\ ImportStep(1))
    /\ WF_allVars(\/ Checks /\ RequestCheck
                  \/ Delivery /\ Taking
                  \/ Importing /\ ImportStep(2))
    /\ WF_allVars(Checks /\ ~Alive /\ LeaseLapses)
    /\ \A k \in Keys : WF_allVars(Delivery /\ k \in DOMAIN changes /\ RetryDue(k))

-----------------------------------------------------------------------------
(* What is known of a page never goes back, and never is of another page, and the *)
(* validator sent with the next request is of the version that is known, so that   *)
(* a "304" hides nothing (finish, update). An import never writes over a file *)
(* of the watched folder, unless two were given one name at the same time, and    *)
(* leaves captures only, unless a file changed after its inspection or a copy was *)
(* cut (_available_inbox_path, write_converted, _deliver_imports).                *)
OfThePage == source.seen # NoVersion => source.seen[1] = source.loc
NothingReplaced == ~clash' => \A n \in DOMAIN folder \cap DOMAIN folder' : folder'[n] = folder[n]
OnlyCaptures == accidents = 0 => \A n \in DOMAIN folder : folder[n].kind = "compatible"
NothingIsOverwritten == [][
    /\ NothingReplaced /\ OnlyCaptures'
    /\ OfThePage' /\ source'.etag \in {NoVersion, source'.seen}
    /\ source.seen # NoVersion /\ source'.loc = source.loc =>
         source'.seen # NoVersion /\ source'.seen[2] >= source.seen[2] ]_allVars

(* The program never leaves in the inbox a document that is already in, which the *)
(* watcher would refuse as a copy: not after a commit that failed once the file   *)
(* was there, nor with two threads that deliver (deliver_pending)                  *)
DocumentsEnterOnce == repeated = {}

(* Every file leaves the inbox; a source that is on ends up known as its page     *)
(* shows it; and an accepted change, or a client's document, is ingested, whatever *)
(* crashes, sleeps and failed transactions there were before; an import ends, or   *)
(* waits for the person (_run_import_step)                                         *)
SourceIsFollowed == source.on => source.seen = Version(source.loc)
AcceptedIsIngested ==
    /\ \A k \in DOMAIN changes : changes[k].status # "REVIEW" => k \in entered
    /\ received[Client] # "none" => Client \in entered
ImportsEnd == \A i \in Imports : imports[i].at \in {"none", "asking", "done"}
EverythingComesIn == <>[](
    /\ scene = "folders" => InboxIsDrained
    /\ scene = "checks" => SourceIsFollowed
    /\ scene = "delivery" => AcceptedIsIngested
    /\ ImportsEnd)
=============================================================================
