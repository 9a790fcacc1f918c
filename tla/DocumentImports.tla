---------------------------- MODULE DocumentImports ----------------------------
(***************************************************************************)
(* How the window brings documents of the person into the watched folder.  *)
(* A thread inspects the files that were picked; the window tells which    *)
(* are broken and which are known, and asks whether to convert the ones    *)
(* that are no captures; another thread copies and converts. Nothing stops *)
(* a second import from being started meanwhile, the person from editing a *)
(* file between its inspection and its copy, or the ingestion from taking  *)
(* what arrives.                                                           *)
(*                                                                         *)
(* A text is its kind and the identity of the capture it is, or would be   *)
(* once converted. The files picked are not in the watched folder.         *)
(***************************************************************************)
EXTENDS Naturals, Sequences, FiniteSets, Functions

CONSTANTS
    Papers, NameOf,     \* files of the person, and their names: two folders may have one each
    Texts,              \* what a file may hold
    MaxImports,         \* bound: imports
    MaxAccidents        \* bound: editions by the person, and operations that fail

Kinds == {"compatible", "malformed", "ordinary", "unreadable"}
ASSUME DocumentImportsAssumption ==
    /\ Texts \subseteq [kind : Kinds, id : Nat] /\ {MaxImports, MaxAccidents} \subseteq Nat
    /\ NameOf \in [Papers -> STRING \ {"manual"}]

VARIABLES
    paper,      \* the text of each file
    folder,      \* the watched folder: the text of each name
    known,      \* captures: the identities that are in the table
    imports,    \* each import: where it is, what is left to do, and the name it has chosen
    asking,     \* the dialogs "Convertir documentos" that are open, each on top of the ones before
    clash,      \* two imports have had the same name chosen at the same time
    accidents   \* the bound used

importVars == <<paper, folder, known, imports, asking, clash, accidents>>

Imports == 1..MaxImports
NoImport == [at |-> "none", todo |-> {}, found |-> {}, item |-> 0, name |-> <<>>]
Torn == [kind |-> "malformed", id |-> 0]

ImportsInit ==
    /\ paper \in [Papers -> Texts]
    /\ folder = <<>> /\ known = {}
    /\ imports = [i \in Imports |-> NoImport] /\ asking = <<>>
    /\ clash = FALSE /\ accidents = 0

Accident == accidents < MaxAccidents /\ accidents' = accidents + 1
Stands(i, where) == imports[i].at = where
Goes(i, record) == imports' = [imports EXCEPT ![i] = record]

-----------------------------------------------------------------------------
(* What is picked has no repetitions. No dialog can be open: it holds the window  *)
ImportDocuments(i, picked) ==
    /\ Stands(i, "none") /\ \A j \in 1..(i - 1) : ~Stands(j, "none")
    /\ asking = <<>>
    /\ Goes(i, [NoImport EXCEPT !.at = "inspecting", !.todo = picked])
    /\ UNCHANGED <<paper, folder, known, asking, clash, accidents>>

(* inspect_import, of one file after another                                      *)
InspectImport(i, p) ==
    /\ Stands(i, "inspecting") /\ p \in imports[i].todo
    /\ LET text == paper[p]
           seen == [paper |-> p, kind |-> text.kind, id |-> text.id]
           left == imports[i].todo \ {p}
       IN  Goes(i, [imports[i] EXCEPT !.todo = left, !.found = @ \cup {seen},
                                      !.at = IF left = {} THEN "inspected" ELSE "inspecting"])
    /\ UNCHANGED <<paper, folder, known, asking, clash, accidents>>

(* _review_import_candidates: the broken and the known are only told about. The   *)
(* timers go on under a dialog, so a second one may be opened on top of it        *)
OfKind(found, kind) == {f \in found : f.kind = kind}
DeliverFound(i, found) ==
    Goes(i, [imports[i] EXCEPT !.found = found, !.at = IF found = {} THEN "done" ELSE "delivering"])
ReviewImportCandidates(i) ==
    /\ Stands(i, "inspected")
    /\ LET fresh == {f \in OfKind(imports[i].found, "compatible") \cup OfKind(imports[i].found, "ordinary") :
                        f.id \notin known}
       IN  IF OfKind(fresh, "ordinary") = {} THEN DeliverFound(i, fresh) /\ UNCHANGED asking
           ELSE /\ Goes(i, [imports[i] EXCEPT !.found = fresh, !.at = "asking"])
                /\ asking' = Append(asking, i)
    /\ UNCHANGED <<paper, folder, known, clash, accidents>>
ConfirmConversion(i, accepted) ==       \* to be summarized or as they are; or Cancelar
    /\ asking # <<>> /\ asking[Len(asking)] = i
    /\ asking' = SubSeq(asking, 1, Len(asking) - 1)
    /\ DeliverFound(i, IF accepted THEN imports[i].found ELSE OfKind(imports[i].found, "compatible"))
    /\ UNCHANGED <<paper, folder, known, clash, accidents>>

-----------------------------------------------------------------------------
(* _deliver_imports: the captures are copied under a free name, then the others   *)
(* are converted. What fails is told at the end and the rest goes on              *)
PutInFolder(name, text) == folder' = [n \in DOMAIN folder \cup {name} |-> IF n = name THEN text ELSE folder[n]]
Left(i) == {f \in imports[i].found : f.paper # imports[i].item}
GoesOn(i, left) == Goes(i, [NoImport EXCEPT !.at = IF left = {} THEN "delivered" ELSE "delivering", !.found = left])

(* Defect: the name is taken without a look at the folder                         *)
SameName(stem) == <<stem, 1>>
AvailableInboxPath(stem) ==
    <<stem, CHOOSE k \in 1..(Cardinality(DOMAIN folder) + 1) : <<stem, k>> \notin DOMAIN folder
                                     /\ \A j \in 1..(k - 1) : <<stem, j>> \in DOMAIN folder>>
ChooseTarget(i, f) ==
    /\ Stands(i, "delivering") /\ f \in OfKind(imports[i].found, "compatible")
    /\ LET name == AvailableInboxPath(NameOf[f.paper])
       IN  /\ Goes(i, [imports[i] EXCEPT !.at = "copying", !.item = f.paper, !.name = name])
           /\ clash' = (clash \/ \E j \in Imports \ {i} : Stands(j, "copying") /\ imports[j].name = name)
    /\ UNCHANGED <<paper, folder, known, asking, accidents>>
CopyDocument(i) ==              \* copy2, of what the file holds by now
    /\ Stands(i, "copying") /\ GoesOn(i, Left(i))
    /\ \/ PutInFolder(imports[i].name, paper[imports[i].item]) /\ UNCHANGED accidents
       \/ Accident /\ (PutInFolder(imports[i].name, Torn) \/ UNCHANGED folder)
    /\ UNCHANGED <<paper, known, asking, clash>>

(* write_converted: build_capture wraps the text that the file holds by now; the  *)
(* identity of the capture, and its name, are of its content                      *)
Wrapped(text) == [kind |-> "compatible", id |-> IF text.kind = "ordinary" THEN text.id ELSE 100 + text.id]
ConvertedName(text) == <<"manual", Wrapped(text).id>>
LookForConverted(i, f) ==
    /\ Stands(i, "delivering") /\ OfKind(imports[i].found, "compatible") = {}
    /\ f \in OfKind(imports[i].found, "ordinary")
    /\ LET text == paper[f.paper]
       IN  IF text.kind = "unreadable" \/ ConvertedName(text) \in DOMAIN folder
           THEN GoesOn(i, imports[i].found \ {f})
           ELSE Goes(i, [imports[i] EXCEPT !.at = "replacing", !.item = f.paper, !.name = ConvertedName(text)])
    /\ UNCHANGED <<paper, folder, known, asking, clash, accidents>>
WriteConverted(i) ==            \* a temporary file, synced, that replaces
    /\ Stands(i, "replacing") /\ GoesOn(i, Left(i))
    /\ \/ PutInFolder(imports[i].name, [kind |-> "compatible", id |-> imports[i].name[2]]) /\ UNCHANGED accidents
       \/ Accident /\ UNCHANGED folder
    /\ UNCHANGED <<paper, known, asking, clash>>

StepFails(i) ==                 \* run: whatever escapes is told, and the import is over
    /\ imports[i].at \in {"inspecting", "delivering"} /\ Accident
    /\ Goes(i, [NoImport EXCEPT !.at = "done"])
    /\ UNCHANGED <<paper, folder, known, asking, clash>>
FinishImport(i) ==              \* each file is submitted to the worker
    /\ Stands(i, "delivered") /\ Goes(i, [NoImport EXCEPT !.at = "done"])
    /\ UNCHANGED <<paper, folder, known, asking, clash, accidents>>

-----------------------------------------------------------------------------
(* The person edits a file; the ingestion takes one, and registers a capture      *)
EditPaper(p, text) ==
    /\ text # paper[p] /\ Accident /\ paper' = [paper EXCEPT ![p] = text]
    /\ UNCHANGED <<folder, known, imports, asking, clash>>
TakeFromInbox(name) ==
    /\ name \in DOMAIN folder
    /\ folder' = Restrict(folder, DOMAIN folder \ {name})
    /\ known' = IF folder[name].kind = "compatible" THEN known \cup {folder[name].id} ELSE known
    /\ UNCHANGED <<paper, imports, asking, clash, accidents>>

ImportStep(i) ==
    \/ \E p \in Papers : InspectImport(i, p)
    \/ \E f \in imports[i].found : ChooseTarget(i, f) \/ LookForConverted(i, f)
    \/ ReviewImportCandidates(i) \/ CopyDocument(i) \/ WriteConverted(i) \/ FinishImport(i)
ImportsNext ==
    \/ \E i \in Imports : \/ \E picked \in (SUBSET Papers) \ {{}} : ImportDocuments(i, picked)
                          \/ \E accepted \in BOOLEAN : ConfirmConversion(i, accepted)
                          \/ ImportStep(i) \/ StepFails(i)
    \/ \E p \in Papers, text \in Texts : EditPaper(p, text)
    \/ \E name \in DOMAIN folder : TakeFromInbox(name)
=============================================================================
