---------------------- MODULE OfficialKnowledgeProofs ----------------------
(***************************************************************************)
(* In OfficialKnowledge a claim in force is in the official text of its    *)
(* note, for any notes, claims and proposals.                              *)
(*                                                                         *)
(* ClaimsAreInTheText is not inductive: an application may bring back into *)
(* play a claim that another proposal replaces, and a reversion brings     *)
(* back the claim it had replaced. History says what the text remembers of *)
(* both, as long as the person has not replaced the text as a whole.       *)
(***************************************************************************)
EXTENDS OfficialKnowledge, TLAPS

TypeInv ==
    /\ text \in [Notes -> Texts]
    /\ status \in [Claims -> ClaimStatus]

(* The claims of the note still are those of its text *)
Analysed(n) == \E k \in Claims : NoteOf[k] = n /\ status[k] = "ACTIVE"

History(c) ==
    LET n == TargetNote(c)
    IN  Analysed(n) =>
            /\ c \in text[n] => status[Target[c]] = "SUPERSEDED"
            /\ status[Successor[c]] \in {"ACTIVE", "SUPERSEDED"} => c \in text[n]
            /\ \A d \in Candidates :
                   c \in text[n] /\ d \in text[n] /\ Target[c] = Target[d] => c = d

IInv == TypeInv /\ \A c \in Candidates : History(c)

-----------------------------------------------------------------------------
(* The claim a proposal adds is one of the note it changes, and not the one it *)
(* replaces                                                                    *)
LEMMA CandidateFacts ==
    ASSUME NEW c \in Candidates
    PROVE  /\ Target[c] \in Claims /\ Successor[c] \in Claims
           /\ TargetNote(c) \in Notes /\ NoteOf[Successor[c]] = TargetNote(c)
           /\ Successor[c] # Target[c] /\ c \in Candidates \cup EditMarks
           /\ \A d \in Candidates : Successor[d] = Successor[c] => d = c
  BY CandidatesAssumption, ProjectionAssumption DEF TargetNote

(* Nothing is remembered of the text the claims were extracted from *)
LEMMA InitIInv == Init => IInv
<1>1. ASSUME Init PROVE TypeInv
  BY <1>1, CandidatesAssumption DEF Init, TypeInv, Texts, Original, ClaimStatus
<1>2. ASSUME Init, NEW c \in Candidates PROVE History(c)
  BY <1>2, CandidateFacts DEF Init, History, Original, Projections
<1> QED BY <1>1, <1>2 DEF IInv

(* Types hold after every step *)
LEMMA TypeStep == TypeInv /\ [Next]_vars => TypeInv'
<1> SUFFICES ASSUME TypeInv, [Next]_vars PROVE TypeInv'
  OBVIOUS
<1> USE DEF TypeInv, Texts, ClaimStatus
<1>1. ASSUME NEW c \in Candidates, Replace(c) PROVE TypeInv'
  BY <1>1, CandidateFacts DEF Replace
<1>2. ASSUME NEW c \in Candidates, Undo(c) PROVE TypeInv'
  BY <1>2, CandidateFacts DEF Undo
<1>3. ASSUME NEW n \in Notes PROVE Retracted(n) \in [Claims -> ClaimStatus]
  BY DEF Retracted
<1>4. ASSUME NEW n \in Notes, NEW t \in Texts, Adopt(n, t) PROVE TypeInv'
  BY <1>3, <1>4 DEF Adopt
<1>5. ASSUME NEW n \in Notes, Retire(n) PROVE TypeInv'
  BY <1>3, <1>5 DEF Retire
<1>6. CASE UNCHANGED vars
  BY <1>6 DEF vars
<1> QED BY <1>1, <1>2, <1>4, <1>5, <1>6 DEF Next

(* A note whose text and claims a step leaves alone keeps its history *)
LEMMA SameHistory ==
    ASSUME NEW d \in Candidates, History(d), TypeInv,
           text'[TargetNote(d)] = text[TargetNote(d)],
           \A k \in Claims : NoteOf[k] = TargetNote(d) => status'[k] = status[k]
    PROVE  History(d)'
<1>1. status'[Target[d]] = status[Target[d]] /\ status'[Successor[d]] = status[Successor[d]]
  BY CandidateFacts DEF TargetNote
<1>2. Analysed(TargetNote(d))' => Analysed(TargetNote(d))
  BY DEF Analysed, TargetNote
<1> QED BY <1>1, <1>2 DEF History, TargetNote

(* What an application changes and what it does not *)
LEMMA ReplaceStep ==
    ASSUME IInv, NEW c \in Candidates, Replace(c), NEW d \in Candidates
    PROVE  History(d)'
<1> DEFINE n == TargetNote(c)
<1>1. /\ Target[c] \in Claims /\ Successor[c] \in Claims /\ n \in Notes
      /\ NoteOf[Target[c]] = n /\ NoteOf[Successor[c]] = n /\ Successor[c] # Target[c]
  BY CandidateFacts DEF TargetNote
<1>2. /\ status'[Target[c]] = "SUPERSEDED" /\ status'[Successor[c]] = "ACTIVE"
      /\ \A k \in Claims \ {Target[c], Successor[c]} : status'[k] = status[k]
      /\ text'[n] = text[n] \cup {c}
      /\ \A m \in Notes \ {n} : text'[m] = text[m]
  BY <1>1 DEF Replace, IInv, TypeInv
<1>3. /\ Target[d] \in Claims /\ Successor[d] \in Claims /\ TargetNote(d) \in Notes
      /\ NoteOf[Target[d]] = TargetNote(d) /\ NoteOf[Successor[d]] = TargetNote(d)
  BY CandidateFacts DEF TargetNote
<1>4. CASE TargetNote(d) # n
  BY <1>1, <1>2, <1>3, <1>4, SameHistory DEF IInv
<1>5. CASE TargetNote(d) = n
  <2>1. Analysed(n)
    BY <1>1 DEF Analysed, Replace
  <2>2. \A e \in Candidates : TargetNote(e) = n /\ e \in text[n] =>
            status[Target[e]] = "SUPERSEDED" /\ Target[e] # Target[c] /\ Target[e] # Successor[c]
    BY <2>1 DEF IInv, History, Replace
  <2>3. d \in text'[n] => status'[Target[d]] = "SUPERSEDED"
    BY <1>2, <1>3, <1>5, <2>2
  <2>4. status'[Successor[d]] \in {"ACTIVE", "SUPERSEDED"} => d \in text'[n]
    <3>1. CASE d = c
      BY <1>2, <3>1
    <3>2. CASE d # c
      <4>1. Successor[d] # Successor[c]
        BY <3>2, CandidateFacts
      <4>2. status'[Successor[d]] \in {"ACTIVE", "SUPERSEDED"} => status[Successor[d]] \in {"ACTIVE", "SUPERSEDED"}
        BY <1>2, <1>3, <4>1 DEF Replace
      <4> QED BY <1>2, <1>5, <2>1, <4>2 DEF IInv, History
    <3> QED BY <3>1, <3>2
  <2>5. ASSUME NEW e \in Candidates, d \in text'[n], e \in text'[n], Target[d] = Target[e] PROVE d = e
    <3>1. TargetNote(e) = n
      BY <1>5, <2>5 DEF TargetNote
    <3>2. d \in text[n] => d # c /\ Target[d] # Target[c]
      BY <1>5, <2>2
    <3>3. e \in text[n] => Target[e] # Target[c]
      BY <2>2, <3>1
    <3>4. d \in text[n] /\ e \in text[n] => d = e
      BY <1>5, <2>1, <2>5 DEF IInv, History
    <3> QED BY <1>2, <2>5, <3>2, <3>3, <3>4
  <2> QED BY <1>5, <2>3, <2>4, <2>5 DEF History, TargetNote
<1> QED BY <1>4, <1>5

(* What a reversion changes and what it does not *)
LEMMA UndoStep ==
    ASSUME IInv, NEW c \in Candidates, Undo(c), NEW d \in Candidates
    PROVE  History(d)'
<1> DEFINE n == TargetNote(c)
<1>1. /\ Target[c] \in Claims /\ Successor[c] \in Claims /\ n \in Notes
      /\ NoteOf[Target[c]] = n /\ NoteOf[Successor[c]] = n /\ Successor[c] # Target[c]
  BY CandidateFacts DEF TargetNote
<1>2. /\ status'[Target[c]] = "ACTIVE" /\ status'[Successor[c]] = "RETRACTED"
      /\ \A k \in Claims \ {Target[c], Successor[c]} : status'[k] = status[k]
      /\ text'[n] = text[n] \ {c}
      /\ \A m \in Notes \ {n} : text'[m] = text[m]
  BY <1>1 DEF Undo, IInv, TypeInv
<1>3. /\ Target[d] \in Claims /\ Successor[d] \in Claims /\ TargetNote(d) \in Notes
      /\ NoteOf[Target[d]] = TargetNote(d) /\ NoteOf[Successor[d]] = TargetNote(d)
  BY CandidateFacts DEF TargetNote
<1>4. CASE TargetNote(d) # n
  BY <1>1, <1>2, <1>3, <1>4, SameHistory DEF IInv
<1>5. CASE TargetNote(d) = n
  <2>1. Analysed(n) /\ c \in text[n]
    BY <1>1 DEF Analysed, Undo, IInv, History
  <2>2. \A e \in Candidates : TargetNote(e) = n /\ e \in text[n] =>
            status[Target[e]] = "SUPERSEDED" /\ Target[e] # Successor[c]
    BY <2>1 DEF IInv, History, Undo
  <2>3. \A e \in Candidates : e \in text[n] /\ Target[e] = Target[c] => e = c
    BY <2>1 DEF IInv, History
  <2>4. d \in text'[n] => status'[Target[d]] = "SUPERSEDED"
    BY <1>2, <1>3, <1>5, <2>2, <2>3
  <2>5. status'[Successor[d]] \in {"ACTIVE", "SUPERSEDED"} => d \in text'[n]
    <3>1. CASE d = c
      BY <1>2, <3>1
    <3>2. CASE d # c
      <4>1. Successor[d] # Successor[c]
        BY <3>2, CandidateFacts
      <4>2. status'[Successor[d]] \in {"ACTIVE", "SUPERSEDED"} => status[Successor[d]] \in {"ACTIVE", "SUPERSEDED"}
        BY <1>2, <1>3, <4>1 DEF Undo
      <4> QED BY <1>2, <1>5, <2>1, <3>2, <4>2 DEF IInv, History
    <3> QED BY <3>1, <3>2
  <2>6. ASSUME NEW e \in Candidates, d \in text'[n], e \in text'[n], Target[d] = Target[e] PROVE d = e
    BY <1>2, <1>5, <2>1, <2>6 DEF IInv, History
  <2> QED BY <1>5, <2>4, <2>5, <2>6 DEF History, TargetNote
<1> QED BY <1>4, <1>5

(* A text of the person, or a retired note, leaves no claim to say anything about *)
LEMMA RetractStep ==
    ASSUME IInv, NEW n \in Notes, status' = Retracted(n),
           \A m \in Notes \ {n} : text'[m] = text[m], NEW d \in Candidates
    PROVE  History(d)'
<1>1. \A k \in Claims : status'[k] =
          IF NoteOf[k] = n /\ status[k] = "ACTIVE" THEN "RETRACTED" ELSE status[k]
  BY DEF Retracted, ClaimsIn
<1>2. CASE TargetNote(d) = n
  <2>1. ~Analysed(n)'
    BY <1>1 DEF Analysed
  <2> QED BY <1>2, <2>1 DEF History, TargetNote
<1>3. CASE TargetNote(d) # n
  BY <1>1, <1>3, CandidateFacts, SameHistory DEF IInv
<1> QED BY <1>2, <1>3

(* IInv is inductive *)
LEMMA NextIInv == IInv /\ [Next]_vars => IInv'
<1> SUFFICES ASSUME IInv, [Next]_vars PROVE \A d \in Candidates : History(d)'
  BY TypeStep DEF IInv
<1> TAKE d \in Candidates
<1>1. ASSUME NEW c \in Candidates, Replace(c) PROVE History(d)'
  BY <1>1, ReplaceStep
<1>2. ASSUME NEW c \in Candidates, Undo(c) PROVE History(d)'
  BY <1>2, UndoStep
<1>3. ASSUME NEW n \in Notes, NEW t \in Texts, Adopt(n, t) PROVE History(d)'
  BY <1>3, RetractStep DEF Adopt, IInv, TypeInv
<1>4. ASSUME NEW n \in Notes, Retire(n) PROVE History(d)'
  BY <1>4, RetractStep DEF Retire
<1>5. CASE UNCHANGED vars
  BY <1>5, SameHistory, CandidateFacts DEF vars, IInv
<1> QED BY <1>1, <1>2, <1>3, <1>4, <1>5 DEF Next

(* A claim in force is in the official text: readers of the current claims of a note *)
(* find every one of them in what its row says was published                         *)
THEOREM InForceIsInTheText == Spec => []ClaimsAreInTheText
<1>1. ASSUME IInv PROVE ClaimsAreInTheText
  <2> SUFFICES ASSUME NEW c \in Candidates
               PROVE  /\ status[Successor[c]] = "ACTIVE" => c \in text[TargetNote(c)]
                      /\ status[Target[c]] = "ACTIVE" => c \notin text[TargetNote(c)]
    BY DEF ClaimsAreInTheText
  <2>1. status[Successor[c]] = "ACTIVE" \/ status[Target[c]] = "ACTIVE" => Analysed(TargetNote(c))
    BY CandidateFacts DEF Analysed, TargetNote
  <2> QED BY <1>1, <2>1 DEF IInv, History
<1> QED BY InitIInv, NextIInv, <1>1, PTL DEF Spec
=============================================================================
