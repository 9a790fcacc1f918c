-------------------------- MODULE KnowledgeClaims --------------------------
(***************************************************************************)
(* The claims of the published notes and the proposals (candidates) to     *)
(* replace one of them by the evidence of another. Applying a proposal     *)
(* adds a claim, the projection of the evidence in the note it changes.    *)
(*                                                                         *)
(* A text is the set of changes made to the note since its claims were     *)
(* extracted: applications (candidates) and edits of the person. Two texts *)
(* have the same digest iff they are equal.                                *)
(***************************************************************************)
EXTENDS Naturals, FiniteSets

CONSTANTS
    Notes,
    Claims,        \* claims extracted from the notes and those applications add
    NoteOf,        \* the note of each claim
    Candidates,    \* candidate_id of the proposals
    Target, Witness, Successor,
                   \* claim a candidate replaces, claim that is its evidence,
                   \* claim that applying it adds
    EditMarks      \* bound: edits of the person that can be told apart

ASSUME CandidatesAssumption ==
    /\ Candidates \subseteq Nat \ {0} /\ IsFiniteSet(Candidates)
    /\ EditMarks \cap Candidates = {}
    /\ Target \in [Candidates -> Claims]
    /\ Witness \in [Candidates -> Claims]
    /\ Successor \in [Candidates -> Claims]
    /\ NoteOf \in [Claims -> Notes]

(* find_related pairs claims of different notes; only an extracted claim, never a *)
(* projection, proposes changes; the candidate is unique for its pair of claims   *)
ASSUME ProjectionAssumption ==
    \A c, d \in Candidates :
        /\ NoteOf[Successor[c]] = NoteOf[Target[c]]
        /\ NoteOf[Witness[c]] # NoteOf[Target[c]]
        /\ Successor[c] # Witness[d] /\ Successor[c] # Target[c]
        /\ c # d => Successor[c] # Successor[d]
        /\ c # d => <<Target[c], Witness[c]>> # <<Target[d], Witness[d]>>

Texts    == SUBSET (Candidates \cup EditMarks)
Original == {}                      \* the text the claims were extracted from

TargetNote(c)  == NoteOf[Target[c]]
Projections    == {Successor[c] : c \in Candidates}
ClaimsIn(n)    == {k \in Claims : NoteOf[k] = n}

ClaimStatus    == {"none", "ACTIVE", "SUPERSEDED", "RETRACTED"}
=============================================================================
