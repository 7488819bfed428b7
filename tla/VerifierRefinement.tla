------------------------ MODULE VerifierRefinement ------------------------
(***************************************************************************)
(* Verifier implements Catalog: reading is examining, the report is the    *)
(* answer, and sorting the postregs under the preregs is nothing a user    *)
(* of the verifier can see.                                                *)
(***************************************************************************)
EXTENDS Verifier

CONSTANT NoQuestion     \* no run is under way

Question ==
  IF pc \in {"load", "group"}
  THEN [tests |-> tests, artifacts |-> artifacts, now |-> now, files |-> Len(files)]
  ELSE NoQuestion

Promise == INSTANCE Catalog
             WITH question <- Question, evidence <- read, answer <- report

ASSUME QuestionAssumption == NoQuestion \notin Promise!Questions

\* Every behaviour of the loops is one the declarative rule allows: the report
\* a run ends with is the verdict on the documents it read, with one of the
\* preregs of each ref standing for that ref.
ImplementsCatalog == Promise!Spec
=============================================================================
