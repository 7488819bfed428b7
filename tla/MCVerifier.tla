---------------------------- MODULE MCVerifier ----------------------------
(***************************************************************************)
(* Small instances of Verifier.  Histories: eight bodies, two keys, three  *)
(* files, for the tests of commitments.  Exhibits: six more bodies, with   *)
(* floors, ceilings and subjects in every form, two files, for the tests   *)
(* of single manifests.                                                    *)
(***************************************************************************)
EXTENDS VerifierRefinement

CONSTANTS k1, k2

NewBody(phase, fulfills, prev, due) ==
  [phase |-> phase, fulfills |-> fulfills, prev |-> prev, due |-> due,
   floor |-> "absent", subject |-> "absent"]

Exhibit(floor, subject) ==
  [NewBody("prereg", NoLink, NoLink, NoDue) EXCEPT !.floor = floor, !.subject = subject]

\* Two preregs, a root and two successors of it for the first, a successor of
\* one of these, a postreg whose prev_hash names nothing, and a body of another
\* phase; then the exhibits.
MCBody ==
  << NewBody("prereg", NoLink, NoLink, 1),
     NewBody("prereg", NoLink, NoLink, BadDue),
     NewBody("postreg", 1, NoLink, NoDue),
     NewBody("postreg", 1, 3, NoDue),
     NewBody("postreg", 1, 3, 1),
     NewBody("postreg", 1, 4, NoDue),
     NewBody("postreg", 2, Dangling, NoDue),
     NewBody("other", NoLink, NoLink, NoDue),
     Exhibit("absent", "absent"), Exhibit("good", "absent"), Exhibit("forged", "matches"),
     Exhibit("unsupported", "differs"), Exhibit("misshapen", "misshapen"),
     Exhibit("good", "matches"), Exhibit("good", "raises") >>

MCRef == 1 .. 15

Envelope(r, k, sig, kid) ==
  [ref |-> r, keyid |-> k, sigOK |-> sig, keyidOK |-> kid, ceiling |-> NoCeiling]

\* Every body of a history under each key, and badly signed, under a claimed key id.
Histories ==
  {Envelope(r, k, TRUE, TRUE) : r \in 1 .. 8, k \in {k1, k2}}
    \cup {Envelope(r, k1, FALSE, TRUE) : r \in {1, 3, 4}}
    \cup {Envelope(3, k1, TRUE, FALSE), Malformed}

Ceiling(form, nonce, pinned, agrees, valid) ==
  [form |-> form, nonce |-> nonce, pinned |-> pinned, pubkeyAgrees |-> agrees,
   responseValid |-> valid]

MCCeilings ==
  {Ceiling("ok", 14, p, a, v) : p, a, v \in BOOLEAN}
    \cup {Ceiling("ok", Dangling, TRUE, TRUE, TRUE),
          Ceiling("misshapen", 14, TRUE, TRUE, TRUE),
          Ceiling("unsupported", 14, TRUE, TRUE, TRUE)}

Exhibits ==
  {Envelope(r, k1, TRUE, TRUE) : r \in 9 .. 15}
    \cup {[Envelope(r, k1, TRUE, TRUE) EXCEPT !.ceiling = c] : r \in {9, 14}, c \in MCCeilings}
    \cup {Envelope(14, k1, FALSE, TRUE), Malformed}

MCDocs == Histories \cup Exhibits
MCPath == 1 .. 3
MCArguments == { <<Directory>>, <<3, Directory>> }
MCTimes == {0, 1}

HistoryRequests == { {"BDR", "chain", "keyconsist"}, {"chain"} }
ExhibitRequests == {ts \cup {"BDR"} : ts \in SUBSET {"ceiling", "content", "floor"}}
MCRequests == HistoryRequests \cup ExhibitRequests

OfHistory == disk \in [MCPath -> Histories \cup {NoFile}]
OfExhibits == disk \in [MCPath -> Exhibits \cup {NoFile}] /\ disk[3] = NoFile /\ clock = 1

\* A directory holds files of a history or exhibits, and is verified with the
\* tests that are about them.
MCInit == (OfHistory \/ OfExhibits) /\ Init

\* The request fits what the directory holds.  (No body of a history has a subject.)
Fitting ==
  IF tests' \in HistoryRequests
  THEN OfHistory /\ ~ artifacts'
  ELSE ~ OfHistory /\ Len(files') <= 2

MCNext == Next /\ (pc' = "load" /\ pc = "idle" => Fitting)

MCSpec == MCInit /\ [][MCNext]_vars /\ WF_vars(Run)

\* Two copies of one prereg under different keys, and a postreg for it.
RivalDocs == {Envelope(1, k1, TRUE, TRUE), Envelope(1, k2, TRUE, TRUE),
              Envelope(3, k1, TRUE, TRUE)}

\* A well-formed prereg, and one whose subject cannot be looked up.
UnnameableDocs == {Envelope(9, k1, TRUE, TRUE), Envelope(15, k1, TRUE, TRUE)}
=============================================================================
