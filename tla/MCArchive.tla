---------------------------- MODULE MCArchive ----------------------------
(***************************************************************************)
(* A small archive: a prereg, a root postreg, two successors of it, one of *)
(* these under another key as well and one with artifacts that cannot be   *)
(* looked up.                                                              *)
(***************************************************************************)
EXTENDS Archive

CONSTANTS k1, k2

NewBody(phase, fulfills, prev, due) ==
  [phase |-> phase, fulfills |-> fulfills, prev |-> prev, due |-> due,
   floor |-> "absent", subject |-> "absent"]

MCBody ==
  << NewBody("prereg", NoLink, NoLink, 1),
     NewBody("postreg", 1, NoLink, NoDue),
     NewBody("postreg", 1, 2, NoDue),
     [NewBody("postreg", 1, 2, 1) EXCEPT !.subject = "raises"] >>

MCRef == 1 .. 4

Envelope(r, k) ==
  [ref |-> r, keyid |-> k, sigOK |-> TRUE, keyidOK |-> TRUE, ceiling |-> NoCeiling]

MCDocs == {Envelope(r, k1) : r \in MCRef} \cup {Envelope(3, k2)}

\* Four paths.  At first the prereg is there under the first name, or under the
\* last with its root before it, so that a history can be broken and then be
\* added to.
MCPath == 1 .. 4
MCShelves ==
  { [p \in MCPath |-> IF p = 1 THEN Envelope(1, k1) ELSE NoFile],
    [p \in MCPath |-> CASE p = 4 -> Envelope(1, k1) [] p = 3 -> Envelope(2, k1)
                         [] OTHER -> NoFile] }
MCArguments == { <<Directory>> }
MCRequests == { {"BDR", "chain"} }
MCTimes == {0, 1}
=============================================================================
