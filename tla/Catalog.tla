------------------------------ MODULE Catalog ------------------------------
(***************************************************************************)
(* What a verify run promises, without its loops: it is asked for a number *)
(* of files and a set of tests, examines that many documents, and answers  *)
(* once, with the verdict the counting rule and the test catalog give for  *)
(* those documents taken together.                                         *)
(*                                                                         *)
(* When several documents are preregs with the same ref the rule speaks of *)
(* "the prereg's key" although there are several; the answer may then be   *)
(* the verdict for any one of them (`standing').  Verifier implements this *)
(* module, by always letting the last one read stand.                      *)
(***************************************************************************)
EXTENDS Manifests, Sequences

CONSTANTS NoQuestion, NoReport

VARIABLES question, evidence, answer
vars == <<question, evidence, answer>>

CatalogTests == {"BDR", "ceiling", "chain", "content", "floor", "keyconsist"}

Questions == [tests : SUBSET CatalogTests, artifacts : BOOLEAN, now : Nat, files : Nat]

-----------------------------------------------------------------------------
Examined == DOMAIN evidence
PreregsOf(r) == {i \in Examined : IsPrereg(evidence[i]) /\ evidence[i].ref = r}
Committed == {r \in Ref : PreregsOf(r) # {}}
Naming(r) == {i \in Examined : IsPostreg(evidence[i]) /\ FulfillsOf(evidence[i]) = r}

\* Which of the preregs with a ref the rule is applied to.
Standings == {s \in [Committed -> Examined] : \A r \in Committed : s[r] \in PreregsOf(r)}

Counts(i, p) == Signed(evidence[i]) /\ evidence[i].keyid = evidence[p].keyid

Toward(r, p) == {i \in Naming(r) : Counts(i, p)}
Against(r, p) == Naming(r) \ Toward(r, p)
ByOthers(r, p) == {i \in Against(r, p) : Signed(evidence[i])}

State(r, p) ==
  LET due == Body[r].due IN
  IF Toward(r, p) # {} THEN "fulfilled"
  ELSE IF due = BadDue THEN "invalid-due"
  ELSE IF due # NoDue /\ due <= question.now THEN "elapsed-no-receipt"
  ELSE "open"

Chained(r, p) == CheckChain(Toward(r, p),
                            [i \in Toward(r, p) |-> evidence[i].ref],
                            [i \in Toward(r, p) |-> PrevOf(evidence[i])])

\* The test applies to at least one thing, and holds of all it applies to.
Verdict(applicable, failing) ==
  IF applicable # {} /\ failing = {} THEN "PASS" ELSE "FAIL"

Result(t, s) ==
  LET status(i) == CASE t = "floor"   -> FloorStatus(evidence[i])
                     [] t = "ceiling" -> CeilingStatus(evidence[i])
                     [] t = "content" -> ContentStatus(evidence[i], question.artifacts)
                     [] OTHER         -> "absent"
  IN CASE t = "BDR" ->
            Verdict(Examined,
                    {i \in Examined : ~ IsClean(evidence[i]) \/ ~ Signed(evidence[i])})
       [] t \in {"floor", "ceiling", "content"} ->
            Verdict({i \in Examined : status(i) \notin {"absent", "skipped"}},
                    {i \in Examined : status(i) \notin {"absent", "skipped", "verified", "ok"}})
       [] t = "chain" ->
            Verdict({r \in Committed : Toward(r, s[r]) # {}},
                    {r \in Committed : ~ Chained(r, s[r])})
       [] t = "keyconsist" ->
            Verdict({r \in Committed : Naming(r) # {}},
                    {r \in Committed : ByOthers(r, s[r]) # {}})

AnswerFor(s) ==
  [read |-> evidence,
   commitments |->
     [r \in Committed |->
        [state |-> State(r, s[r]),
         chainOK |-> Chained(r, s[r]),
         keyConsistent |-> ByOthers(r, s[r]) = {},
         counted |-> Toward(r, s[r]),
         rejected |-> Against(r, s[r])]],
   notarized |-> {i \in Examined : IsPostreg(evidence[i])
                                     /\ FulfillsOf(evidence[i]) \notin Committed},
   results |-> [t \in question.tests |-> Result(t, s)],
   ok |-> \A t \in question.tests : Result(t, s) = "PASS"]

-----------------------------------------------------------------------------
Init == question = NoQuestion /\ evidence = << >> /\ answer = NoReport

Ask ==
  /\ question = NoQuestion
  /\ question' \in Questions
  /\ "BDR" \in question'.tests
  /\ evidence' = << >>
  /\ UNCHANGED answer

\* One more document, whatever it is, if its contents can be looked up.
Examine ==
  /\ question # NoQuestion
  /\ Len(evidence) < question.files
  /\ Len(evidence') = Len(evidence) + 1
  /\ evidence'[Len(evidence')] \in Documents
  /\ ContentStatus(evidence'[Len(evidence')], question.artifacts) # "raises"
  /\ evidence' = Append(evidence, evidence'[Len(evidence')])
  /\ UNCHANGED <<question, answer>>

\* The question is dropped, without an answer, over artifacts that cannot be
\* looked up.
Drop ==
  /\ question # NoQuestion
  /\ question.artifacts
  /\ Len(evidence) < question.files
  /\ question' = NoQuestion
  /\ UNCHANGED <<evidence, answer>>

Answer ==
  /\ question # NoQuestion
  /\ Len(evidence) = question.files
  /\ \E s \in Standings : answer' = AnswerFor(s)
  /\ question' = NoQuestion
  /\ UNCHANGED evidence

Next == Ask \/ Examine \/ Drop \/ Answer

Spec == Init /\ [][Next]_vars
=============================================================================
