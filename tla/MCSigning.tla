----------------------------- MODULE MCSigning -----------------------------
(***************************************************************************)
(* Small instances of Signing: one committer of a prereg, two of postregs, *)
(* in a directory that has a prereg, a file that is no manifest and two    *)
(* that have a payload and a signature only.                               *)
(***************************************************************************)
EXTENDS Signing, Sequences

CONSTANTS k1, old, bad, loose, husk, new, first, second

MCPath == {old, bad, loose, husk, new, first, second}

NewBody(phase, fulf, pre, d, fl) ==
  [phase |-> phase, fulfills |-> fulf, prev |-> pre, due |-> d, floor |-> fl,
   subject |-> "absent"]

\* The bodies that the command lines below can lead to, in three generations.
Preregs ==
  << NewBody("prereg", NoLink, NoLink, NoDue, "absent"),
     NewBody("prereg", NoLink, NoLink, 1, "absent"),
     NewBody("prereg", NoLink, NoLink, 1, "good"),
     NewBody("prereg", NoLink, NoLink, 1, "forged") >>
OldPrereg == 1

Firsts ==
  << NewBody("postreg", 1, NoLink, NoDue, "absent"),
     NewBody("postreg", 1, NoLink, 1, "absent"),
     NewBody("postreg", 1, NoLink, NoDue, "good"),
     NewBody("postreg", 1, NoLink, NoDue, "forged"),
     NewBody("postreg", 2, NoLink, 1, "absent"),
     NewBody("postreg", 3, NoLink, 1, "absent"),
     NewBody("postreg", 4, NoLink, 1, "absent"),
     NewBody("postreg", Dangling, NoLink, NoDue, "absent"),
     NewBody("postreg", Dangling, NoLink, 1, "absent") >>

\* For each prereg: after each of the above, and after what dangles, with and
\* without a deadline, and after the prereg itself.
Successors ==
  [n \in 1 .. 80 |->
     LET i == n - 1
         before == (i \div 2) % 10
     IN NewBody("postreg", 1 + (i \div 20),
                IF before = Len(Firsts) THEN Dangling ELSE Len(Preregs) + 1 + before,
                IF i % 2 = 0 THEN NoDue ELSE 1, "absent")]
    \o [r \in DOMAIN Preregs |-> NewBody("postreg", r, r, Preregs[r].due, "absent")]

MCBody == Preregs \o Firsts \o Successors
MCRef == DOMAIN MCBody

Line(phase, fulf, pre, d, target, fl, ceil, best, out) ==
  [phase |-> phase, key |-> k1, target |-> target, due |-> d, fulfills |-> fulf, prev |-> pre,
   floor |-> fl, ceiling |-> ceil, bestEffort |-> best, out |-> out]

PreregLines(out) ==
  {Line("prereg", Dangling, NoLink, 1, TRUE, fl, ceil, best, out) : fl, ceil, best \in BOOLEAN}
   \cup {Line("prereg", Dangling, NoLink, d, TRUE, FALSE, FALSE, FALSE, out) : d \in {NoDue, BadDue}}

Plain(fulf, pre, d, target, out) ==
  Line("postreg", fulf, pre, d, target, FALSE, FALSE, FALSE, out)

\* The committers are numbered; each has command lines with its own output file.
MCCommitter == 1 .. 3
FreshPlan ==
  << PreregLines(new),
     {Plain(fulf, NoLink, NoDue, fulf # Dangling, first) : fulf \in {new, old, bad, loose, husk, Dangling}}
       \cup {Plain(Dangling, NoLink, NoDue, TRUE, first), Plain(old, NoLink, 1, FALSE, first),
             Plain(husk, NoLink, 1, TRUE, first),
             Line("postreg", old, NoLink, NoDue, TRUE, TRUE, TRUE, FALSE, first)},
     {Plain(fulf, pre, NoDue, TRUE, second) : fulf \in {new, old}, pre \in {first, bad, loose}} >>

\* The prereg goes to the default output file, which exists.
OverwritePlan ==
  << {Line("prereg", Dangling, NoLink, 1, TRUE, FALSE, FALSE, FALSE, old)},
     {Plain(old, NoLink, NoDue, FALSE, first)}, {} >>

MCShelf ==
  [p \in MCPath |->
     CASE p = old -> [ref |-> OldPrereg, keyid |-> k1, sigOK |-> TRUE, keyidOK |-> TRUE,
                      ceiling |-> NoCeiling]
       [] p = bad -> Malformed
       [] p = loose -> [ref |-> Dangling, terms |-> 1]
       [] p = husk -> [ref |-> Dangling, terms |-> NoTerms]
       [] OTHER -> NoFile]
=============================================================================
