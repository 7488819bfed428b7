----------------------------- MODULE MCContent -----------------------------
(***************************************************************************)
(* Two directories with one basename, the first of them with a directory   *)
(* below it, the second with a file whose name is not UTF-8, and a single  *)
(* file.                                                                   *)
(***************************************************************************)
EXTENDS Content

CONSTANTS f1, f2, out, g1, g2, top, below, other, work, elsewhere, single

MCRel == (f1 :> 1) @@ (f2 :> 2) @@ (out :> 3) @@ (g1 :> 1) @@ (g2 :> 4)
MCIn == (f1 :> top) @@ (f2 :> below) @@ (out :> top) @@ (g1 :> other) @@ (g2 :> other)

MCIsDir == (work :> TRUE) @@ (elsewhere :> TRUE) @@ (single :> FALSE)
MCFilesOf == (work :> {f1, f2, out}) @@ (elsewhere :> {g1, g2}) @@ (single :> {f1})
MCName == (work :> "work") @@ (elsewhere :> "work") @@ (single :> "single")

Scene(subject, out_, atWork, atSingle, files) ==
  [subject |-> subject, out |-> out_, files |-> files,
   found |-> [n \in {"work", "single"} |-> IF n = "work" THEN atWork ELSE atSingle]]

\* The manifest is written beside the subject, or into it; the artifacts are
\* what was signed, or another place of that name, or are not there.
MCScenes ==
  { Scene(<<work>>, g1, work, single, {f1, f2, out}),
    Scene(<<work>>, out, work, single, {f1, f2, out}),
    Scene(<<elsewhere, single>>, out, elsewhere, single, {g1, g2, f1}),
    Scene(<<elsewhere, work>>, out, work, single, {g1, f1, f2, out}),
    Scene(<<single>>, g1, work, NoPlace, {f1}) }
=============================================================================
