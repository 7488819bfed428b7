----------------------------- MODULE Manifests -----------------------------
(***************************************************************************)
(* The documents asexec signs and verifies, reduced to what a verifier run *)
(* can tell apart, and the checks it makes of one document on its own      *)
(* (verify_signature, verify_floor, verify_ceiling, verify_content).       *)
(*                                                                         *)
(* A body is known by its ref, the SHA-256 of its canonical bytes.  Equal  *)
(* refs are equal bodies, so the body is a constant function of the ref.   *)
(* Refs are numbered in the order the bodies came to exist: a body can     *)
(* hold the ref of an earlier body only (`Assumptions' below).             *)
(***************************************************************************)
EXTENDS Naturals, Chain

CONSTANTS
  Ref,        \* references of the bodies in play
  KeyId,      \* key ids
  Body,       \* [Ref -> Bodies], the body each ref is the hash of
  Dangling,   \* a link that is the ref of no body (a non-string one included)
  NoDue,      \* no `due' was declared
  BadDue,     \* a `due' that is not an ISO-8601 timestamp
  NoCeiling,  \* no ceiling is attached to the envelope
  Malformed,  \* a file that is no envelope: unreadable, not JSON, duplicate keys...
  NoFile      \* there is no file at this path

Phases    == {"prereg", "postreg", "other"}
FloorForms == {"absent", "unsupported", "misshapen", "forged", "good"}

\* How the artifacts compare with `subject'.  One entry may make the comparison
\* raise, and nothing catches it: a name with a NUL in it, which realpath does
\* not take, or a directory with a file name that is not UTF-8, for hash_dir.
SubjectForms == {"absent", "misshapen", "differs", "matches", "raises"}

Bodies ==
  [phase : Phases,
   fulfills : Ref \cup {NoLink, Dangling},
   prev : Ref \cup {NoLink, Dangling},
   due : Nat \cup {NoDue, BadDue},
   floor : FloorForms,
   subject : SubjectForms]

Ceilings ==
  [form : {"unsupported", "misshapen", "ok"},
   nonce : Ref \cup {Dangling},     \* what the witness signed
   pinned : BOOLEAN,                \* its witness_id has a pinned key
   pubkeyAgrees : BOOLEAN,          \* its pubkey is absent or the pinned one
   responseValid : BOOLEAN]         \* verify_response accepts its response

\* What one well-formed file holds: a body, who claims to have signed it, and
\* whether that claim is true.  keyid is the claimed one (signature.keyid).
Envelopes ==
  [ref : Ref,
   keyid : KeyId,
   sigOK : BOOLEAN,                 \* sig verifies under signature.pubkey
   keyidOK : BOOLEAN,               \* keyid is the hash of signature.pubkey
   ceiling : Ceilings \cup {NoCeiling}]

Documents == Envelopes \cup {Malformed}

(***************************************************************************)
(* SHA-256 is taken to be free of collisions, and a body that embeds a ref *)
(* to have been written after the body the ref names.                      *)
(***************************************************************************)
ASSUME BodyAssumption ==
  /\ Ref \subseteq Nat
  /\ Body \in [Ref -> Bodies]
  /\ \A r \in Ref : Body[r].fulfills \in Ref => Body[r].fulfills < r
  /\ \A r \in Ref : Body[r].prev \in Ref => Body[r].prev < r

ASSUME DistinctAssumption ==
  /\ NoLink \notin Ref /\ Dangling \notin Ref /\ NoLink # Dangling
  /\ NoDue \notin Nat /\ BadDue \notin Nat /\ NoDue # BadDue
  /\ NoCeiling \notin Ceilings
  /\ Malformed \notin Envelopes /\ NoFile \notin Documents

-----------------------------------------------------------------------------
\* manifest.load followed by verify_signature, up to `clean = errors == []'
IsClean(d) == d # Malformed

\* the unit of the BDR test (and of the counting rule's second condition)
Signed(d) == d.sigOK /\ d.keyidOK

PhaseOf(d)    == Body[d.ref].phase
FulfillsOf(d) == Body[d.ref].fulfills
PrevOf(d)     == Body[d.ref].prev

IsPrereg(d)  == IsClean(d) /\ PhaseOf(d) = "prereg"
IsPostreg(d) == IsClean(d) /\ PhaseOf(d) = "postreg"

\* verify_floor
FloorStatus(d) ==
  CASE ~ IsClean(d)                            -> "absent"
    [] IsClean(d) /\ Body[d.ref].floor = "good"      -> "verified"
    [] IsClean(d) /\ Body[d.ref].floor = "forged"    -> "invalid"
    [] IsClean(d) /\ Body[d.ref].floor = "misshapen" -> "invalid"
    [] OTHER                                   -> Body[d.ref].floor

\* Mutant: the nonce is not compared with the ref of the body.
CeilingStatusUnbound(d) ==
  IF ~ IsClean(d) \/ d.ceiling = NoCeiling THEN "absent"
  ELSE IF d.ceiling.form # "ok" THEN "invalid"
  ELSE IF ~ d.ceiling.pinned THEN "unpinned"
  ELSE IF d.ceiling.pubkeyAgrees /\ d.ceiling.responseValid THEN "verified" ELSE "invalid"

\* verify_ceiling, and roughtime.verify_ceiling in the order of its checks
CeilingStatus(d) ==
  IF ~ IsClean(d) \/ d.ceiling = NoCeiling THEN "absent"
  ELSE LET c == d.ceiling IN
       CASE c.form = "unsupported"             -> "unsupported"
         [] c.form = "misshapen"               -> "invalid"
         [] c.form = "ok" /\ c.nonce # d.ref   -> "invalid"
         [] c.form = "ok" /\ c.nonce = d.ref /\ ~ c.pinned -> "unpinned"
         [] OTHER -> IF c.pubkeyAgrees /\ c.responseValid
                     THEN "verified" ELSE "invalid"

\* verify_content: `artifacts' says whether --artifacts was given
ContentStatus(d, artifacts) ==
  IF ~ IsClean(d) \/ ~ artifacts \/ Body[d.ref].subject = "absent"
  THEN "skipped"
  ELSE CASE Body[d.ref].subject = "matches" -> "ok"
         [] Body[d.ref].subject = "raises"  -> "raises"
         [] OTHER                           -> "mismatch"
=============================================================================
