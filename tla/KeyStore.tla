------------------------------ MODULE KeyStore ------------------------------
(***************************************************************************)
(* keys.save as cmd_keygen calls it: `asexec keygen' processes that write  *)
(* a key pair, all to the same path and its sibling `<path>.pub', and      *)
(* keys.load_signing_key as the other commands call it on that path.       *)
(*                                                                         *)
(* Every process generates its own key, so a key is known by the process   *)
(* it belongs to; Earlier is a key from before.  A file is Torn between    *)
(* the moment it is opened for writing and the moment it is closed: its    *)
(* few hundred bytes leave the buffer at once, and are as many for every   *)
(* key, so that of two processes writing one file the last to close wins.  *)
(***************************************************************************)
CONSTANTS
  Keygen,     \* the processes
  Forced,     \* those started with --force
  Earlier,    \* the key of a pair that was there before
  NoFile,
  Torn

ASSUME KeygenAssumption ==
  /\ Forced \subseteq Keygen
  /\ Earlier \notin Keygen /\ NoFile \notin Keygen /\ Torn \notin Keygen
  /\ Earlier # NoFile /\ Earlier # Torn /\ NoFile # Torn

VARIABLES
  secret,     \* what the file at the path holds
  pub,        \* what its sibling holds
  private,    \* whether the mode of the secret key file is 0600
  at,         \* where each process is
  dead,       \* the processes that were killed
  loaded      \* the keys that commands have loaded from the path so far

vars == <<secret, pub, private, at, dead, loaded>>

Stages == {"check", "open", "write", "chmod", "openpub", "writepub", "done", "refused"}
Keys == Keygen \cup {Earlier}

Goes(p, from, to) ==
  /\ p \notin dead
  /\ at[p] = from
  /\ at' = [at EXCEPT ![p] = to]
  /\ UNCHANGED <<dead, loaded>>

-----------------------------------------------------------------------------
\* Either file may be there already, without the other too.
Init ==
  /\ secret \in {NoFile, Earlier} /\ pub \in {NoFile, Earlier}
  /\ private \in BOOLEAN
  /\ at = [p \in Keygen |-> "check"]
  /\ dead = {}
  /\ loaded = {}

\* Mutant: the sibling is not looked at.
CheckPubNever(p) == Goes(p, "check", "open") /\ UNCHANGED <<secret, pub, private>>

\* not force and os.path.lexists(path + ".pub")
CheckPub(p) ==
  /\ Goes(p, "check", IF p \notin Forced /\ pub # NoFile THEN "refused" ELSE "open")
  /\ UNCHANGED <<secret, pub, private>>

\* Mutant: what the opening found is looked at after it.
OpenSecretLoosely(p) ==
  /\ Goes(p, "open", IF p \notin Forced /\ pub # NoFile THEN "refused" ELSE "write")
  /\ secret' = Torn
  /\ private' = (private \/ secret = NoFile)
  /\ UNCHANGED pub

\* os.open with O_TRUNC when forced; the mode is that of a new file only
OpenSecret(p) ==
  /\ p \in Forced \/ secret = NoFile
  /\ Goes(p, "open", "write")
  /\ secret' = Torn
  /\ private' = (private \/ secret = NoFile)
  /\ UNCHANGED pub

\* os.open with O_EXCL on a file that is there: FileExistsError
RefuseSecret(p) ==
  /\ p \notin Forced /\ secret # NoFile
  /\ Goes(p, "open", "refused")
  /\ UNCHANGED <<secret, pub, private>>

WriteSecret(p) ==
  /\ Goes(p, "write", "chmod")
  /\ secret' = p
  /\ UNCHANGED <<pub, private>>

Chmod(p) ==
  /\ Goes(p, "chmod", "openpub")
  /\ private' = TRUE
  /\ UNCHANGED <<secret, pub>>

\* open(path + ".pub", "w"): whatever is there now is truncated
OpenPub(p) ==
  /\ Goes(p, "openpub", "writepub")
  /\ pub' = Torn
  /\ UNCHANGED <<secret, private>>

\* Mutant: the sibling gets the record that was meant for the secret file.
WritePubWholeRecord(p) ==
  /\ Goes(p, "writepub", "done")
  /\ pub' = <<"private_key", p>>
  /\ UNCHANGED <<secret, private>>

WritePub(p) ==
  /\ Goes(p, "writepub", "done")
  /\ pub' = p
  /\ UNCHANGED <<secret, private>>

\* A process may be killed, or fail to write, wherever it is.
Die(p) ==
  /\ p \notin dead
  /\ at[p] \notin {"done", "refused"}
  /\ dead' = dead \cup {p}
  /\ UNCHANGED <<secret, pub, private, at, loaded>>

\* prereg, postreg or identity reads the secret key file; a torn one is no JSON
\* and a missing one cannot be opened, and then nothing is loaded.
Load ==
  /\ secret \in Keys
  /\ loaded' = loaded \cup {secret}
  /\ UNCHANGED <<secret, pub, private, at, dead>>

Step(p) ==
  \/ CheckPub(p) \/ OpenSecret(p) \/ RefuseSecret(p) \/ WriteSecret(p)
  \/ Chmod(p) \/ OpenPub(p) \/ WritePub(p)

Next ==
  \/ \E p \in Keygen : Step(p) \/ Die(p)
  \/ Load

Spec == Init /\ [][Next]_vars

-----------------------------------------------------------------------------
(* Properties *)

\* Type correctness of the two files, of where each process is and of what was
\* loaded.
TypeOK ==
  /\ secret \in Keys \cup {NoFile, Torn} /\ pub \in Keys \cup {NoFile, Torn}
  /\ private \in BOOLEAN
  /\ at \in [Keygen -> Stages]
  /\ dead \subseteq Keygen
  /\ loaded \subseteq Keys

\* "Refuses to overwrite either file unless force": no step of a process
\* started without --force changes a key file that is complete, whatever the
\* other processes do between its look at the sibling and its own writes.
UnforcedNeverOverwrites ==
  [][\A p \in Keygen \ Forced :
       at'[p] # at[p] =>
         /\ secret \in Keys => secret' = secret
         /\ pub \in Keys => pub' = pub]_vars

\* What the same sentence says of the sibling alone, once a pair is complete:
\* without --force its public half stays (line 62 opens it with mode "w").
UnforcedLeavesPairs ==
  [][\A p \in Keygen \ Forced :
       (at'[p] # at[p] /\ secret \in Keys /\ pub = secret) => pub' = pub]_vars

\* When nobody forces, a process that reports success has its own pair on disk,
\* both halves, readable by the owner only - and it stays there.
DoneMeansPair ==
  Forced = {} => \A p \in Keygen : at[p] = "done" => secret = p /\ pub = p /\ private

\* When nobody forces, "a refusal never leaves a half-written pair": once every
\* process was refused or reported success, the two files are as they were
\* before, or are both one process's.  And the half that a killed process leaves
\* is never completed with a half of another key.
RefusalLeavesNoHalf ==
  Forced = {} =>
    /\ (\A p \in Keygen : at[p] \in {"done", "refused"}) =>
         \/ secret \in {NoFile, Earlier} /\ pub \in {NoFile, Earlier}
         \/ \E p \in Keygen : secret = p /\ pub = p
    /\ \A p \in Keygen : secret = p => pub \in {NoFile, Torn, p}
    /\ \A p \in Keygen : pub = p => secret = p

\* When nobody forces, whoever signs with the key at the path, before, while or
\* after keygen processes race for it and die, signs with one and the same key,
\* and that key is the one of the file that stays.
OneSigner == Forced = {} => \A k \in loaded : k = secret
=============================================================================
