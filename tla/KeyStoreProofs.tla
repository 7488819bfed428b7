--------------------------- MODULE KeyStoreProofs ---------------------------
(***************************************************************************)
(* Theorems about KeyStore, for any number of keygen processes.            *)
(***************************************************************************)
EXTENDS KeyStore, TLAPS

\* Past the exclusive open: the process that has created the secret key file.
Created(p) == at[p] \in {"write", "chmod", "openpub", "writepub", "done"}

\* The secret key file is the lock under which the sibling is written: one
\* process at most has created it, and while nobody has a process that found no
\* sibling still has none to fear.
Exclusive ==
  /\ \A p, q \in Keygen : Created(p) /\ Created(q) => p = q
  /\ \A p \in Keygen : Created(p) => secret # NoFile /\ private
  /\ \A p \in Keygen : at[p] = "open" /\ secret = NoFile => pub = NoFile
  /\ \A p \in Keygen : at[p] = "write" => secret = Torn /\ pub = NoFile
  /\ \A p \in Keygen : at[p] \in {"chmod", "openpub"} => secret = p /\ pub = NoFile
  /\ \A p \in Keygen : at[p] = "writepub" => secret = p /\ pub = Torn
  /\ \A p \in Keygen : at[p] = "done" => secret = p /\ pub = p
  /\ (\A p \in Keygen : ~ Created(p)) => /\ secret \in {NoFile, Earlier}
                                         /\ pub \in {NoFile, Earlier}
  /\ \A k \in loaded : k = secret

IInv == TypeOK /\ (Forced = {} => Exclusive)

-----------------------------------------------------------------------------
\* The inductive invariant holds at first.
LEMMA InitInv == Init => IInv
BY KeygenAssumption DEF Init, IInv, TypeOK, Exclusive, Created, Keys, Stages

\* Every step keeps the types.
LEMMA StepTyped == TypeOK /\ [Next]_vars => TypeOK'
<1> SUFFICES ASSUME TypeOK, [Next]_vars PROVE TypeOK'
  OBVIOUS
<1> USE KeygenAssumption DEF TypeOK, Keys, Stages, Goes
<1>1. ASSUME NEW p \in Keygen, Step(p) PROVE TypeOK'
  BY <1>1 DEF Step, CheckPub, OpenSecret, RefuseSecret, WriteSecret, Chmod, OpenPub, WritePub
<1>2. ASSUME NEW p \in Keygen, Die(p) PROVE TypeOK'
  BY <1>2 DEF Die
<1>3. CASE Load
  BY <1>3 DEF Load
<1>4. CASE UNCHANGED vars
  BY <1>4 DEF vars
<1> QED BY <1>1, <1>2, <1>3, <1>4 DEF Next

\* Every step of an unforced crowd keeps the ownership of the files.
LEMMA StepExclusive ==
  ASSUME TypeOK, Forced = {}, Exclusive, [Next]_vars
  PROVE  Exclusive'
<1> USE KeygenAssumption
<1>1. ASSUME NEW p \in Keygen, CheckPub(p) PROVE Exclusive'
  <2>1. /\ at \in [Keygen -> Stages] /\ at[p] = "check"
        /\ at' = [at EXCEPT ![p] = IF pub # NoFile THEN "refused" ELSE "open"]
        /\ UNCHANGED <<secret, pub, private, loaded>>
    BY <1>1 DEF CheckPub, Goes, TypeOK
  <2> QED BY <2>1 DEF Exclusive, Created
<1>2. ASSUME NEW p \in Keygen, OpenSecret(p) PROVE Exclusive'
  <2>1. /\ at \in [Keygen -> Stages] /\ at[p] = "open" /\ at' = [at EXCEPT ![p] = "write"]
        /\ secret = NoFile /\ secret' = Torn /\ private' /\ UNCHANGED <<pub, loaded>>
    BY <1>2 DEF OpenSecret, Goes, TypeOK
  <2>2. \A q \in Keygen : ~ Created(q)
    BY <2>1 DEF Exclusive
  <2>3. pub = NoFile /\ loaded = {}
    BY <2>1 DEF Exclusive, TypeOK, Keys
  <2> QED BY <2>1, <2>2, <2>3 DEF Exclusive, Created
<1>3. ASSUME NEW p \in Keygen, RefuseSecret(p) PROVE Exclusive'
  <2>1. /\ at \in [Keygen -> Stages] /\ at[p] = "open" /\ at' = [at EXCEPT ![p] = "refused"]
        /\ UNCHANGED <<secret, pub, private, loaded>>
    BY <1>3 DEF RefuseSecret, Goes, TypeOK
  <2> QED BY <2>1 DEF Exclusive, Created
<1>4. ASSUME NEW p \in Keygen, WriteSecret(p) PROVE Exclusive'
  <2>1. /\ at \in [Keygen -> Stages] /\ at[p] = "write" /\ at' = [at EXCEPT ![p] = "chmod"]
        /\ secret' = p /\ UNCHANGED <<pub, private, loaded>>
    BY <1>4 DEF WriteSecret, Goes, TypeOK
  <2>2. pub = NoFile /\ private /\ \A q \in Keygen : Created(q) => q = p
    BY <2>1 DEF Exclusive, Created
  <2>3. loaded = {}
    BY <2>1 DEF Exclusive, TypeOK, Keys
  <2> QED BY <2>1, <2>2, <2>3 DEF Exclusive, Created
<1>5. ASSUME NEW p \in Keygen, Chmod(p) PROVE Exclusive'
  <2>1. /\ at \in [Keygen -> Stages] /\ at[p] = "chmod" /\ at' = [at EXCEPT ![p] = "openpub"]
        /\ private' = TRUE /\ UNCHANGED <<secret, pub, loaded>>
    BY <1>5 DEF Chmod, Goes, TypeOK
  <2>2. secret = p /\ pub = NoFile /\ \A q \in Keygen : Created(q) => q = p
    BY <2>1 DEF Exclusive, Created
  <2> QED BY <2>1, <2>2 DEF Exclusive, Created
<1>6. ASSUME NEW p \in Keygen, OpenPub(p) PROVE Exclusive'
  <2>1. /\ at \in [Keygen -> Stages] /\ at[p] = "openpub" /\ at' = [at EXCEPT ![p] = "writepub"]
        /\ pub' = Torn /\ UNCHANGED <<secret, private, loaded>>
    BY <1>6 DEF OpenPub, Goes, TypeOK
  <2>2. secret = p /\ private /\ \A q \in Keygen : Created(q) => q = p
    BY <2>1 DEF Exclusive, Created
  <2> QED BY <2>1, <2>2 DEF Exclusive, Created
<1>7. ASSUME NEW p \in Keygen, WritePub(p) PROVE Exclusive'
  <2>1. /\ at \in [Keygen -> Stages] /\ at[p] = "writepub" /\ at' = [at EXCEPT ![p] = "done"]
        /\ pub' = p /\ UNCHANGED <<secret, private, loaded>>
    BY <1>7 DEF WritePub, Goes, TypeOK
  <2>2. secret = p /\ private /\ \A q \in Keygen : Created(q) => q = p
    BY <2>1 DEF Exclusive, Created
  <2> QED BY <2>1, <2>2 DEF Exclusive, Created
<1>8. ASSUME NEW p \in Keygen, Die(p) PROVE Exclusive'
  BY <1>8 DEF Die, Exclusive, Created
<1>9. CASE Load
  BY <1>9 DEF Load, Exclusive, Created
<1>10. CASE UNCHANGED vars
  BY <1>10 DEF vars, Exclusive, Created
<1> QED BY <1>1, <1>2, <1>3, <1>4, <1>5, <1>6, <1>7, <1>8, <1>9, <1>10 DEF Next, Step

\* Every reachable state satisfies the inductive invariant.
THEOREM Invariance == Spec => []IInv
<1>1. IInv /\ [Next]_vars => IInv'
  BY StepTyped, StepExclusive DEF IInv
<1> QED BY InitInv, <1>1, PTL DEF Spec

\* Type correctness, whoever forces.
THEOREM TypeCorrect == Spec => []TypeOK
<1>1. IInv => TypeOK
  BY DEF IInv
<1> QED BY <1>1, Invariance, PTL

\* A process that reports success has its own pair on disk, for ever.
THEOREM SuccessMeansPair == Spec => []DoneMeansPair
<1>1. IInv => DoneMeansPair
  BY DEF IInv, Exclusive, Created, DoneMeansPair
<1> QED BY <1>1, Invariance, PTL

\* Refusals leave the pair of files whole, or as it was, and no two keys are mixed.
THEOREM RefusalsAreClean == Spec => []RefusalLeavesNoHalf
<1>1. IInv => RefusalLeavesNoHalf
  <2> SUFFICES ASSUME TypeOK, Exclusive, Forced = {} PROVE RefusalLeavesNoHalf
    BY DEF IInv, RefusalLeavesNoHalf
  <2>1. ASSUME \A p \in Keygen : at[p] \in {"done", "refused"}
        PROVE  \/ secret \in {NoFile, Earlier} /\ pub \in {NoFile, Earlier}
               \/ \E p \in Keygen : secret = p /\ pub = p
    <3>1. CASE \A p \in Keygen : ~ Created(p)
      BY <3>1 DEF Exclusive
    <3>2. CASE \E p \in Keygen : at[p] = "done"
      BY <3>2 DEF Exclusive
    <3> QED BY <2>1, <3>1, <3>2 DEF Created
  <2>2. ASSUME NEW p \in Keygen
        PROVE  /\ secret = p => pub \in {NoFile, Torn, p}
               /\ pub = p => secret = p
    <3>1. CASE \A q \in Keygen : ~ Created(q)
      BY <3>1, KeygenAssumption DEF Exclusive
    <3>2. ASSUME NEW q \in Keygen, Created(q)
          PROVE  secret \in {Torn, q} /\ pub \in {NoFile, Torn, q} /\ (pub = q => secret = q)
      BY <3>2, KeygenAssumption DEF Exclusive, Created
    <3> QED BY <3>1, <3>2, KeygenAssumption
  <2> QED BY <2>1, <2>2 DEF RefusalLeavesNoHalf
<1> QED BY <1>1, Invariance, PTL

\* Among processes that do not force, no complete key file is ever changed.
THEOREM NothingOverwritten == Forced = {} => (Spec => UnforcedNeverOverwrites)
<1> SUFFICES ASSUME Forced = {} PROVE Spec => UnforcedNeverOverwrites
  OBVIOUS
<1>1. IInv /\ [Next]_vars =>
        [\A p \in Keygen \ Forced :
           at'[p] # at[p] =>
             /\ secret \in Keys => secret' = secret
             /\ pub \in Keys => pub' = pub]_vars
  <2> SUFFICES ASSUME TypeOK, Exclusive, Next
               PROVE  /\ secret \in Keys => secret' = secret
                      /\ pub \in Keys => pub' = pub
    BY DEF IInv, vars
  <2> USE KeygenAssumption DEF Goes, Keys
  <2>1. ASSUME NEW p \in Keygen, CheckPub(p) \/ RefuseSecret(p) \/ Chmod(p) \/ Die(p)
        PROVE  secret' = secret /\ pub' = pub
    BY <2>1 DEF CheckPub, RefuseSecret, Chmod, Die
  <2>2. ASSUME NEW p \in Keygen, OpenSecret(p)
        PROVE  secret \notin Keys /\ pub' = pub
    BY <2>2 DEF OpenSecret
  <2>3. ASSUME NEW p \in Keygen, WriteSecret(p)
        PROVE  secret \notin Keys /\ pub' = pub
    BY <2>3 DEF WriteSecret, Exclusive
  <2>4. ASSUME NEW p \in Keygen, OpenPub(p) \/ WritePub(p)
        PROVE  secret' = secret /\ pub \notin Keys
    BY <2>4 DEF OpenPub, WritePub, Exclusive
  <2>5. CASE Load
    BY <2>5 DEF Load
  <2> QED BY <2>1, <2>2, <2>3, <2>4, <2>5 DEF Next, Step
<1> QED BY <1>1, Invariance, PTL DEF Spec, UnforcedNeverOverwrites

\* All who load the key get the one that stays.
THEOREM OneKey == Spec => []OneSigner
<1>1. IInv => OneSigner
  BY DEF IInv, Exclusive, OneSigner
<1> QED BY <1>1, Invariance, PTL
=============================================================================
