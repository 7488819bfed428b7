# asexec in TLA+

asexec lets somebody who will run an evaluation sign, beforehand, what they are going to run
(a *prereg*) and, afterwards, what they ran (a *postreg* that *fulfills* the prereg, in a chain
linked by `prev_hash`). `asexec verify` reads a heap of such manifests and says, offline, which
commitments were kept. The modules here model the program in `src/src/asexec`, are
model-checked with TLC on small instances, and carry theorems that TLAPS checks for every value
of the constants. Paths below are those of the repository, with `src/` in front.

## The system

| Component | State it keeps | Operations | What makes it correct |
|---|---|---|---|
| verifier run, `verifier.py` | lists and dictionaries of one run: files, manifests, preregs by ref, receipts, report | expand arguments, load and check each file, group the postregs, judge commitments, evaluate tests | each postreg placed once; the documented counting rule; a PASS that leaves nothing out; an end, with a report unless a comparison raises |
| chain check, `_check_chain` | none | one verdict on a list of receipts | the verdict means "one linear history" |
| checks of one manifest, `verify_floor`, `verify_ceiling`, `verify_content`, `models.py`, `fields.py` | none | one status each | no witness for another body, no pass on a malformed record |
| signing commands, `cmd_prereg`, `cmd_postreg`, `manifest.py` | one manifest being built; the output file | resolve links, inherit terms, fetch witnesses, sign, write | links and terms from one and the same prereg; "nothing was written" is true |
| keys, `keys.save`, `load_signing_key`, `cmd_keygen` | a secret key file and its `.pub` sibling | look, create exclusively, write, chmod, write the sibling; load | no key overwritten unforced, no half pair, owner-only, one key for all who load it |
| Roughtime, `roughtime.py` | pinned servers | build a request, try the servers, parse and verify a response | only a response for this nonce and under a pinned key; an accepted ceiling is after the signature; one reading of every packet |
| drand, `drand.py` | pinned chains | fetch a round from a mirror, verify a round | randomness and signature of that round; an accepted floor is before the signature |
| content hashing, `hashing.py` | none | digest a file or a tree | the same tree, the same digest; a match means the files that were signed |
| identity, `identity.py` | none (one HTTP answer) | search a domain's published keys | the right entry is matched |
| command line, `cli.py` | none | parse, print | the exit status follows the report |
| release script, `scripts/release.sh` | the Git working tree | edit, check, commit, tag, push | a failure before the commit leaves no edit |

The components interact in two ways. Inside a process they call each other: the commands call
`manifest`, `keys`, `drand` and `roughtime`; `verify_paths` calls everything else. Between
processes there is only the file system: a directory of manifests that committers write and
verifiers read, and key files that several `keygen` may write. Nothing is locked, and `save`
truncates a file before it writes it. The hard behaviours are therefore: order of files
and of loops inside a run, files that change between two readings, files seen half-written,
processes killed between two writes, witnesses that fail at the last moment, and the meaning
of a long list of small verdicts.
The network adds mirrors that serve anything and datagrams that are lost, late or another's. `PROJECT.json` lists each under `hazards` with its line.

## The modules

| Module | Models | Variables and actions |
|---|---|---|
| `Chain` | `_check_chain` | operators only; `Linear` is what it is supposed to mean |
| `Manifests` | the documents and the checks of one document | operators only |
| `Verifier` | `verify_paths` and `cmd_verify` | one action per turn of a loop |
| `Catalog` | the promise of a run: questions, documents, one answer | abstract, no loops |
| `VerifierRefinement` | `Verifier` implements `Catalog` | the refinement mapping |
| `Archive` | `Verifier` composed with committers and the clock | `Create`, `Fill`, `Tick`, `Again` |
| `KeyStore` | `keys.save` as `keygen` calls it, `load_signing_key` | one action per system call, and `Load` |
| `Signing` | `cmd_prereg`, `cmd_postreg` | one action per reading, fetch and write |
| `Drand` | rounds, times and `verify_round` | operators only |
| `Roughtime` | `verify_response`, `verify_ceiling` | operators only |
| `TimeAnchors` | `fetch_round`, `fetch_ceiling` and the commands that call them, among mirrors, servers, network and clock; composes `Drand` and `Roughtime` | one action per request, answer and failure |
| `Wire` | `build_message`, `parse_message`, `build_request`, `_strip_framing` | operators, and a packet that grows word by word |
| `Merkle` | `merkle_root` | one action per round of its loop |
| `Content` | `hashing.py`, `build_subject`, `verify_content` over a disk that changes | one action per listing, open, block and comparison |
| `MC*` | small instances | constants only |
| `ChainProofs`, `VerifierProofs`, `ArchiveProofs`, `KeyStoreProofs`, `SigningProofs`, `TimeAnchorsProofs`, `WireProofs` (with `Merkle`), `ContentProofs` | theorems | |

**Manifests.** A body is known by its ref, the hash of its canonical bytes, so that a body is a
constant function of the ref. A body can embed the ref of an earlier body only; refs are numbered
in the order in which the bodies came to exist (`BodyAssumption`, which says that nobody finds a
body that contains its own hash). A document is an envelope (a ref, the claimed key id, whether
the signature and the key id are right, a ceiling) or `Malformed`, which is all that the loader
refuses: unreadable, no JSON, duplicate keys, a shape that `EnvelopeInput` rejects. Floors,
ceilings and subjects are the forms that the code distinguishes. One form of a subject is `"raises"`:
its comparison ends in an exception that `verify_content` does not catch, as for a name with a NUL
in it (`verifier.py:243`) or a file name that is not UTF-8 (`hashing.py:85`).

**Verifier.** The variables are the local variables of `verify_paths`: `files`, `read`
(`manifests_report`), `preregs`, `pending` (`receipts`), `counted` and `rejected` (the two lists of
a prereg record), `notarized`. A list entry is the position of its file, so that one document
supplied twice is two entries, as in the code. `LoadPrereg`, `LoadPostreg` and `LoadOther` are one
turn of the first loop, and read the file as it is at that moment; `GroupCounted`, `GroupRejected`
and `GroupNotarized` are one turn of the second; `Conclude` is everything after it, which reads
nothing from outside. A run may end without a report: `ListingFails` when a directory among the
arguments cannot be listed (`verifier.py:546`), `LoadRaises` when the comparison of a subject raises,
which happens outside the `try` of the loop (`verifier.py:326`). The directory and the clock are variables that only `Archive` changes. A
prereg with the ref of an earlier one replaces it, as in the dictionary.

**Catalog.** A run is a question (tests, number of files, whether artifacts are given, the
moment), a sequence of examined documents, and an answer that the counting rule and the test
catalog determine from these documents. When several preregs have one ref, `Catalog` lets the rule be
applied to any of them: this is as much as the code keeps.

**Archive.** `manifest.save` is two steps, `Create` (open, which empties) and `Fill`. A writer that
dies in between never fills. Runs of the verifier interleave with these steps and with the clock.
Every output file is new here; that this is what the commands do when each has an output file of
its own is the property `DirectoryGrows` of `Signing`.

**KeyStore.** A key is known by the process that generated it. A file is `Torn` from the moment it
is opened to the moment it is closed. Processes are killed anywhere (`Die`). `Load` is a command that
reads the secret file at any moment; the history variable `loaded` keeps what it got. A torn file is no
JSON, a missing one cannot be opened: nothing is loaded then. The look at the `.pub` and its opening are
two steps, with the exclusive creation of the secret file between them: what that keeps out, and what
it lets through when somebody forces, are the two runs.

**Signing.** `ResolveFulfills`, `ResolvePrev` and `Inherit` are three readings of the directory, in
the order of `cmd_postreg`. They accept whatever has a payload and a signature (`Readable`,
`cli.py:121`), also files that are manifests to the loader of these commands alone (`Loose`), which may
have no terms to inherit (`NoTerms`, `TermsAt`). `SignWithFloor` fetches the floor, builds the body and signs it: signing
picks the ref of any body with the fields the command has gathered. A forged floor may be signed,
since the beacon is not verified at sign time; a ceiling is always good, since `fetch_ceiling`
returns only what it verified. `OpenOut` and `WriteOut` are the two halves of `save`, and a
process that dies in between leaves the file empty. A file that
another process writes at the same time may end up as neither manifest (`Malformed`).

**TimeAnchors.** A command tries the mirrors (`MirrorServes`, `MirrorFails`, `MirrorTrickles`, `NoMirrorLeft`), signs,
and tries the servers (`Send`, `SendFails`, `Receive`, `NextServer`, `NoServerLeft`), in the order of
`cmd_prereg` and `cmd_postreg`. Outside are `Tick`, which is the clock and the beacon, and
`Answer`. A mirror serves anything that can exist: an old round, one under another number,
one with a wrong signature or randomness; a signature of a round that is not due cannot exist. A
mirror may also trickle: it sends a little before each timeout, and the command reads on until the
mirror ends its body or falls silent, if it ever does. A
server may answer any request at any time and again, and what a socket reads is any answer ever made,
whole or damaged: this is loss, delay, repetition, reordering and misdelivery in one. A witness
tells the true time as long as it says a time inside the window of its delegation (the key that
signs is replaced afterwards, and may then be in other hands); outside the window it says anything.
Without that assumption a ceiling proves nothing. `NoLaterThan` is asked of every ceiling moved to
any body, with its public key or stripped of it (`models.py:101`), since the envelope is not signed, and
of every installation in `VerifierPins`. Both
`verify_round` and `verify_ceiling` here are those that `Manifests` calls `FloorStatus` and
`CeilingStatus` by their outcome.

**Wire.** A packet is a sequence of four-byte words and a remainder of up to three bytes; the tags of
a request are three words in their order. Every packet over five words is tried, up to eight
words, and the request for every nonce of up to eight words across the boundary of the padding
(`RequestMin`, 256 words in the code).

**Merkle.** SHA-512 is a free constructor, with leaves and nodes apart as `_TREE_LEAF` and
`_TREE_NODE` keep them. A server's tree is a map from levels and positions to hashes. `OpeningExact`
is an equivalence, and says that INDX counts only modulo 2^height: the code does not look at what is
left of it (`roughtime.py:229`), and a nonce has as many accepted indices.

**Content.** A place is a file or a directory with files in it. `ListDirectory`, `SkipFile`,
`OpenFile`, `ReadBlock` and `EndEntry` are the walk of `hash_dir`, once when a subject is signed and
once when it is verified; `Change` is anybody who overwrites, creates or removes a file in between.
`out` is where the manifest goes, perhaps into a subject. A file
whose name is not UTF-8 (`Undecodable`) ends the walk with an exception (`EncodingFails`), when signing
and when verifying; a file that cannot be opened ends it with an error (`OpenFails`). `Found` is what a name leads to under
`--artifacts`. A digest is its lines, that is, SHA-256 is a free constructor; that takes file names
without a newline, which `hash_dir` does not escape. The order of the lines is that of the code,
which begins with the hash of the file; the docstring of `hashing.py` says that it is by path, which
no verdict of this program can tell.

## Runs

| Run | Question | Bounds | States |
|---|---|---|---|
| `verifier` | Does a run end, and is every report the verdict of the rule? Types, placement of the postregs, counting rule, keyconsist, meaning of PASS, no witness that fails is hidden; refinement of `Catalog` | 3 files, each absent or one of 20 documents of histories (8 bodies, 2 keys, bad signatures, malformed), one possibly listed twice; or 2 files of 31 with floors, ceilings and subjects in every form; two times | 510,228 |
| `verifier_raises` | Does every run end with a report, as documented? | 2 documents, one with a subject that cannot be looked up | violated |
| `verifier_rivals` | The counting rule as documented, for any files | 2 copies of one prereg under 2 keys, 1 postreg | violated |
| `archive` | May a later report contradict an earlier one, a broken history be mended, or a chain pass that is no linear history? | 4 paths: a prereg under the first name, or under the last with its root before it; up to 3 files added one by one out of a root postreg, two successors and a rival key; two times | 3,247,524 |
| `keystore` | Races and deaths of `keygen` without `--force` | 5 processes, symmetric, every earlier state of the files, keys loaded at any time | 1,862 |
| `keystore_forced` | Does a process that does not force leave a completed pair alone when another one forces? | 2 processes | violated |
| `signing` | Links, terms, witnesses and the directory | 3 committers, 7 files, 3 generations of manifests, a file that only these commands take for a manifest, one without terms | 563,415 |
| `signing_overwrite` | The same when a prereg goes to a file that is read | 2 active committers | violated |
| `anchors` | What floors and ceilings prove, and do the commands end? | 2 commands, 2 mirrors, 2 servers, 3 installations, clock 0..3 across genesis and two rounds, one delegation that runs out | 1,083,080 |
| `wire` | Is a packet read in one way only? Does a path open only the leaf it names? | packets of 8 words over 5 words and a remainder; trees of height 0 to 2, indices 0..7, paths of 3 | 2,089,875 |
| `content` | What does a matching digest say when files change? | 5 files of 2 blocks in 3 directories, one with a name that is not UTF-8; 5 subjects, each with the files it can meet; 2 changes at any moment | 7,441,023 |
| `content_unlisted` | The same for a directory that cannot be listed | as `content` | violated |

Why these bounds are enough to be worth something. A verdict on a postreg depends on it, its
prereg and possibly a rival prereg: three files; a repeated argument gives a fourth position. A later
report contradicts an earlier one through a single added file, so `archive` needs a prereg, a
postreg and one more; a history that is broken by two roots or two successors needs three files
and one more, and is why the archive has four paths. For `keystore`, two processes make every race
and a third and fourth meet the leavings of dead ones.
`signing` has a chain of three commands that read one another's output.
In `anchors` one command's late answer meets the other's socket, and one server's the socket meant for
the other. `wire` has one more word than a header and a value of two words need for three tags, and
paths one longer than its trees. In `content` two changes make a file that is read torn and then
changed again, or two files exchange what they hold during a walk. Each property of a passing
run has a mutant, listed in `PROJECT.json`: the run with the mutated definition violates it.
Bounds in guards: `MaxFiles` (the list of files, `Start`), `MaxTime` (the clock, `Tick`), `MaxAnswers`
(answers of one witness, `Answer`), `MaxWords` (`Longer`), `MaxPath` (`Climb`), `MaxWrites` (`Change`);
`FileLength` is the number of blocks of a file.

Deadlock is not checked: a run that has ended, a command that has finished and a directory that
is full stop, rightly.

**Fairness.** Two properties need any. `RunEnds`: weak fairness of `Run`, the steps of a verifier
that has started. A run is one sequential loop over a finite list, waits for nobody and takes no
lock, so its next step is enabled until it ends. It says that a run ends with a report, or at a subject
whose comparison raises. `FetchEnds`: weak fairness of each command's `Step`, but
only as long as no mirror holds it. A Roughtime socket has a timeout of five seconds and is read once
(`roughtime.py:376`), so `NextServer` comes in the end whatever the network does. The timeout of an HTTP
request (`drand.py:72`) bounds each operation on the connection and not the request, and
`json.load` reads to the end of the body (`drand.py:73`): nothing makes a mirror that trickles ever
end, and `FetchEnds` says just this, that a command ends unless it asks for a floor and one mirror
trickles for ever. The resolver of the host, which no timeout of the program covers, is taken to give
up on a name in the end. Nothing else is assumed of the world: no beacon, mirror, server or network is
fair. Nor is `keygen`, or a committer who writes files, and nothing is claimed about when they
finish.

### What the five violations show

* `verifier_raises`: `verify_content` is called outside the `try` (`verifier.py:326`) and catches
  `ValidationError` and `OSError` only. A subject whose name has a NUL in it makes `realpath` raise
  `ValueError`, and the run ends in a traceback, without a verdict on any file. `VERIFICATION.md:28`
  says that there is "no error state" and that malformed input "is never an exception".
* `verifier_rivals`: the ref of a prereg does not depend on its signer. Of two preregs with one
  body and two keys only the one read last is kept (`verifier.py:349`). `VERIFICATION.md:493`
  states the rule for every prereg. `CountingRule` is the rule for files without such rivals.
* `keystore_forced`: `keys.save` promises not to overwrite either file unless forced
  (`keys.py:36`); the `.pub` is looked for first and opened without exclusion later (`keys.py:52`,
  `:62`). A forced process that replaces the secret key and completes its pair in between has its `.pub`
  truncated by the unforced one, which then puts the public half of a lost key there.
  `UnforcedLeavesPairs` asks about a completed pair only, so that the counterexample is this one and not an
  overwritten secret file that its owner has not finished with.
* `signing_overwrite`: a postreg takes its ref and its terms from two readings of one file
  (`cli.py:223`, `:227`).
* `content_unlisted`: `os.walk` is called without `onerror` (`hashing.py:71`), so a directory that
  cannot be listed is left out of the digest in silence, where an unreadable file is an error. The
  docstring says "We walk every regular file under the directory" (`hashing.py:8`), and
  `VERIFICATION.md:335` says that a match shows that the artifact was not altered. `MatchPins` is that
  promise for trees that can be listed.

## Proofs

Every invariant and every action property of a passing run is stated by a theorem, and so is the
refinement: what the runs show on small instances the theorems say of all values of the constants,
that is, of any bodies, documents, paths, keys, processes, packets, trees, files and bounds. Two
carry as a hypothesis what is true of the run: `NothingOverwritten` that nobody forces (`Forced =
{}`), and `Inherited` that output files are fresh and not shared (`FreshOuts`).

The assumptions are those the modules name, and every passing run evaluates those of its modules.
Nearly all say what kind of thing a constant is. The ones with content:
* `BodyAssumption`: refs are acyclic, which stands for the hash function.
* `DirectoryAssumption`: in `Archive` a run is given the directory as a whole. `ShelvesAssumption`:
  an archive begins with finitely many files, all of them whole.
* `WireAssumption`: the first word of "ROUGHTIM" is no tag count (it is over 1024), the three tags
  of a request are ASCII and in their order, and a message may have three tags.
* `MerkleAssumption`: the trees that servers sign are trees (`IsTree`).
* `SigningAssumption`: a `Loose` file is neither absent nor malformed, and an empty file is no manifest.
* `ContentAssumption`: two files of one place differ in their relative path, what is no directory is
  one file, and a file that is absent is not mistaken for a content.
* `AnchorsAssumption`: a committer's body is known by its nonce, so two committers sign two bodies;
  every server that is tried has a pinned key; a witness has one delegation window and one radius.

* `ChainProofs`. `PassedIsLinear` and `LinearPasses`: the verdict of `_check_chain` is equivalent to
  being one linear history. With one root, no gap and no fork, a path from the root that does not
  hold every receipt can be prolonged by the receipt of least ref outside it: its predecessor is of
  a smaller ref, hence on the path, and without a fork it is the path's last. So there is a path of
  every length up to the number of receipts: the least length without one leads to none. Acyclicity
  is needed: without it a cycle beside the chain passes.
* `VerifierProofs`. `IInv` says that `preregs` holds the last position of each ref, that the
  postregs are divided among the lists with what each list stands for, and that a report was made of
  the state it is read with. `PostregsPlacedOnce` or the counting rule alone are not inductive: they
  say nothing of which prereg a lookup finds, nor, once the run is done, of what the report was made
  of. From `IInv` follow `TypeCorrect`, `PlacedOnce`, `Counting`, `KeyConsistency`, `PassIsWhole`
  and `ChainMeansLinear`, the last two with `ChainProofs`; `WitnessesVerified` also needs that every run
  asks for BDR (`AlwaysBDR`), or a malformed file would go unseen. `Refinement`: every step of the
  loops is a step of `Catalog` or a stutter (`Spec => ImplementsCatalog`), with the last prereg read
  as the standing one.
* `ArchiveProofs`. `ArchiveInv` adds to `IInv` what one run needs of another. `Shelved`: a file that
  is being written is malformed. `AsOnDisk`: a run goes over different files, and what it has read
  well is still on disk (a malformed file may have been filled since). `Concluded`: between runs,
  the report is that of the last one. `Remembered`, while a run goes on: the report of the run
  before says true things of what that run read (`Truthful`), and there is an injection from its
  readable files to the positions of this run's (`Finds`). The injection is chosen when a run
  starts, from the listing of the directory, and is what lets the next report be compared: each
  counted receipt is found again and counts again, since without rivals what counts depends on the
  document alone (`Carried`). Hence `CountedStays`; `BrokenStays`, as two roots or two successors
  stay two under an injection; and `Unreprieved`, with the clock. `ArchiveReports` says that the six
  invariants of a run hold over a changing directory too.
* `KeyStoreProofs`. `Exclusive` says that the secret file is a lock: one process at most is past its
  exclusive creation, and while nobody is, one that found no sibling still has none to fear. It
  gives `SuccessMeansPair`, `RefusalsAreClean` and, if nobody forces, `NothingOverwritten` and
  `OneKey`.
* `SigningProofs`. `Faithful` says that a manifest contains what its committer found out;
  `Undisturbed`, under the hypothesis that output files are fresh and not shared (`FreshOuts`), that
  files not yet opened are absent and that what was read is still there. They give `Witnessed` (with
  no hypothesis), `LinksStay`, `Inherited` and `Growing`: a file is touched only by a committer that has
  signed and has the witnesses it insists on, and goes from absent to empty to filled.
* `TimeAnchorsProofs`. The invariant says where the beacon is (`latest` is the last round due), that
  a request carries the nonce of a body that was signed before it, and that every answer was made
  for a request and, inside its window, not before the signature. `FloorBounds` is then arithmetic
  (`RoundTrip`: rounds and times are inverse up to the period, and monotone); `CeilingBounds`
  follows the answer back to the request. `FetchedIsGood` needs that what is kept was verified under
  the key pinned for the server it is attributed to. `Rounds` is the beacon's part of the invariant.
* `WireProofs`, on packets. `Framing`: a message cannot begin as a frame does, as its first word is
  a tag count, and the length in the frame cuts off what follows. `ParseIsStrict`: the bounds of an
  accepted message ascend from the end of its header to its own end, so that its values, flattened,
  are the rest of the packet (`FlattenSlices`); its tags ascend strictly, and there is one ascending
  enumeration of a set (`AscendingUnique`); so `Build` puts the same header before the same values
  (`BuiltAgain`). `ReadBack` is the converse: any fields with ASCII tags that `build_message`
  serialises are accepted and come back as they were. The proof describes the positions at which the
  values come to lie (`GrownLays`, `FlattenLays`). `RequestsRead` applies it to requests, whatever
  the length of the nonce, and counts the padding.
* `WireProofs`, on trees. `NoFalseStamp`: for trees of every height, whatever path and index, a
  climb that reaches the root began at a leaf. `OnlyStamped` alone is not inductive, since it says
  nothing of a climber that is below the root; `CameFromLeaf` says the same of every hash of the
  tree. A step keeps it because a node determines its children. `ExactOpening` is the equivalence:
  with the path of a leaf, the root is reached exactly if INDX agrees with the leaf's place in the
  bits of the height. Its invariant `Climbing` is, first, that what is left of INDX is INDX shifted
  by the rounds done, and that a hash of level k can be met after k rounds only (`Levels`); second,
  that the climber is at a position exactly if it began at the leaf below it that the bits of INDX
  spell, along the hashes beside that way (`Ways`).
* `ContentProofs`. `Walk` and `Lines` say of a walk that every line comes from a file that it is
  past and that no file is past twice; while nobody interferes, that the lines are those of all the
  files past, each with what is on disk. A file that is open has been read up to a block, which
  agrees with the disk if nobody interferes (`Faithful`). `Signed` and `Verified` say the same of
  finished digests, under the two notions of quiet that the properties use: since signing began, and
  since verification began. Two digests are equal exactly if their lines are, since lines have one
  order: `Before` is a strict total order of the files of a place (`LesserOrder`), which is where
  their different relative paths are needed. `ContentTyped`, `MatchesPin` and `QuietlyVerified`
  follow.

Induction over numbers is done without the induction theorems of the library: the set of
counterexamples would have a least element (`LeastNat`, from the well-foundedness of `<`), and that
is refuted. It is how lists, paths and powers of two are followed for every length.

Only model-checked: `RunEnds` and `FetchEnds`, since liveness under fairness is beyond the prover.
The five violations are TLC's too: a counterexample needs an instance, not a proof.

## Not modelled

Cryptography (Ed25519, BLS12-381, SHA-2, the canonical JSON of RFC 8785) is what its verdicts
are. Library code and pure printing are left out. `identity` is one HTTP request and one linear search
in its answer, on which nothing else depends: a model would restate the loop. `scripts/release.sh` is a
maintainers' script over Git, no part of the program. The choice among hash algorithms is a
constant of a manifest. The check in `load_signing_key` that the two halves of a record agree concerns
records that `save` has not written. A process killed in the middle of `save` is taken to leave an
empty file or none of its text; to every reader a part of the text is the same. Subject names that leave
`--artifacts` are the outcome `NoPlace`.

## Plan

Done, in this order: `Chain`, `Manifests`, `Verifier`, `Catalog` and its refinement, `Archive`,
`KeyStore`, `Signing`, `Drand`, `Roughtime`, `TimeAnchors`, `Wire`, `Merkle`, `Content`, and the proofs of
all of them.

Next:
1. `Signing` with `Archive`: the commands as the writers of the directory, instead of the assumption
   that `DirectoryGrows` discharges. As a first step, that a step of `Signing` with fresh output files
   is a step of `Archive`'s directory.
2. `Wire` with `Roughtime`: the signed part of a response as the bytes of a field, so that `Canonical`
   says that what is verified is what is parsed.
