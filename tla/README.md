# Verification of gmcrypto-envelope-lite

TLA+ modules for the Rust library under `src/src/`, its fuzz targets under
`src/fuzz/`, and the scripts under `src/ci/` and `src/tools/` that publish files,
checked with TLC on small instances and, where marked, proved with TLAPS for
every value of the constants.

## The system

**The library** is synchronous and immutable. A `SecureClient` holds a
`ClientConfig`, `KeyMaterial` and a shared adapter. It has no interior
mutability, keeps no memory of calls and starts no thread. Concurrency is
therefore the carrier's and the administrator's: messages are strings that a
transport may lose, repeat, damage or recombine field by field, clients are
replaced while answers are in flight, and key files change between two reads.

| part | source | operations |
| --- | --- | --- |
| client | `client.rs`, `request.rs` | `new`, `build_request` and the request builder, `open_response` |
| envelopes | `envelope_crypto/{mod,cbc,aead}.rs` | dispatch, CBC and AEAD seal/open, length arithmetic |
| authentication | `auth.rs` | modes, contexts, signed transcript, AAD |
| configuration | `client_config.rs` | builder, limits, mode pinning |
| adapter | `adapter.rs` | header schema, layout of requests, parsing of responses |
| messages, headers | `message.rs`, `header.rs` | metadata, timestamps, collections |
| keys | `keys.rs` | loading, role separation |
| fuzz targets | `fuzz/fuzz_targets/*.rs` | six targets that assert outcomes of the above |

**The scripts** change shared state, a directory tree, with other runs and other
processes at work and signals at any time:

| part | source | protocol |
| --- | --- | --- |
| release candidate | `ci/check-release-candidate.sh` | reserve, work, install four artifacts, commit, or undo |
| cargo package | `ci/check-cargo-package.sh` | the same with one artifact |
| fixtures | `tools/generate-public-test-fixtures.sh` | lock, stage, set aside, rename, roll back |
| gates | `ci/check-*.sh`, `ci/fuzz-smoke.sh` | sequences of checks on temporaries |

What is hard to test here: arithmetic at the ends of `usize`; combinations of
fields from several messages and clients of several modes; cost and shape of
failures; encodings that could be read in two ways; setters called again; and
scripts stopped between any two commands. `PROJECT.json` lists these as hazards
at their lines.

## Modules

### Sealing and opening

**`EnvelopeLimits`** translates `base64_len`, `padded_cipher_len`, the frame
bound and the two sequences of size checks, on a `usize` whose maximum is the
constant `UsizeMax`. Checked operations saturate as in the code.

**`SizeGates`** runs these checks: one client, reconfigured with any limit,
meets envelopes its peer sealed and foreign bytes of any length.

**`EnvelopeCrypto`** holds what `seal` and `open` compute. The envelope is a
function of the seal call and its randomness (`envelope_of`); `open` takes the
checks of `cbc::open` or `aead::open` in their order. An outcome records the
`Result`, how many SM2 verifications ran and whether the key was unwrapped.
Bytes are symbolic records; SM2, SM4 and Base64 are external and do what the
code relies on. CBC decryption of anything but its own ciphertext is a choice
between a padding failure and other bytes.

**`Envelope`** runs `seal` and `open` of any number of clients. `sealed` is the
set of successful seal calls, each with the randomness it drew. `Open` receives
any combination of fields the carrier has, genuine, damaged or made by a
stranger.

**`AuthenticChannel`** is the abstract promise: messages are authored, and only
authored messages are delivered. `Envelope` implements it (`ImplementsChannel`).

**`Transcript`** has the real bytes that `Envelope` treats as terms: big-endian
64-bit length prefixes, version and label, for the signed transcript, the
additional data of a frame and the contexts of requests and responses.

### Headers

**`HeaderCollection`** holds the operators of `header.rs` and the value checks
of `message.rs`. A name is its lower-case form and a casing; a text is a core
token, surrounding whitespace and a control character, which is what trimming,
blankness and validation tell apart.

**`Headers`** is the life of one request's headers: emitted by the adapter,
collected by the caller, appended with all checks.

**`HeaderAdapter`** translates the schema checks of `build`, `build_request`,
`parse_response` and the two context encoders. **`HeaderSchema`** runs the
schema builder with setters in any order and repeated; **`ResponseWire`** sends
a response through intermediaries that reorder, recase, pad, add, repeat, drop
and damage headers before `parse_response` sees it.

### The client and what it is made from

**`ClientConfig`** has every setter and `build` with its checks in the code's
order, with and without the `aead` feature. **`KeyMaterial`** loads keys for the
four roles from files that may be replaced between any two reads; containers are
what the parsers find in them. **`RequestTime`** formats timestamps; a calendar
that counts days one by one is the reference for the closed date formula.

**`ClientCalls`** composes `HeaderAdapter` and `EnvelopeCrypto` into one call of
`open_response`: the response is read, the claimed certificate compared and the
envelope opened. **`SecureClient`** adds the workflow around it:
construction with the pin check, a request by any route (failing before sealing,
while sealing, or when it is laid out), the peer that opens it and answers, and
`open_response` / `open_json_response`. Requests and answers are recombined
field by field. Every client belongs to one organisation. A custom adapter may
fail, choose either kind of context and lay out headers that are no collection.

**`AuthenticExchange`** is what a context-bound workflow promises an application
that compares ids: operations are performed only if they were asked for, and an
accepted answer was given to a request of that id. `SecureClient` implements it
(`ImplementsExchange`).

**`FuzzHarness`** drives the operators of `ClientCalls` through the six fuzz targets with
every choice their inputs encode. The harness's assertions are checked, and
stronger statements where it asserts nothing.

### Publishing files

**`ReservedOutput`** models `check-release-candidate.sh`, one action per command
that touches the output path; the gates (lines 171-290) and the staging
(301-400) are one fallible step each. Several runs share one path. A command
may fail, a handled signal may arrive between any two commands while the traps
are set, a second one during the cleanup, and a kill anywhere. An outsider may
replace, move or fill the directory, or put a file of its own in an artifact's
place. `stopped`, `cleaned`, `committed`, `struck` and `meddles` are history
variables.

**`FixturePublication`** models `generate-public-test-fixtures.sh` in the same
way: lock directory, publication directory with staging, previous and failed
set, the flags the EXIT trap reads, and the rollback. An operator removes a
stale lock when no run is active, as the script's message asks. Key generation
and its checks are one fallible step. The separate directory for private
temporaries is left out: nothing but its own run reads it.

`MC*` modules give the constants their values; `*Proofs` modules hold the
proofs. `MCHeaderLayer` and `MCClientParts` run parts that share no state: the
initial state says which part moves, so that the states add up and do not
multiply.

## Runs

| run | checks | states |
| --- | --- | --- |
| `size_gates` | `open` admits what `seal` accepted (`SealedIsAdmitted`), nothing larger (`AdmittedIsBounded`), and calls too large only more bytes than the longest plaintext within the limit turns into (`TooLargeIsTruthful`) | 47 thousand |
| `envelope_cbc` | fresh session keys (`TypeOK`), limits, alike failures and the refinement for CBC clients of both authentication modes | 209 thousand |
| `envelope_modes` | authenticity, mode pinning, round trip and the binding of frames to contexts across CBC, GCM and CCM clients that share keys | 1.2 million |
| `one_verification` | a violation, see findings | |
| `reserved_output` | two runs, every fault at every command, two outsider actions: complete means committed, committed stays, stopped runs leave nothing, the outsider's files are spared, the exact set is published, and without faults one run publishes (liveness) | 917 thousand |
| `reserved_residue` | a violation, see findings | |
| `header_layer` | sound collections, atomic appends, usable schemas, responses read exactly and insensitive to harmless changes | 201 thousand |
| `client_parts` | runnable configurations, declared key roles and explained loader results, unambiguous encodings, right dates and sorted timestamps | 2.2 million |
| `client_config_identity` | a violation, see findings | |
| `secure_client` | requests open at the peer, intact answers open across a client replacement, pinned clients never mismatch, and the refinement of the exchange | 149 thousand |
| `fixture_publication` | the completed set is never lost, clean runs leave their result, one run publishes at a time, every run ends (liveness) | 1.9 million |
| `fuzz_harness` | declared outcomes, exact acceptance of undeclared inputs, exactly the valid envelopes open, too large exactly beyond the harness's own limit | 1.5 million |

**Bounds.** `size_gates` uses a 16-bit `usize`, the smallest Rust allows, so
that overflow lies within reach; the proofs cover every width. The envelope runs
make two seals: every property relates a released plaintext to the seals its
three fields came from, and two suffice to mix fields; the proofs cover any
number. Payloads are empty, one block, and one byte over a block, against limits
of a block and one byte over. `secure_client` makes two seals with five
candidates and every faulty call, and four seals (two requests, two answers,
which mix in both directions) with the two context-bound clients; the constraint
`DeepForTheBoundPair` draws that line. Two artifacts are the fewest with a state
between two installations; the script's four repeat the same loop turn. Two
outsider actions allow a replacement followed by a change in the replacement.
Three generator runs let one die with the lock and two meet afterwards. Two
further setter calls on a complete schema builder suffice for any collision of
two mappings; configurations get three. The clock runs through a whole 400-year
cycle of the calendar and a year more; the proof covers every day to the year 9999. Strings
in `client_parts` contain what a length prefix looks like; the proof covers all.
Raw texts in `fuzz_harness` have four lengths (`RawLengths`): shorter than any
frame, of whole blocks, between the limits of the two modes, and beyond both; the
proofs cover all lengths.

**Deadlock** is checked for the size gates, the envelope, the client and the
fuzz targets. It is not checked where the system ends: script runs exit, a
builder is consumed by `build`, and the clock and the changes on the wire reach
their bound.

**Fairness.** Weak fairness of each script run's steps is assumed: a shell goes
on to its next command and none of them waits for another run. Nothing is
assumed of faults, of the outsider or of the operator, and no run has to start.
`SomeRunPublishes` speaks of behaviours without faults and outsiders, since a
failing gate rightly publishes nothing. The library makes no liveness claim:
every call returns.

## Findings

- **`one_verification`.** The comment on `verify_transcript` (`cbc.rs` 19-21)
  says `open` runs exactly one verification per call whichever step failed.
  Failures before the key is unwrapped run none. The comment at line 129 has the
  narrower statement, which holds (`FailuresAlikeAfterUnwrap`).
- **`reserved_residue`.** The script creates the directory, the sentinel and
  each artifact with one command and notes them with a later one. When a command
  in between fails (the token cannot be written, say) or a signal is handled
  there, the cleanup does not recognise what was created and an unchanged
  reservation stays at the path; later runs for the path are refused.
  `tests/release_candidate.sh` (lines 249, 712) asks of failed runs that their
  reservation is gone.
  `StoppedRunLeavesNothing` shows that these six windows are the only ones.
- **`client_config_identity`.** The comment at `client_config.rs` line 35 says an
  identity is validated for use in transport headers. `validate_header_value`
  refuses blank texts and line breaks; `HeaderValue::new` also refuses the other
  control characters but the tab. An identifier with a NUL is configured and every request then fails
  after its payload was sealed.

Some gaps are by design of the scripts' checks and are described as hazards:
within a cleanup, and between `mkdir` and `ls -di`, a replaced directory is not
noticed; after its record is written an artifact's inode is not compared again
before the commit (the package script does compare it); and a run whose
directory was moved away may write its sentinel into another run's directory
after that one's last count, which `CommitPublishesExactSet` excepts.

## Proofs

Every theorem holds for all values of the constants under the named assumptions:

- `usize` has at least 16 bits (32 for `ClientConfig`, whose constants need them),
  and setters pass `usize` limits;
- configurations and contexts are what `ClientConfigBuilder::build` and the
  constructors of contexts return (`ConfigAssumption`, `ContextAssumption`,
  `PartiesAssumption`, `CallsAssumption`), schemas what `HeaderSchemaBuilder`
  can hold or `build` returned (`BaseAssumption`, `BuiltSchemas`);
- encoded envelopes fit into an allocation (`PayloadAssumption`), lengths fit a
  `u64` and the label has its 34 bytes (`StringsAssumption`, `LabelAssumption`);
- the clock's moments of a day are in order, and the clock stops with the year
  9999, the last of four digits (`MomentsAssumption`, `LastDayAssumption`);
- the artifact names are distinct, as those of the script
  (`ReservedOutputAssumption`);
- the header names the fuzz targets write are tokens (`NamesAssumption`), the
  clients they call are configured as the targets configure them
  (`ClientsAssumption`), and raw texts that are not empty have a positive length
  (`RawLengthsAssumption`).

**`CallProofs`** has the lemmas on single calls that the other modules use.
- On envelopes: the size gates admit every length `seal` can produce and bound
  every length they admit, and call too large only longer ones than `seal` produces; an accepted signature is one over the opener's own
  transcript by the trusted key, and equal transcripts have equal scope and
  plaintext; an intact envelope opens where it was sealed for; which checks of
  `open` decide whether `MessageTooLarge` is reported (`OpenVerdict`).
- On `build_request` and `parse_response`: which header carries a field, that
  mapped names of a built schema differ, what laying out and reading do to each
  other, and which header lists are accepted (`AcceptedExactly`).

**`EnvelopeProofs`**:
- `SealedAdmitted`, `AdmissionSound` and `TooLargeTruthful`, about `SizeGates`.
  The properties speak of the last envelope, so the type of the state is all the
  induction needs (`GatesTyped`); the content is in the arithmetic lemmas.
- `TypeCorrect`, `Authenticity`, `WithinLimit`, `PinnedMode`, `FrameBinding`,
  `RoundTripHolds`, `FailuresAlike` and `Refinement`, about `Envelope`. The
  carrier's pool holds a signature by a trusted key only from `sealed`, since
  strangers lack the key. The invariants about a returned call are made inductive
  by stating that `sealed` only grows and that draws are unique (`TypeOK`).
  `Refinement` maps the messages of `sealed` to what was authored and the
  released message to what was delivered.

**`HeaderLayerProofs`**:
- `CollectionsStaySound` and `AppendingIsAtomic`. `HeadersInv` states soundness
  pairwise, by canonical names, which insertion and checked appending preserve.
- `BuildIsExact`: what `build` accepts works and what it refuses would not. The
  checks of `validate_collisions` are turned into pairwise facts about names.
- `ParsingIsInsensitive` and `ReadingIsExact`: the result of `parse_response` is
  a function of which values reach which field, and no harmless change moves a
  value; a field that two headers reach is refused.

**`SecureClientProofs`**: `RequestsArrive`, `AnswersArrive`, `PinsHold` and
`Exchanges`. The invariant `ClientInv` says that every request and answer in
flight was laid out from a seal in `sealed`, under the context its adapter encoded
for the metadata in its headers (`SoundRequest`, `Carries`, `SoundAnswer`), and
that every sealing client passed the pin check (`Pinned`). The
first two theorems then join the lemmas on layout and on intact envelopes. The
refinement maps seals of the context-bound clients to operations asked for and
answers given; a released plaintext leads back to a seal as in `Authenticity`,
and the injectivity of the context encoders to its operation and id.

**`ClientPartsProofs`**:
- `RunnableConfigs`. `BuilderInv` says that a result is `build`'s verdict on the
  builder as it is and that a limit once set is a `usize`; then the passed checks
  of `build` give each conjunct.
- `RolesDeclared` and `FilesExplainResults`. `KeysInv` follows the loader command
  by command (`Reading`): what it holds was in the file while the call ran, and
  the file it has not read yet is among those held.
- `EncodingsSafe`. The eight digits determine a length, a length prefix determines
  where its field ends, so fields are peeled off one by one; a transcript starts
  with its version byte and an AAD with a zero byte of the label's length. The
  invariant `MadeFromFields` says that whatever was made is an encoding of
  admissible fields. This is what allows `EnvelopeCrypto` and `HeaderAdapter` to
  treat encodings as terms.
- `CalendarFollowed`. `OnTheCalendar` adds to the equality that the date on the
  wall is a date; a day's number is given by era, year of the era and day of the
  year, the formula finds these three, and the step to the next day is taken
  within a year, at the end of February, of a year and of an era.
- `TextsSortAsTimes`. `Stamped` says which moments the last two texts are of;
  texts are compared two digits at a time (`Groups`, `Below`), and the dates of
  successive days by the calendar.

**`FixturePublicationProofs`**: `PublishedNeverLost`, `PublicationExclusive` and
`CleanedRunsLeaveNothing`, for any number of runs and any faults.
`PublishedSurvives` is not inductive by itself: `FixInv` adds that whoever has
touched the output holds the lock (`Exclusion`, `Progress`), and, for each stage
of the rollback, what can be at the output path (`Rollback`).

**`ReservedOutputProofs`**: five theorems for any number of runs, any faults and
any list of artifacts, from three inductive invariants.
- `GuardedInv` holds whatever the outsider does, also at the moments the run
  excludes: before its commit, a run's directory holds its sentinel or at most one
  of its artifacts, since the cleanup reaches the sentinel only when every artifact
  it noted is gone. From this `CompleteSetsAreCommitted` follows when the set has
  two names (`SeveralArtifacts`).
- `UndisturbedInv` holds until an outsider acts: a run between its `mkdir` and the
  end of its cleanup has its own directory at the path (`Placed`), so no other
  run's command reaches it (`ApartStep`); for each command it says what the run
  has noted (`Reserved`), what its directory holds (`Installed`), and what the
  cleanup still has to remove (`Undone`). It gives `PublishedStays` and
  `StoppedRunsVanish`.
- `CheckedInv` holds when the outsider acts only where the script looks again
  (`OnlyWhereChecked`: not between the `mkdir` and the `stat` of the new directory,
  not within a cleanup, not after the last test of the reservation). A run then
  takes no directory but its own for its reservation (`Claimed`), and what its last
  tests found is so when it commits, unless another run lives (`Counted`). It gives
  `OutsidersAreSpared` and `CommitsAreExact`; for the latter, as many entries as
  artifacts and one more, all the required names among them, leave no other name.

**`FuzzHarnessProofs`**: `LibraryAcceptsExactlyTheSound`,
`HarnessBoundariesAreTight`, `HarnessOpensExactlyTheValid` and
`HarnessAssertionsHold`, for any tokens that include the targets' names, every
width of `usize`, raw texts of any lengths and any number of seals. The four invariants speak of the last
input and its outcome only, and each action computes both from the input's
choices, so they are inductive as they stand: a step either reports nothing of the
kind or the whole call is analysed, with the facts of `CallProofs` about single
calls.
- `AcceptedExactly` gives the acceptance of generic headers once it is shown what
  reordering and repeating a header does to the places of a name (`Arranged`,
  `Repeated`, `GenericParts`). The declared transport scenarios are decided by
  the same lemma, field by field: `ComesOnce`, `ComesTwice`, `NeverComes`.
- For the envelope targets, `SelectedTexts` classifies what a selector can put
  into a field (sealed, raw, at a boundary, mutated), `TextLimits` equates the
  harness's limits with the library's, `OpenVerdict` then gives `CallIsTight`.
  `CallIsExact` holds since an envelope with one foreign value fails at the
  signature, the wrapped key or the cipher (`ForeignRefused`).
- `ContextReports` follows the context target through seal and open: `seal`
  refuses the oversize plaintext and no other (`ContextSeals`), a round trip opens
  (`ContextOpens`), and under a longer context (`ContextBytes`) or the
  legacy marker no transcript is the signed one (`ContextRefuses`).

Only model-checked:
- `SomeRunPublishes` and `EveryRunEnds`: liveness under fairness is outside the
  prover's reach.
Every invariant and action property that a run checks is stated by a theorem.

## Assumptions to keep in mind

- Application payloads are opaque and are never themselves transcripts.
- The signature does not name the recipient, and a replayed envelope opens
  again: no property claims otherwise, and callers bind freshness by context.
- Inode numbers are not reused. On a real filesystem a removed directory's
  number may come back; the sentinel's random name and content then decide.
- In the cleanup, the inode test and the removal of one artifact are one step.
- Renames within `tests/` are atomic.
- A generated request id is fresh; clock and random source may fail.

## Not modelled

- `check-cargo-package.sh` follows the protocol of `ReservedOutput` with one
  artifact and one more comparison before the commit; it has no module of its
  own. `CompleteMeansCommitted` does not carry over: with one artifact, a stop
  between `ln` and the note of its inode leaves the crate without the sentinel.
- The compatibility gate, the open-source boundary scanner and the other gates
  compare texts and call tools in sequence; they share no state and nothing runs
  beside them.
- The examples call each modelled operation once.
- Parsing and decryption of keys, SM2, SM4, Base64 and JSON are external and
  modelled by what the code relies on. Formatting, `Debug` and `Display` output
  and zeroisation are left out.
- Of the fuzz targets, the splitting of input bytes into choices is left out:
  the model makes every choice.
- The content of the gates and of the staged artifacts.
