# Verification of the Lucairn SDKs

TLA+ models of this repository, the TLC configurations that check them on
small instances, and TLAPS proofs of what holds on every instance.  Paths are
relative to the repository (`src/` in `PROJECT.json`).

Run them here: `tlc -config MCBridge.cfg MCBridge`, `tlapm BridgeProofs.tla`.

## 1. The system

The repository holds three client SDKs of one HTTP gateway (TypeScript, Go,
Python), offline verifiers of what the gateway signs, and an MCP server.

| Component | State | Operations | Talks to |
|---|---|---|---|
| stdio bridge, `mcp-server/src/bridge.ts` | the promise of `runStdioBridge`, `inFlight`, stdin and abort flags, per-frame task | forward a frame, answer a bad line, drain and settle | local MCP client (stdin, stdout), gateway `/mcp` |
| MCP server, direct-http, `mcp-server/src/{index,server,gateway-client}.ts` | none between calls; per call an `AbortSignal` | one tool call: cap, route the key, `fetch`, guard the shape | MCP client, gateway |
| TypeScript client, `ts/src/client.ts` | options; per call a timer, an `AbortSignal`, a bounded body | `messages`, `getCertificate`, `getCertificateSummary`, `listAuditEvents` | gateway |
| Go client, `go/lucairn.go` | options; per call a `context`, a `LimitReader` | the same four | gateway |
| Python client, `python/src/lucairn/client.py` | options; per call an `httpx.Timeout`, a bounded body | the same four | gateway |
| Bundle verifier, `go/internal/bundle/{verify,report,format}.go` | report, current certificate, accepted anchors | the fixed order of checks of `Verify` | anchors, witness and chain verifiers |
| Audit counter, `go/internal/bundle/{audit,audit_verify}.go` | events, proofs, roots, accepted cleaning steps | bundle-level checks, per-certificate match, finish | bundle verifier |
| Anchors, `go/internal/anchor/*.go` | none; the walk from a leaf to the root | Rekor entry, RFC 3161 token, audit root, row under a root, binding digest | bundle verifier |
| Trust roots, `go/internal/bundle/roots.go` | pinned keys and cutovers | – | bundle verifier |
| Witness pipelines, `*/verify*/pipeline`, `signable`, `keys` (three SDKs) | none | v1/v2/v3 dispatch, downgrade guards | users, bundle verifier |
| Chain verifiers, `*/verify*/chain*` (three SDKs) | none | thirty ordered steps, claim loop, ceilings | users, bundle verifier |
| Canonical JSON and lexemes | none | encoding | pipelines |
| `lucairn-bundle-verify`, `go/cmd/lucairn-bundle-verify/main.go` | flags, trust roots, label | one run, an exit code | bundle verifier |
| Online fetcher, `go/internal/bundle/online.go` | none | one GET per anchor | public logs |
| Services as `bundletest/{audit,world}.go` play them | transparency log, audit log with its rows and published roots | log, count, publish, export | what the verifiers read |
| Report rendering, typed values, `theveil` shim, corpus cases, workflows | none | formatting, data | – |

What is hard in it:

* **Concurrency.**  The bridge forwards every frame in a task of its own, and
  its tasks interleave at each `await` while stdin ends, closes or an abort
  arrives.  A client call races with its timer, with the caller's cancel and
  with the gateway.
* **Failure and timeouts.**  Headers arrive and the body never does; the body
  breaks after the fetch succeeded; two aborts arrive together.
* **Limits.**  A response cap that a chunk straddles; a zip whose declared
  sizes lie.
* **Boundaries of trees.**  The right edge of a Merkle tree whose size is no
  power of two skips levels; two builders and one verifier have to agree there.
* **Flags that undo each other.**  A witness key of one's own resets cutovers
  that other flags set.
* **Long sequences of checks over unsigned input.**  `Verify` has four early
  returns and skips a dozen steps.  Every one has to leave a FAIL or a
  blocking SKIPPED behind, because the verdict is computed from nothing but
  the report.

`PROJECT.json` lists the hazards, each at its line with the properties that
would catch it.

What makes each part correct: the bridge gives each request at most one
answer and loses none it owes; a client call ends, blames the right party,
respects its cap and returns only complete values; an accepted anchor was
logged, counted or stamped as it says; the label of a run names every demand
that was dropped; a VALID bundle is intact,
signed, bound to its conversation, its anchors its own, its counter without a
hole; the pipelines never accept a downgraded certificate; the chain verifiers
reach the verdict that the order of their steps prescribes.

## 2. Plan

| # | Modules | Question | State |
|---|---|---|---|
| 1 | `Forwarder`, `Bridge` | does draining lose an answer? | checked, proved |
| 2 | `Call`, `TsRequest`, `GoRequest`, `PyRequest`, `Clients` | do the clients keep the same promises? | checked, safety proved |
| 3 | `Report`, `Layout`, `Certificates`, `Counter`, `Bundle` | what does VALID mean? | checked, proved |
| 4 | `Certificate`, `GoPipeline`, `TsPipeline`, `PyPipeline`, `Pipelines` | does an unsigned field choose what is verified, and do three SDKs agree? | checked, proved |
| 5 | `CertTier`, `Chain` | can an unsigned field lift a verdict? | checked, proved |
| 6 | `Merkle`, `Rekor`, `Tsa`, `AuditLog`, `Anchors` | is an anchor accepted only for what was anchored, and does an export taken at any moment pass? | checked, proved |
| 7 | `ToolRequest` in `Clients` | does a tool call end, and as what? | checked, safety proved |
| 8 | `Command` over `Bundle` | does a flag drop a demand that the label does not name? | checked, proved |

Modules compose bottom-up: `Clients` instantiates the three requests and
`ToolRequest`, which extends `TsRequest`, over the one call of `Call`; `Bundle`
extends `Layout` and `Counter`, which extend `Certificates` and `Report`; the three pipelines extend `Certificate` and
`Pipelines` instantiates them over one certificate; `Chain` extends
`Certificate` through `CertTier` and instantiates `GoPipeline` to compare with
it.  `Chain` and `GoPipeline` say what is behind the fields `signature`,
`recovered` and `chain` of a certificate, which `Certificates` takes as given;
`Anchors` does so for a certificate's `token` and `rekor` and for the `path` of a
proof, and takes `Counter`
in turn to verify what `AuditLog` exports.  `Command` extends `Bundle`: its
`Verify` is a step of `Bundle`, and the run of `Bundle` is a run of the command.
`Forwarder` is the abstract specification of the bridge; `Deserved` in `Chain` is
that of a chain verdict, the best one that the signed values allow.

## 3. The bridge

`Bridge` is `runStdioBridge` and `forwardFrame`.  JavaScript runs to
completion between awaits, so one action is what a task or callback does
between two of them:

| Code | Action |
|---|---|
| guards, early return on an aborted signal, `transport.start()` | `runStdioBridge` |
| `transport.onmessage` up to `await fetch` | `onmessage(f)` |
| `transport.onerror` | `onerror(b)` |
| `fetch` settles; `res.text()` settles, and what each becomes | `FetchSettles(f)`, `BodySettles(f)` |
| one `await transport.send(m)` of the reply or of a batch | `Send(f)` |
| stdin `end`, stdin `close`, abort | `StdinEnds`, `StdinCloses`, `Abort`, each through `drainAndSettle` |
| `Promise.allSettled(pending).then(settle)` | `Drained` |

`inFlight` and each `pending` snapshot are sets of frames; `promise` is the
promise the function returned, and the transport is open exactly while it is
pending.  `owed` is a history variable: the frames read before the first stop
request.  Payloads are reduced to the line that caused a message, its id and
whether it answers.  The SDK's transport, `fetch` and the gateway are external
and may do anything the code tells apart; of the gateway it is assumed that it
answers a request at most once in its own batch.

`Forwarder` says the same in six variables: accept, answer at most once, close
only when all that is owed is finished.

Properties: `AtMostOneAnswer`, `DrainsBeforeClosing`,
`OnlyBestEffortFramesAreLate`, `RequestsAreAnswered`, `StopCompletes`,
`ImplementsForwarder`.  `StopsOnlyOnRequest` and the safety halves of the two liveness
properties, `NoAnswerIsDropped` and `StopIsUnderWay`, are only proved.

* Run **bridge_safety**: two requests (interchangeable, hence the symmetry)
  and a notification.  Three tasks are enough for two snapshots that differ
  and a frame that arrives between them.
* Run **bridge_live**: one request, one notification, one malformed line, no
  symmetry, under `FairSpec`.
* **Fairness**: `BRIDGE_FETCH_TIMEOUT_MS` (30 s) is the signal of the fetch and
  of the body read, so both end; the event loop runs what is queued.  Nothing
  is assumed of the local client: it may never send, close or abort.
* `CHECK_DEADLOCK FALSE`: a bridge that has resolved stops.

`bridge.ts` compares the hostname with `::1`, while a WHATWG `URL` gives
`[::1]`; the comparison never holds, and such a URL is of the class
`plaintext` in the model.  `pickUpstreamKeyForFrame` chooses a header and
changes no state; it is not modelled.  A notification whose forwarding fails gets an
error with id null on stdout; the comment at `bridge.ts:182` says that none ever gets a
response.  The model has this (`errorEnvelope` with `NoId`), and `AtMostOneAnswer` covers it;
no run is spent on the comment.

## 4. The clients and the tool

`Call` is the state of one call; the `*Request` modules are its four
implementations; `Clients` puts them side by side and states what they all
promise.  A response is a status and a body in chunks.  Of bodies a client
tells three apart: all required fields, one missing, something else.

* TypeScript: four parties race - the gateway, the timer, the caller's signal
  and the call.  After a rejected `await` no timer or socket event can run
  before the catch block, but a microtask can abort the caller's signal
  (`CallerAborts` at `rejected`).
* Go: anything can happen between two statements.  `callCtx.Err()` is set
  once, by whoever comes first (`cause`).
* Python: no cancel, and `httpx.Timeout` bounds each operation by itself, so
  time is counted in ticks: `gap` for the operation, `elapsed` for the call
  (capped at `Timeout + 1`: more is no different).
* The tool of the MCP server (`ToolRequest`): the `fetch` of the TypeScript
  client, but with `AbortSignal.timeout` as its only abort.  The signal covers
  the body, which is read outside the `try` that recognises a timeout: the call
  ends in time and as an internal error.  So does a body that is `null`.  It has
  no response cap and its timer is left to expire; both are stated where the
  properties speak of them.

Properties: `CapIsExact`, `BlamesTheFirstAbort`, `ReturnsOnlyWhatItPromises`,
`NoTimerOutlivesTheCall`, `CallEnds`.  Two more are only proved, the safety half of
`CallEnds`.  `StepsLeft` counts the operations a call may still go through, each with its
whole timeout to wait, and the bytes up to the cap; `NoStepIsRepeated` says that every
step of whichever party leaves fewer, and `NoWaitIsUntimed` that something can always end
the wait for the gateway.  So a call ends within a bound - also in Python, where a
trickle outlasts the timeout (section 11) but neither the cap nor the timeout of each
wait.

* Run **clients**: a cap of 3 and chunks of 1 to 4 bytes reach a body below,
  at and above the cap in one chunk or several, and a chunk that straddles
  it; a timeout of two ticks lets three operations outlast it.
* **Fairness**: the runtime runs queued work and fires timers it has set; in
  Go an operation of a done context returns; in Python time passes and httpx
  raises.  Nothing is assumed of the gateway or the caller.  `CallEnds` holds
  in Python for a reason of its own: only the response cap ends a trickle.

Two exceptions are part of the code, and the properties name them.  `new Headers` may
throw after `setTimeout` and outside the `try` (outcome `TypeError`), so that this one
timer runs until it expires: `NoTimerOutlivesTheCall` shows that it is the only one an
SDK leaves behind.  And a method does not always look at what it returns (`BodiesOf`):
`getCertificateSummary` returns any text, as documented, and `ListAuditEvents` of Go any
object, although `go/README.md` promises an error for one that lacks required fields;
the run **clients_go_lacking** expects that violation (section 11).  With
these two, `ReturnsOnlyWhatItPromises` is exact: a value for these bodies and no others.

The TypeScript path for a `Response` without a body stream (custom `fetch`
implementations) is not modelled, nor are the constructors' checks.

## 5. The evidence bundle

`Bundle` is `Verify`: one action per check, in the code's order, with its four
early returns.  What the checks compute is in `Layout` (archive and manifest),
`Certificates` (signature, claims, the two anchors) and `Counter` (the
`audit/` folder); `Report` is the report and `finish`.  The state is the
report, the certificate in turn, the anchors accepted so far (`seenTSA`,
`seenRekor`, `seenBody`) and the cleaning steps counted so far.

A bundle is a record of what its checks tell apart (the module headers list
the fields).  Its unsigned parts may say anything; a signature, a token or a
log entry is `genuine` or not for one digest.  Hashes are free of collisions:
a digest is the tuple of what was hashed.  `EventsOf`, `needsCleaningEntry`
and the others keep the code's names where it has them.

Abstractions, all in the direction of "the same steps are reported": INFO
lines, wordings, limitation texts and the counts of steps are left out; the
witness signs for no request that is named `bundle`, the scope of the steps about
the whole (`RequestsAssumption`); `event_id`, `event_type` and `source_service` are
compared like `request_id`, and actor, payload and previous hash enter the
event hash like the type, so one field stands for each group.
`completeness.listing` is an unsigned statement of the manifest and is
modelled as such.

What VALID means is stated over the bundle, not over the report:

* `ValidIsEarned`: every certificate signed by a pinned key, chain verified,
  naming this conversation and customer and no other.
* `ValidIsIntact`: the files are those the manifest lists, once each.
* `AnchorsAreDistinct`, `BoundMeansBound`, `ValidAnchors`: an accepted anchor
  belongs to one certificate; content-bound means over the signed content;
  after the cutover nothing weaker passes.
* `ValidHasNoHole`: numbers 1..N and certificates correspond, up to cleaning
  steps sealed before they were counted.
* `DowngradeIsNotValid`: format 1 does not hide a signed counter.
* `CleaningStepsStayCounted`: what was counted midway is still clean at the
  end.
That no path stops without a verdict is `Exits` of the command (section 6).

Run **bundle**: `MCBundle` starts from the bundle a service exports for one or
two certificates and applies seven families of edits (archive and manifest,
signatures, claims, anchors of one certificate, anchors shared by two,
counter rows against claims, proofs and roots), and verifies each of them in
runs of the command (section 6) that between them give `Verify` hosted offline,
hosted online with optional anchors, self-hosted without cutovers, and no
service keys: 596,202 states.  Two certificates are enough for
sharing and for order, two rows for continuity and for the two leaves of one
tree shape; `MaxBundleBytes` 11, `MaxFileBytes` 2 and `MaxFiles` 9 lie just
above the largest honest bundle so that one edit crosses each of them, and
`ClockSkew` 1 separates a time within the tolerance from one beyond it.
Families are not crossed with each other; the proofs cover that.

## 6. The command

`Command` is `lucairn-bundle-verify` from its flags to its exit code: `Start`
reads the flags and the file, `Verify` is a step of `Bundle`, `PrintReport` turns
the verdict into the exit code.  `applyOverrides`, `otherDeployment` and
`trustRoots` make the options out of the pins and the flags in the code's order,
`Label` says which roots were used.  Whether a key or a time parses is part of a
run, as is whether the file can be read and the report written.

* `WhatTheLabelLeavesOutHolds`: a run that exits with 0 and does not merely print
  something found a VALID bundle, and what the hosted pins demand of one (both
  anchors, the content-bound form, an entry for each cleaning step) holds of this
  bundle unless the label names it as dropped.  Stated over the bundle and the
  label, so a flag that is read too early, or a text that is forgotten, breaks it.
* `Exits`: every run ends, by whichever of its ways.

The runs are part of run **bundle**.  Four usual runs meet every family of edits;
seven bundles (anchored and bound, plain, in the old form before and after the
cutover, a cleaning step before and after the start of its counter, a bad
signature) meet every combination of the flags that change the roots, and the
flags that are no use.

**Fairness**: `WF(CommandNext)`, as the program is sequential.

## 7. The witness pipelines

`verifyCertificate` checks one signature of one key, in three languages.
`Certificate` has what a certificate is: the values of its members, as far as
some SDK treats them differently (absent, null, of another type, a number with
its token, a time with its textual form), the v2 and the v3 signable as the
witness signs them, and `IssueV2` and `IssueV3`.  A signature names its key
and what it is over.  `GoPipeline`, `TsPipeline` and `PyPipeline` are the
three functions, each with its own parser, its own order of checks and its own
derivation of what is verified; `Go!Run`, `Ts!verifyCertificate` and
`Py!verify_certificate` give the verified version or the reason of a refusal.
`Pipelines` serves an issued certificate, lets up to `MaxEdits` members change
on the way, and gives it to each SDK.

What the data are is said in assumptions, which the proofs use and TLC evaluates
for the certificates of its run: the classes of values that the parsers tell apart
(`KindsAssumption`, `DataAssumption`), that a time which cannot be read is none that
can be (`UnreadableAssumption`), what the assembler of the witness makes
(`IssuedAssumption`), and Ed25519 (`WitnessAssumption`): a signature that verifies
under the pinned key is over the signable of a certificate that was issued.
Everything else in a certificate can be changed to any value.

Properties: `AcceptedIsSigned` (members of two certificates never verify as
one), `V3MembersAreSigned`, `HalfAStripIsNoticed` (both downgrade guards),
`PolicyDoesNotMaskTampering` (order of the last two checks),
`GenuineIsAccepted`, `SdksAgree`.

`CHANGELOG.md` says the rules are applied identically and names limits.
`SdksAgree` is that sentence with `KnownLimit`, the limits it names (tokens of
numbers, claim members, the type of the v3 signature), and `OtherDifference`,
what the model met beside them: Go alone accepts a comma before the fraction
of `issued_at`; Python alone refuses a signed `issued_at` that it cannot read;
`byok_exempt` null or of another type, and `client_id` or `api_key_id` that
are not strings; members that only Python's model requires.  `EarlyRefusal`
are two cases where all refuse, with different reasons.

Run **pipelines**: five issued certificates (two with the v2 signature alone,
one of them with an unreadable time; three with both, two of which share a
request; both forms of a sanitizer payload) and any two changed members, to
values of every class the parsers tell apart and to members of another
certificate; both keys, both minimum versions, Go's text and decoded input:
180,040 states.  Stripping a v3 certificate, swapping two ids or covering up
one change with another take two edits.

## 8. The certificate chain

`Chain` is `RunChain`, the ordered recipe of `verifyCertificateChain`.  Its
parts are actions, because a verdict depends on what an earlier part left:

| Code | Action |
|---|---|
| steps 1 to 6c | `CheckWitness` |
| one turn of the loop over the claims, steps 7a to 7i | `CheckClaim` |
| steps 8a to 8d | `CheckEgress` |
| steps 9a to 9e | `Ceilings` |

`WitnessSteps`, `ClaimSteps`, `EgressSteps` and `Ceiling` give the step that
decides, in the code's order; `i` is the position of the loop, `pointers` the
`valuesBytes` it adds up, `result` the `ChainResult`.  `Change`, `ChangeClaim`
and `ReplaceClaim` are what happens to a certificate between its issue and the
check.  `CertTier` is step 8d as each of the three SDKs writes it: Go with a
switch, TypeScript and Python with a sorted list of carriers.

A document is one record; `strict` (one JSON document without duplicate keys),
`variant` (a key that differs from a known one by case folding), `exact` (its
bytes are the canonical ones) and `pointers` are what the grammar says of it.

* `ClaimsAreSigned`, `StoredBodiesAreAttested`: who signed what is accepted.
* `VerdictIsSigned`: nothing unsigned lifts a verdict above `Deserved`.
* `TierIsSigned`: the tier that is reported is that of the signed copies.
* `GenuineChainsVerify`: no false alarm, and the exact verdict.  A chain that is
  sealed FAILED, names an id twice or passes the ceiling of pointers fails at that
  step.
* `ChainIsStricter`: `RunChain` accepts nothing that `Run` refuses, but for
  empty ids, which only `Run` refuses.
* `TierRulesAgree`: the three versions of step 8d are one rule.  Beside a
  two-signer label that does not fit Python reports the tier `not_evaluated`;
  the check fails in all three.

The witness signs the ids of the claims, not their documents: a service that
signs two acceptable documents under one id makes both of them genuine, and the
recipe cannot tell which was meant.  `ServicesAssumption` says that a service does
not: among the documents it signed, a `Sound` one with the id and the request of an
issued claim is the one of that claim.  Documents that are not sound it may have
signed under any id; the rogue documents of `MCChain` each break one rule of
step 7.  `IssuedAssumption` is what the services, the gateway and the assembler make
of a request: claims that are signed, stored and mirrored as they are
(`IssuedClaim`), and a label that fits the copies unless the chain is sealed as
partial (`TierFits`).  `DataAssumption` and `WitnessAssumption` are as in
`Pipelines`.

Run **chain**: eleven chains (full, with another client, input shield,
two-signer, audit only, an odd copy, cut off, with raw user text, sealed
FAILED, an id twice, with too many values to point to), any two changes, two
callers (no expectations; v3 and both ids): 189,737 states.  Each step from 1 to 9e decides in some state.  Two
claims are enough for the loop, for claims that change places and for the
three tier shapes; two changes let a label and a claim, or a document and its
mirror, be changed together.  `MaxChainValuesPointerBytes` 5 lets one claim
pass that crosses the total together with the one before it.

`CHECK_DEADLOCK FALSE` in both runs: a check that has answered stops.

## 9. The anchors

`Anchors` is the verification of one anchor: `VerifyRekorBy` for a certificate's
entry and for that of an audit root, `VerifyAuditRoot`, `AuditInclusionRoot` for
a row, `VerifyTimestamp` for a token.

| Code | Action |
|---|---|
| `confirmOnline` with its fetcher (`--online`) | `ConfirmOnline` |
| `ParseAuditRootArtifact`, the root's signature | `CheckRoot` |
| `VerifyRekorBy` up to `VerifySET` | `CheckEntry` |
| `verifyInclusion` up to the walk; `AuditInclusionRoot` up to it | `CheckProof`, `CheckRow` |
| one turn of the loop of `rootFromInclusionProof` | `ClimbOne` |
| its end, the comparison with the root and its checkpoint | `EndWalk` |
| the rest of `VerifyRekorBy` | `CheckBody` |
| `VerifyTimestamp` with the checks of the CMS structure | `CheckToken` |

`Merkle` has the three ways in which the repository treats a tree.  The walk with
its shifts: `Climbs` is its loop, `Climb` one turn and `WithSibling` the inner loop.
The recursive tree of `world.go` (`mth`, `inclusionPath`): its calls are on parts of
the leaves (`Spans`), which `split`, a loop that doubles, cuts in two.  The levels of
`audit.go`: `AuditTreeLevels`, one pairing `NextLevel` after another, and
`AuditTreePath`, of whose loop `Up` is one turn.
A row is presented under a root from a published log entry; without one nothing
is to be included in.  `Rekor` and
`Tsa` have the checks of an entry and of a token; a chain of certificates is as long as the
token makes it (path length and name constraints of X.509 are not modelled).  `AuditLog` has the services, as
`bundletest` plays them: the transparency log, rows that are counted or not, roots
that are published under the right keys or others, and `Evidence`, the export of a
conversation.  With `--online` the log is asked first, once per entry; its current
copy, that of another index, a copy put together wrongly or no answer comes back
(`Answers`), and only a legacy entry without a body or a time takes these from it.
The stored timestamp and proof stay what is verified.  Hashes and signatures are free of collisions; ASN.1, PEM and
base64 are flags of what is presented.

* `CertificatesAreLogged`, `AuditLogIsWhatItSays`, `TokensAreStamped`: whatever
  parts of whatever anchors are put together, what is accepted was logged at that
  place and time, whatever the log answered, is the audit log's root or row, or was
  stamped by the timestamp authority: `Issued` are the tokens of those whom the pinned
  roots, or authorities below them, certified for that (`Certified`), and a token must be
  one of these under a certificate for which a pinned root vouched at the stamped
  time (`Vouched`).  Whatever else signs and issues under keys of its own is refused.
* `GenuineAnchorsVerify`: in trees of every size, no anchor is refused as it was
  stored, nor one that the log confirms after it has grown, nor a legacy entry that
  it completes.
* `ExportsPass`: an export taken at any moment, between any rows and roots, fails
  no check of `Counter`, and a row is included as soon as a root covers it.

Run **anchors**: a transparency log of six statements (two authors, one statement
twice, one of another kind), so that trees of each size up to six and every leaf
occur, also the last one of five, which skips two levels; entries whose
statement, path, place and checkpoint are of four different entries, or with one
part spoiled; tokens whose content, attributes, signature and certificates are of
two tokens of seven certificates (`Made`): the authority's and its renewal under one
key, two issued below one and two certificate authorities, one for another purpose, and
two that only look like the authority's, one of an unpinned issuer and one that the holder
of that other certificate issued; a token in the authority's name under a foreign key; of
two pinned roots one is not yet in force when the earliest are stamped.  Answers of the log whose index, timestamp, time or
body are another entry's (`MCGarbled`) to queries about entries whose proof is one of
the log's, of when it held five (`MCQueried`: what else is wrong with a proof, no answer
changes); up to six rows in two conversations, two of them
counted (`MaxCounted`), and two roots (`MaxRoots`): 486,110 states.  Presented
certificates and tokens do not depend on the audit log, and presented roots and
rows not on which rows are counted, so each is presented before that matters.
`CHECK_DEADLOCK FALSE`: a verification that has answered stops.

## 10. What is proved

For every value of the constants, from the named assumptions only.  They are of
three kinds.  Shapes and bounds: `FramesAssumption` (disjoint frame sets),
`SizesAssumption`, `BoundsAssumption`, `BundlesAssumption` (lists are sequences),
`MaxEditsAssumption`, `PointersAssumption`, `MaxUint64Assumption`,
`AuditLogAssumption` (row numbers fit 64 bits, and no request id is used twice),
`RunsAssumption` (cutovers are set), `KindsAssumption`,
`ChainKindsAssumption` and the two named `DataAssumption`.  What the services make of
a request: `RequestsAssumption`, the two named `IssuedAssumption`,
`UnreadableAssumption`.  What a key signs: the two named
`WitnessAssumption`, `ServicesAssumption`, `EntriesAssumption`, `CertifiedAssumption`,
`TokensAssumption`.
TLC evaluates each of them on the data of the runs.

* `BridgeProofs`: types; `DrainInv` and from it `DrainsBeforeClosing` and
  `OnlyBestEffortFramesAreLate`; `AnswerInv` and from it `AtMostOneAnswer`;
  `StopsOnlyOnRequest`; and `Refinement`, that `Spec` implements `Forwarder`.
  `DrainsBeforeClosing` alone is not inductive: one needs that `inFlight` is
  exactly the set of active tasks and that *every* snapshot holds every owed
  frame that is not done - then it does not matter whose snapshot drains
  first.  `AnswerInv` follows an answer from its task's reply list to stdout.
  `PendingInv` is the converse: an answer that is not on stdout is still in the reply
  list, and what a stop waits for can go on.  From it `NoAnswerIsDropped` and
  `StopIsUnderWay`, the safety halves of the two liveness properties: what these add is
  that the tasks take their steps.
* `ClientsProofs`, for the three SDKs and the tool: `IInv` = types, `ReadInv` (what is held is what was sent
  while a body is read) and `AbortInv` (what failed agrees with the first
  abort; in TypeScript a call that waits has seen none) with the four safety
  properties and `NoWaitIsUntimed`.  `EveryStepIsForward` proves `NoStepIsRepeated`: a step ends an operation
  or takes in bytes, which makes up for a whole timeout (`OneOperationLess`), or it
  leaves that and is a tick, the timer's or the caller's.  With `NoWaitIsUntimed`,
  `CallEnds` can fail only if a timer that runs never fires.
* `BundleProofs`: `IInv` says what has passed by each point (`GateInv`), what
  the report then holds (`ReportInv`), that the verdict is `finish` of it
  (`VerdictInv`), and that what was accepted is remembered (`SeenInv`).  The
  argument for each VALID theorem is the same: VALID leaves no FAIL and no
  blocking SKIPPED, the report is complete (`ValidIsComplete`), so each check
  took its passing branch, and what that branch requires is the property.
  `CleaningInv` counts: the cleaning steps are the certificates so far that the
  report accepts as one, each listed once, so the counter grows with their number,
  and no later step of another scope changes which they are.
  At its end, the command: what it does between its flags and its exit code is a
  behaviour of `Bundle` (`VerifiesTheBundle`), so that what is shown of a VALID
  bundle holds of the one the command accepted; `LabelSaysWhatIsLeftOut` follows
  from that and from the options never changing after `trustRoots`.
* `PipelinesProofs`: all six properties of the run.  `IInv` says where the members
  of a certificate come from, how far it is from the served one, and that an answer
  is what that SDK computes.  The rest is about the three computations: both signables
  determine the members they are made of (`v2` and `v3` have different shapes, so
  neither passes as the other), each SDK derives the signable of an issued
  certificate as the witness did, and the three orders of checks give one answer
  outside `KnownLimit` and `OtherDifference`.  Half a strip is noticed because an
  SDK takes the older form only if the version number and the newer signature both
  differ from what was served, which is two changes.
* `ChainProofs`: `IInv` says what each part has shown by the time it is
  passed: the certificate no longer changes after `CheckWitness`, the claims
  behind the loop are checked, and only `Ceilings`, with the certificate, all
  claims and the stored bodies checked (`AllChecked`), writes a result that is
  not FAILED.  None of the three invariants is inductive alone, as each speaks
  of the result and its reasons lie in earlier parts.  From it
  `AcceptedClaimsAreSigned`, `AcceptedBodiesAreAttested`, and
  `ChainIsStricterAlways`: the parser of `Run` asks for nothing that the
  checks of the chain do not give (`CheckedParses`), and both derive the same
  signables (`SameSignables`).  Nothing is assumed of the certificates, of
  the changes or of who signed what.  `AcceptedTierIsSigned`: the tier of a result is
  read off the signed copies that step 8d compares the label with.
* `ChainIssuedProofs`: what the signatures say of what was issued.  `DInv` adds to
  `IInv` where members and claims come from.  Then `AcceptedVerdictIsSigned`: the
  witness's signature names an issued certificate with the same ids, the services'
  signatures give each claim the document of the issued one, and everything that
  step 6 to 9 derive a verdict from is in these; `IssuedChainsVerify`: an issued
  certificate passes each of the steps in order; `TierRulesAlwaysAgree`: the switch
  of Go and the sorted lists of TypeScript and Python hold the same carriers, for a
  list of any length (an induction over the sets of claims that were looked at); and
  `RecipeTypes`.
* `MerkleProofs`: the three treatments of a tree agree, for every number of leaves.
  Node i of the level where a node stands for d leaves is the part `Block(n, d, i)` of
  the recursive tree.  d is what doubling 1 leads to, and so is every `split`, so a
  split falls on a border of blocks (`SplitsAtPowers`, `BlockAbove`): a block is
  cut into the two blocks below it, and one that has no right half is promoted.
  Path and walk grow together from one level to the next (`Leads`, `LeadsOn`), hence
  `PathsLeadToTheRoot`: the path of `inclusionPath` leads the walk of the verifier to
  `mth`; and `LevelsAreTheTree`: the last of the levels of `audit.go` is `mth` as well,
  and its paths are those of `inclusionPath`.  `NextLevels`, `LevelsEndAtTheRoot` and
  `TreeWalks` find in the levels alone a walk of climbs from each leaf to the root.
  `PathsAreShort`: a tree of fewer than 2^64 leaves has paths of at most 64 hashes, the
  most that the verifier takes.
* `AnchorsProofs`, what is accepted is genuine: `AcceptedIsLogged`, for logs of every
  length and whatever they answer to an online query, `AcceptedIsStamped`, and
  `AcceptedIsAudited`.  The argument for the log walks twice: beside the walk along
  the path that is presented goes one along the log's own path from the same place,
  which leads to the log's root (`OwnPathsLead`, from `PathsLeadToTheRoot`).
  Where a walk climbs to depends on its place and not on its hash, so the two stay
  at the same node and end at the same level; and two hashes that differ at one
  level differ at the next (`ClimbsAlike`), so a walk that ends at the signed root
  began at the log's leaf.  `CertificateInv` says for each step of the
  verification how far this has come.  Assumed is that the keys of the log, of the pinned
  roots with the certificate authorities below them, and of the timestamp authority signed
  only what these issued (`EntriesAssumption`, `CertifiedAssumption`, `TokensAssumption`,
  which also gives the form of the tokens).  That a token is the authority's is
  therefore not assumed but follows from its chain: `ChainsAreCertified`, for chains of
  any length, as a chain is stated by the sets of keys it cannot leave.  `AuditInv` does the same for the audit
  log, beside the walk of `TreeWalks`.  `RootInv` and `LogInv` say that a published root
  stays the root of the rows that it covers while rows are added.

  The converse, what is genuine is accepted: `GenuineIsAccepted`.  `GenuineInv` says
  that the walk has climbed along the first part of the genuine path and that the rest
  is what is left of it, so it reaches the root when nothing is left; that
  every check before and after the walk passes; and that what the log answers about
  an entry it holds confirms it (`CopiesConfirm`), also when it has grown since.
  `PathsOfRowsVerify` (`RowsAreProven`): the path that `audit.go` makes for a row, at
  any moment and under any published root that covers the row, passes
  `AuditInclusionRoot`.

  Last, an export: `ExportsAlwaysPass`.  Whether the checks of `Counter` pass does not
  follow from `RowsAreProven` alone, as `Evidence` picks and sorts and `Counter` looks
  things up again in what it was given.  `ExportInv` (`RowsStand`) says
  what the rows and roots of any moment have in common: the rows of a conversation have the
  numbers 1, 2, ... in the order of the log, roots are numbered as they are published.
  `Sorted` places a number by how many are below it; these ranks are distinct, so a
  sorted list has each member once (`RanksAreDistinct`, `SortedLists`) and each lookup
  finds one entry.  The loop in `Evidence` passes over a root if another one of that size is
  used already; `RootsDiffer` shows that this never happens, as two roots of one
  size cover the same rows and so the earlier one is everyone's choice - the reason
  why `EarliestRoot` is without that test.  Then what is written parses
  (`ExportsParse`), and each row finds its root and its path there
  (`ExportedRowsHave`).

Only model-checked: the liveness properties (`RequestsAreAnswered`,
`StopCompletes`, `CallEnds`, `Exits`), as fairness and ENABLED are out of the prover's
reach.  What a fair scheduler has to work with is proved for the first three: that the
end, once reached, is the promised one (`NoAnswerIsDropped`), that who waits waits for
something that can happen (`StopIsUnderWay`, `NoWaitIsUntimed`), and that there are only
so many steps to take (`NoStepIsRepeated`).

## 11. Where documents and code disagree

Each is a run that expects a violation; `PROJECT.json` quotes both sides.

* **bridge_network_failures**: a failure while the response *body* is read
  leaves the request unanswered; the header of `bridge.ts` says it is
  answered with -32603.
* **clients_go_timeout**: a deadline that passes during the body is a
  `NetworkError`, not the documented `TimeoutError`.
* **clients_go_lacking**: `ListAuditEvents` returns an export without its required
  fields as a value; `go/README.md` says every method rejects one.
* **clients_py_timeout**: a call may outlast its timeout and succeed.
* **pipelines_errors**: a sanitizer payload that is JSON but no object makes
  `verify_certificate` raise `AttributeError`; a comment says only
  `LucairnCertificateError` and `TypeError` escape.

## 12. What is not modelled

Canonical JSON, the strict JSON grammar, ASN.1/CMS, Ed25519 and ECDSA with the
base64 forms of a caller's key and the checks for weak points: formats and
primitives, compared across the SDKs by the parity corpus.  The policy for
pinned keys of the chain verifier.  Steps 1 to 8c and 9 of the TypeScript and
Python chain verifiers, which repeat those of Go one by one.  Of the MCP server the
choice of the upstream key's header and the texts of a result.  Report rendering, typed
values, the compatibility shim, the corpus cases and workflows: no behaviour.
`Bundle` takes the verdict on an anchor as a field of the bundle and lets it take
every value; `Anchors` shows which of them can occur.
