# Formal model of the Go FFI wrapper for DKLs23 (`src/wrapper/go-ll`)

This directory holds TLA+ models of the Rust `extern "C"` layer that a Go host
uses to run DKLs23 distributed key generation and signing. It also holds the
TLC configurations that model-check the models, and TLAPS proofs of their main
invariants. `PROJECT.json` lists the components, runs, mutants, the map from
definitions to source lines, findings, hazards and theorems.

## The system

The wrapper (`src/wrapper/go-ll/src`) is a set of entry points. Each takes
raw pointers from the host and returns raw pointers to it:

| part | source | state it changes |
|---|---|---|
| keygen sessions | `keygen.rs` | `Box<KeygenSessionHandle>` with the engine state, `n`, and a tagged `Round` (Init, WaitMsg1..4, Failed, Share) |
| keyshares | `keyshare.rs` | `Box<KeyshareHandle>`, created by `dkls_keygen_keyshare` or `from_bytes`, borrowed by rotation and recovery, released by `free` |
| sign sessions | `sign.rs` | `Box<SignSessionHandle>` with its own round enum |
| messages | `message.rs` | `Message` envelopes (from, to, payload) and `MessageArray`s handed to the host |
| errors, buffers, RNG | `lib.rs`, `errors.rs` | `GoError` and `ByteBuffer` heap objects; `maybe_seeded_rng` |
| engine | external crate `dkls23_ll` | opaque cryptographic state |

The components interact through pointers. A keygen session in `Share`
becomes a keyshare through `dkls_keygen_keyshare`. A keyshare seeds
rotation, recovery and sign sessions. Each round call takes a batch of
messages and returns a batch. The host owns every pointer it receives and
decides from return values and error texts alone when to free one.

## Modules

### `KeygenSession` (keygen sessions and keyshares)

Memory is modelled as a finite set of addresses. `Handles` holds the addresses
of session boxes and `Shares` those of keyshare boxes. A freed address can be
handed out again, just as the allocator does.

State:
- `kmem` and `smem` record whether each address is live.
- `round`, `n` and `commitLen` are the fields of the session at each address.
- `shareN` is the rank-list length of each keyshare.
- `owned` and `ownedShares` are the pointers the host believes it holds. The
  host updates them only from what a call returns.
- `err` is the error text of the last call, and `lastOp` names that call.
- `proc` becomes `"aborted"` once a panic reaches an `extern "C"` boundary.

Each entry point that changes state is one action. Its guard comes from the
code's null checks and early returns, and its branches follow the `match` on
the round:
- `KeygenNew`, `KeygenInitKeyRotation`, `KeygenInitKeyRecovery` and
  `KeygenInitLostShareRecovery` box a new session through `Allocate`. The
  last one checks the pk length before it builds the RNG, and decodes the
  point after.
- `KeygenCreateFirstMessage`.
- `KeygenHandleMessages` covers all four rounds:
  - The RNG is built first.
  - Round 3 checks the commitment buffer (`0` gives "commitments required",
    any length other than `n*32` gives "invalid commitments length").
  - `Advance` and `RoundAfter` model `handle_messages`: a decode error
    returns before the round changes, and an engine error sets `Failed`.
  - Round 4 has its own decode path, which does set `Failed`.
- `KeygenKeyshare` has three outcomes: in `Share` it frees the session and
  boxes a keyshare; in `Failed` it keeps the session and reports "failed";
  in any other round it frees the session and reports "keygen-in-progress".
- `KeygenFree`, `KeyshareFromBytes`, `KeyshareFree`, and `NullHandleCall`
  (a null session pointer).
- `KeyshareFromNullBytes`: `dkls_keyshare_from_bytes` with a null bytes
  pointer, which is what an empty Go slice gives. `slice::from_raw_parts`
  requires a non-null pointer even for length 0, so this is undefined
  behaviour. The constant `UBChecks` picks the outcome of the build. A build
  that checks unsafe preconditions (debug assertions on) aborts. A build
  that does not reads an empty slice, which fails to decode, so the call
  returns null.

The engine is abstracted to the fate of a batch (`Batches`): accepted,
failing CBOR decoding, or rejected with a `KeygenError`. Buffer contents are
abstracted to their lengths, which are all that the wrapper checks.
`RngPanics` models `maybe_seeded_rng`: with a non-null seed, `try_into` into
`[u8; 32]` panics unless the length is 32.

### `SignSession` (sign sessions)

The memory model is the same as for keygen, with its own set of addresses
(`SignHandles`).

State:
- `tmem`, `tround` and `towned` mirror `kmem`, `round` and `owned`.
- `sigs[h]` is a history variable: the digests for which the session at `h`
  produced a partial signature since it was allocated.
- `smem` and `ownedShares` are the keyshares, which are shared with the
  keygen side.
- `err`, `lastOp` and `proc` are as in `KeygenSession`.

Actions:
- `SignNew` makes its checks in the code's order: null keyshare, then
  `c_str_to_string` on the chain path, then `DerivationPath::from_str`,
  then the RNG, then the engine. Their outcomes appear as `PathError`.
- `SignCreateFirstMessage`.
- `SignHandleMessages`, through `SignAdvance`:
  - In rounds 1-2 a decode error returns before the round changes.
  - In round 3 a decode error sets `Failed`.
  - Any engine error sets `Failed`. Errors with code 1 and code 2 appear as
    the texts "sign error" and "ban party".
- `SignLastMessage` checks the hash length before the round. In `Pre` it
  moves to `WaitMsg4` and records the digest. In any other round it puts the
  round back.
- `SignCombine`:
  - A null `r_out` or `s_out` is rejected and nothing is consumed.
  - On every other path the handle is dropped through `SignRelease`, also in
    a wrong round.
- `SignFree` and `SignNullHandleCall`.

`dkls_sign_new` clones the keyshare, so a session keeps no reference to a
keyshare address. The keyshares themselves are an environment action,
`ShareEnv`. It boxes a keyshare at a free address, as
`dkls_keygen_keyshare` and `dkls_keyshare_from_bytes` do, or releases one
the host owns, as `dkls_keyshare_free` does.

`MCSignSession` checks two session addresses, one keyshare address, digests
`d1` and `d2` (two, so that a second use of a pre-signature would show),
hash lengths 31 and 32, and seed lengths {0, 32}. Symmetry is applied over
the session addresses and over the digests.

### `SessionLifecycle` (what a session handle promises)

This is the abstract specification shared by both kinds of session. It
collapses the protocol rounds into the phases `none`, `init`, `active`,
`done` and `failed`, and records the addresses the host holds.
- `Create` takes a free address and hands it to the host.
- `Start`, `Complete` and `Abort` move a session the host holds, and only
  forward.
- `Release` ends a session in any phase and frees its address for reuse.

Each session module instantiates it with a refinement mapping:
- `SignLC` in `SignSession`, with the phases given by `SignPhaseOf`.
- `KeygenLC` in `KeygenSession`, with the phases given by `KeygenPhaseOf`.

The mapping works as follows:
- A freed address is `none`.
- `Init` is `init`.
- `Failed` is `failed`.
- Keygen's `Share` is `done`, and so are sign's `WaitMsg4` and `Finished`.
- Every other round is `active`.
- The host's pointer set is the abstract `held`.

The properties `KeygenImplementsLifecycle` and `SignImplementsLifecycle` are
`LSpec` under these mappings.

### `HostObjects` (messages, arrays, errors, byte buffers)

This module models the heap objects, other than handles, that the wrapper
hands out, together with the allocations each object owns:
- `message`: a `Box<Message>` owns its payload `Vec`.
- `array`: a round call's boxed slice owns one payload per message.
- `error`: a `Box<GoError>` owns its `CString`.
- `bytes`: a `ByteBuffer`'s `Vec`.
- `text`: the `CString` of a `GoError` that was never boxed.

State:
- `obj[a]` is the kind of the object at address `a`.
- `inner[a]` counts the owned allocations still live.
- `cap[a]` is the capacity the object was made with.
- `held`, `hkind` and `hlen` are what the host holds and was told.
- `leaked` and `ub` are set by a release that frees too little, or that
  rebuilds an allocation with another layout.

Actions:
- `RoundCallOk` is the success path of both `handle_messages` calls. An
  empty batch allocates nothing. Otherwise `into_boxed_slice` runs first,
  and the slice reaches the host only when `out` is non-null.
- `ErrorReturn` models the early returns, which call `GoError::new`
  only inside their `!err_out.is_null()` check. With a null `err_out`
  nothing is allocated.
- `RoundCallError` models the `Err` arm of both `handle_messages` calls
  (`keygen.rs:502-507`, `sign.rs:321-326`). There the `GoError`, and the
  `CString` of its text, already exist: they were made where the decode
  or the engine failed. The arm boxes the error only for a non-null
  `err_out`. Otherwise the `GoError` is dropped, and since it has no
  `Drop` the text stays allocated and is held by no one.
- `SingleMessageCall` models `create_first_message` and `last_message`.
- `ToBytesCall` models the `to_bytes` calls.
- `HostRelease` is the host's release call for what it holds:
  `dkls_message_free`, `dkls_message_free_array(msgs, len)`,
  `dkls_free_bytes` or `dkls_free_error`. Each goes through `Drop`.
- `NullRelease` is a release call on null, which returns at once.

What each call produces depends on the session modules, so here it is an
input. `MCHostObjects` uses three addresses and at most two messages per
call. That is enough for an array, a message and an error to be live at
once, and for an address to be reused.

### `MCKeygenSession`

This module fixes the small instance that TLC checks:
- two session addresses and two keyshare addresses, with symmetry over each
  set;
- party counts 2 and 3;
- commitment lengths 0, 33, 64 and 96 (none, not a multiple of 32, exactly 2
  parties, exactly 3 parties);
- pk lengths 32 and 33;
- seed lengths {0, 32} for the pass run and {0, 16, 32} for the abort run.
- `UBChecks = FALSE` everywhere except the null-bytes abort run. The pass
  run still makes null-pointer `from_bytes` calls, which then return null.

Two addresses of each kind are enough for an address to be freed and then
reused while a second session is live. Two party counts make a commitment
buffer right for one session and wrong for another.

## Runs

| run | cfg | result | what it shows |
|---|---|---|---|
| keygen_pass | `MCKeygenSession.cfg` | pass, about 154k distinct states | See the properties below. |
| keygen_keyshare_consumes | `MCKeygen_KeyshareConsumesSession.cfg` | violation | `keyshare` on a Failed session keeps the handle (spec 4.1 says it is always consumed). |
| keygen_decode_error_fails | `MCKeygen_DecodeErrorFails.cfg` | violation | A decode error in rounds 1-3 leaves the round unchanged (spec 7(b) says Failed). |
| keygen_seed_abort | `MCKeygen_NoAbort.cfg` | violation | A 16-byte seed aborts the process (spec 7(a) says it is an error return). |
| sign_pass | `MCSignSession.cfg` | pass, about 3.4k distinct states | See the properties below. |
| sign_invalid_state | `MCSign_InvalidStatePreserves.cfg` | violation | `combine` before WaitMsg4 destroys the session (spec 8 says a wrong-state call leaves it unchanged). |
| keygen_null_share_bytes | `MCKeygen_NullBytesAbort.cfg` | violation | With `UBChecks`, a null bytes pointer to `dkls_keyshare_from_bytes` aborts the host, even though every seed is valid. |
| host_pass | `MCHostObjects.cfg` | pass, about 1.3k distinct states | `NothingLost`, for a host that passes both out-parameters. |
| host_any_pointers | `MCHost_AnyPointers.cfg` | pass, about 17.6k distinct states | `TypeOK` and `LayoutsMatch`, for a host that may pass null for either. |
| host_null_out | `MCHost_NullOut.cfg` | violation | A round call with a null `out` leaks the boxed messages. |
| host_null_err_out | `MCHost_NullErrOut.cfg` | violation | A failing round call with a null `err_out` leaks the text of its `GoError`. |

Properties of `keygen_pass`:
- `OwnershipAgreement`: the host holds exactly the live session and keyshare
  pointers, so there is no leak, double free or use of a reused address.
- `Round3Commitments`: every live session past round 3 was given one 32-byte
  commitment per party.
- `RoundMonotone` (action property): a live session moves forward one round
  or to `Failed`, and never leaves `Failed` or `Share`.
- `BoundaryErrorsPreserve` (action property): a call that reports a
  validation error changes no allocation and no round.
- `KeygenImplementsLifecycle`: every step is a `SessionLifecycle` step or a
  stutter under `KeygenLC`.
- `TypeOK`.

Properties of `sign_pass`:
- `SignOwnershipAgreement`: combine drops the handle exactly when the host's
  rule says it does. The rule is that `handle`, `r_out` and `s_out` are
  non-null.
- `PreSignatureSingleUse`: no session ever makes partial signatures for two
  different digests. Two such signatures from one nonce would reveal the key
  share.
- `EngineErrorTerminal` (action property): an engine rejection, with code 1
  or 2, leaves the session `Failed` or destroyed. Only calls that return
  are judged. A call that aborts the process (the seed-length panic)
  returns nothing, so it reports nothing, even though the `err` variable
  still holds the text of an earlier call on another handle.
- `SignRoundMonotone` (action property): a live session moves forward one
  round or to `Failed`, and never leaves `Failed`, `WaitMsg4` or
  `Finished`. In particular, a digest of the wrong length never costs the
  pre-signature.
- `SignImplementsLifecycle`: the same refinement, under `SignLC`. It
  catches a `last_message` that forgets to put the round back. `Finished`
  maps to the phase `done`, so the mutant shows up as a jump to `done`
  from `init` or `failed`, which no abstract step allows.
- `TypeOK`.

Property of `host_pass` (`out` and `err_out` always valid):
- `NothingLost`: every live object is held by the host, with the kind and
  length the host was told, and no payload or error text outlives its
  owner.

Properties of `host_any_pointers` (`out` and `err_out` may each be null):
- `LayoutsMatch`: no release rebuilds an allocation with a capacity or
  element count other than the one it was made with. This relies on
  `into_boxed_slice`. What a null pointer leaks is never released, so it
  cannot be released with the wrong layout.
- `TypeOK`.

Each property has a mutant in `PROJECT.json` that TLC catches. For example,
`KeygenFree` without its `Box::from_raw` breaks `OwnershipAgreement`, and a
commitment length check off by one party breaks `Round3Commitments`.

## Findings

1. **keyshare on a Failed session** (`keygen.rs:529`). This outcome keeps
   the handle, while the other two outcomes, which also return null, free
   it. A host cannot follow the spec and stay memory-safe. Freeing after every
   null return double-frees in the in-progress case. Never freeing leaks in
   the failed case.
2. **Decode errors** (`keygen.rs:340`). In rounds 1-3 they do not fail the
   session, but in round 4 (`keygen.rs:447`) they do.
3. **Seed length** (`lib.rs:31`). A wrong seed length panics across the FFI
   boundary, which aborts the host.
4. **combine in the wrong round** (`sign.rs:431`). It destroys the session.
   Spec 8 says a wrong-state call leaves the session unchanged, while spec
   4.2 says combine always consumes. The spec leaves this case open.
   Calling combine in `Pre` loses the pre-signature. Sign rounds 1-2 share
   keygen's behaviour on decode errors: the session can be retried, while
   in round 3 it fails.

5. **Null out leaks a round's messages** (`keygen.rs:493`, `sign.rs:312`).
   The slice is boxed, and the raw pointer taken, before `out` is checked.
   With a null `out` the call returns 0, the session has advanced, and the
   messages and their payloads can never be freed.
6. **Null keyshare bytes** (`keyshare.rs:30`). `slice::from_raw_parts`
   gets the host's pointer without a null check. Depending on the build,
   this is an abort or a silent null return. Spec 7(a) says null-pointer
   misuse is a boundary error.
7. **Null err_out leaks a round's error text** (`keygen.rs:503`,
   `sign.rs:322`). A round call builds its `GoError` where the decode or
   the engine fails, and `CString::into_raw` (`lib.rs:49`) allocates the
   text there. The `Err` arm boxes the error only for a non-null
   `err_out`. Otherwise the `GoError` is dropped without freeing the text,
   because `GoError` has no `Drop`. Every other entry point builds its
   error inside the `err_out` check, so only the round calls leak.

## Fairness and liveness

The session modules assume no fairness. Every step is a call the host may
or may not make. The wrapper has no threads, timers or retries of its own,
so no session step has to happen.

`HostObjects` assumes no fairness either. Whether every object is
eventually freed depends on the host. Given a host that releases all it
holds, it comes down to the wrapper's side, which `NothingLost` states as
a safety property: every live object is held by the host, with the kind
and length its release call needs. A liveness property under weak
fairness of `HostRelease` would add nothing to it.

## Proofs (`KeygenSession_proofs`, TLAPS)

The following theorems hold for all values of the constants, under
`ConstAssumption`: party counts fit in a `c_uchar`, lengths are naturals,
and null is not an address.

- `TypeCorrect`: `Spec => []TypeOK`. There is one lemma for each shared
  primitive step (`Panic`, `Reject`, `Allocate`, `Advance`). Each action's
  case cites these lemmas.
- `OwnershipAgreementHolds`: `Spec => []OwnershipAgreement`.
  - The inductive invariant is `TypeOK /\ OwnershipAgreement`.
  - `TypeOK` is needed so that the `EXCEPT` updates stay inside the
    domains.
  - The key facts are that every allocation targets an address that is
    `"free"`, which the host therefore cannot hold, and that every release
    removes the address from the host's set in the same step.
- `Round3CommitmentsHolds`: `Spec => []Round3Commitments`.
  - The inductive invariant is `TypeOK /\ Round3Commitments`.
  - The argument runs through the round function `Succ`: only a WaitMsg3
    call that passed the length check enters WaitMsg4, and it stores that
    length. Later rounds keep `n` and `commitLen`. `Allocate` restarts a
    reused address at `Init`.

`SignSession_proofs` proves the following under `SignConstAssumption`:
- `SignTypeCorrect`.
- `SignOwnershipHolds`: inductive with `TypeOK`, with one lemma for each
  primitive step (`SignReject`, `SignPanic`, `SignRelease`).
- `PreSignatureSingleUseHolds`.
  - `PreSignatureSingleUse` is not inductive on its own: a session in `Pre`
    that had already signed could sign again.
  - The strengthening `SigInv` says that a session has signed nothing
    unless it is in `WaitMsg4` or `Finished`, and then it has signed
    exactly one digest.
  - `SignLastMessage` adds to `sigs` only from `Pre`, where `sigs` is empty,
    and it leaves `Pre` behind. No other step moves a session that has
    signed, except allocation, which clears `sigs`.

Both session proof modules also prove the refinement:
`KeygenRefinesLifecycle` (`Spec => KeygenImplementsLifecycle`) and
`SignRefinesLifecycle` (`Spec => SignImplementsLifecycle`).
- Under the mapping, `Init` is `LInit`.
- Each action maps to an abstract step, one lemma per primitive step:
  - a rejection, a panic or a keyshare step is a stutter (`KRejectLC`,
    `KPanicLC`, `SignRejectLC`, ...);
  - `Allocate` is `Create`;
  - a free or a consuming `keyshare`/`combine` is `Release`;
  - `Advance` is `Start`, `Complete`, `Abort` or a stutter, by the round it
    reaches.
- The step proofs use the type and ownership invariants already proved.
  For example, `Create` needs the host not to hold a free address.

`HostObjects_proofs`:
- `HostTypeCorrect`: `Spec => []TypeOK`.
- `NothingLostHolds`: `Spec => []NothingLost` for a host with
  `OutPtrs = {"valid"}` and `ErrOutPtrs = {"valid"}`. Both hypotheses are
  needed: `host_null_out` and `host_null_err_out` show the leak when either
  is dropped.
  - It follows from the inductive invariant
    `HInv == TypeOK /\ NothingLost /\ LayoutsMatch /\ \A a \in held : Shape(a)`.
  - `Shape` records that a held message or error owns one allocation of
    capacity one, that an array was made with capacity equal to its
    length, and that a byte buffer owns nothing.
  - Without `Shape`, a release could not know that it frees exactly what
    the object owns.
  - `AllocHInv` and `ReleaseHInv` are the lemmas for the two kinds of step.
- `LayoutsMatchHolds`: `Spec => []LayoutsMatch`, with no assumption on
  `OutPtrs` or `ErrOutPtrs`.
  - With a null `out` or `err_out`, the slice or error text a round call
    made is live but not held, so `HInv` does not hold.
  - The invariant `LInv` keeps only what a release needs: `TypeOK`,
    `~ub`, and, for every held address, that the object is of the kind and
    length the host was told and has its `Shape`.
  - An object the host does not hold is never released, so it needs none
    of this.
  - `AllocLInv` covers an allocation whether or not it reaches the host;
    `ReleaseLInv` covers a release.
  - TLC checked `LInv` on `MCHostObjects` with both out pointers before
    it was proved.

## Proofs of the action properties (`KeygenActions_proofs`, `SignActions_proofs`)

These modules extend the session proof modules. They prove each action
property `[][P]_vars` in the same way:
- a step formula names `P`'s body (`RMStep`, `BEStep`, `EEStep`, `SRMStep`);
- a lemma per primitive step (`Panic`, `Reject`, `Allocate`, `Advance`,
  `Release`, or a frame that leaves the relevant variables alone) shows
  that the step satisfies it;
- `TypeOK /\ [Next]_vars => [Step]_vars` is proved with one case per action;
- `PTL` combines that with the type theorem.

The theorems:
- `RoundMonotoneHolds`: `Spec => RoundMonotone`. A newly allocated session
  was `"free"` before, so it is outside the formula. An `Advance` goes from
  a round in the domain of `Succ` to its successor, to `Failed`, or nowhere.
- `BoundaryErrorsPreserveHolds`: `Spec => BoundaryErrorsPreserve`. Only
  rejections and panics can write a boundary error, and neither touches
  `kmem` or `round`. Every other step writes `"none"`, a decode error, an
  engine error or `"keygen-in-progress"`.
- `EngineErrorTerminalHolds`: `Spec => EngineErrorTerminal`.
  - Only `SignAdvance` and `SignRelease` write `"sign error"` or
    `"ban party"`. No rejection text is one of them (`PathError` included).
  - `SignAdvance` sets `Failed` for a `rejected` or `ban` batch, whatever
    `decodeFatal` says.
  - `SignRelease` frees the handle it reports on.
  - `SignPanic` makes `proc' = "aborted"`, so the formula holds trivially.
- `SignRoundMonotoneHolds`: `Spec => SignRoundMonotone`. `last_message`
  moves a session from `Pre` to `WaitMsg4` only, and on every other path it
  is a rejection that leaves the round alone. Combine and free end the
  session's liveness.

TLC also checks every strengthening (`OInv`, `CInv` and `SigInv`) as an
invariant of the MC instances.

What stays with TLC:
- the violation runs, which show that a property fails on a small instance
  and need no proof.
No run checks a liveness property (see "Fairness and liveness"), so every
property of a passing run is proved.

## Not modelled (yet)

- The routing of message envelopes (`from_id`, `to_id` and the broadcast
  sentinel 255) and CBOR encoding/decoding (`message.rs`). Decoding appears
  only as the batch outcome.
- `dkls_error_message` and `dkls_error_code`, which only read.
- Stale `*out`/`*err_out` values on the other status. The model follows the
  status, as the contract tells the host to.
- The engine's cryptography, which is treated as an oracle.
- `sign_ot_variant`, whose source is not in the tree.
- `calculate_commitment_2`, the getters and `to_bytes`, which only read
  state.
- `dkls_keygen_from_bytes`, which always returns null.

## Plan

1. A `Message` module for routing: the broadcast sentinel and the recipient
   filter.
2. A composition of keygen and sign through shared keyshare addresses.
3. Composing `HostObjects` with the session modules, so that the batches a
   round call returns come from the session's round.
