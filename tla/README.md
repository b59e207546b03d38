# TLA+ models of rust-cardano (chain-impl-mockchain and friends)

This directory holds TLA+ models of the binary codecs and the small state
machines of `src/`. The models are checked with TLC. Each model follows the
Rust source: one action per handler or loop iteration, and guards taken from
its conditions and `?` early returns. Data is abstracted to what the
properties tell apart.

## The system

| Part | Source | What it does |
|---|---|---|
| Block framing | `chain-impl-mockchain/src/block/mod.rs` | `Block::serialize` writes a `HeaderRaw` frame and then one `MessageRaw` frame per message. Each frame has a u16 length prefix. `Block::deserialize` reads the header, then loops on `MessageRaw` frames, subtracting each frame's size from the header's u32 `block_content_size` until it reaches 0. Callers decode block after block from one `BufRead`. |
| Update proposals and settings | `chain-impl-mockchain/src/setting.rs` | `UpdateProposal::serialize` writes `(u16 tag, payload)` records in tag order, then `End`. `UpdateProposal::read` loops over records in any order. A later record of a tag overwrites an earlier one. An unknown tag panics. `Settings::apply` copies the settings and overwrites the fields that are present. |
| Transaction witnesses | `chain-impl-mockchain/src/transaction/witness.rs` | `new_utxo` / `new_account` build a witness. `serialize` / `read` move it over the wire as a tag byte plus a body. `verify_utxo` checks it. |
| Initial ents | `chain-impl-mockchain/src/message/initial.rs` | A list of `ConfigParam`s, read until the buffer ends. |
| Stake pool role | `chain-impl-mockchain/src/stake/role.rs` | Codecs of `StakeKeyId`, `StakePoolId`, `GenesisPraosLeader` and `StakePoolInfo` (owner count as u8). |
| HD payload | `wallet-crypto/src/hdpayload.rs` | `HDKey::encrypt` / `decrypt` of a derivation path (ChaCha20-Poly1305 with a 16-byte tag). |
| Test keys | `chain-crypto/src/testing.rs` | Seeded key generators for tests. |
| Packer / ReadBuf | `chain_core`, not in `src/` | Big-endian `put_uN` / `get_uN`. A read past the end is `ReadError::NotEnough`. |

The parts interact through bytes. Blocks carry messages, and a message can
be an update proposal or initial ents. Transactions carry witnesses. Every
codec uses the packer and `ReadBuf`. The code is sequential: there are no
threads, locks or callbacks. The hard behaviours are therefore these:

- long sequences of calls on a shared stream or on shared state, such as
  block after block on one reader, or proposal after proposal applied to
  `Settings`;
- hostile or truncated input;
- numeric edges: u32 underflow, `as u8` casts, and usize subtraction;
- panics (`panic!`, `unimplemented!`, an out-of-bounds index, and debug
  overflow checks) where the spec requires an error.

No failure injection such as crashes, message loss or retries is modelled,
because nothing in this code persists state or retries. Malformed input,
truncated input and a lying header are modelled.

## Modules

- **`Packer.tla`**: `PutU`, `FromBE`, `CanGet` and `GetU`. This is modelled
  from the spec, because `chain_core` is not under `src/`.
- **`BlockCodec.tla`**: the block stream decoder.
  - Bytes are abstracted to frames. A frame is a message, a header or a cut
    (truncated) frame, and its wire size is its length plus 2.
  - Variables:
    - `input`, `pos`: the reader;
    - `profile`: `debug` or `release`, the Rust build. It decides whether a
      u32 underflow panics or wraps;
    - `status`, `header`, `remaining` (the u32 `serialized_content_size`) and
      `contents`: the locals of `Block::deserialize`;
    - `blocks`: what the successive calls returned.
  - Actions:
    - `ReadHeader`: lines 136-140;
    - `ReadMessage`: one iteration of the `while` loop, lines 142-153, with
      every `?` error as a `Fail` disjunct;
    - `FinishBlock`: the `Ok(Block)` return;
    - `Done`: the stop state.
  - `ContentSize`, `IsConsistent` and `MakeBlock` model
    `compute_hash_size`, `is_consistent` and the `Arbitrary` instance.
  - A hash is an injective tag record.
  - A message frame carries its payload bytes. `Message::from_raw` is
    taken from `InitialEnts` (`Ents == INSTANCE InitialEnts`), so a block
    fails exactly when one of its messages is not a readable Initial
    message.
  - `Abstract == INSTANCE BlockStream WITH source <- ..., delivered <-
    blocks, failed <- ...` maps the decoder onto the abstract reader: the
    well-formed block list of the input (or `Malformed`), the blocks
    returned so far, and whether the decoder failed or panicked.
- **`BlockStream.tla`**: what a block reader promises. A well-formed
  stream hands back its blocks in order, never fails, and under weak
  fairness hands back all of them (`Deliver`). A malformed stream may hand
  back any blocks (`DeliverAny`) or fail (`Fail`), and never takes back a
  block.
- **`InitialEnts.tla`**: `InitialEnts::serialize` (params one after the
  other, no count) and `InitialEnts::read` (`ReadFrom`, a `RECURSIVE`
  loop that reads params until the buffer ends, the first failing param
  failing the read), and `Message::from_raw` for the Initial tag.
  `ConfigParam` is not under `src/`; it is modelled from the spec as a tag
  byte from `ParamTags` and a one-byte value.
- **`MCBlockCodec.tla`** enumerates the streams:
  - every list of up to 2 well-formed blocks, each holding up to 2 of the
    Initial messages with 0, 1 and 2 params;
  - followed by nothing, a cut frame or a one-message block;
  - and malformed first blocks: every header size 0..15 (a 4-bit counter
    stands for u32), a non-parsing header, and contents with a message that
    fails `Message::from_raw`: a param cut after its tag, and an unknown
    param tag.
- **`Settings.tla`**: the update pipeline. Bytes are exact.
  - Variables: `wire`, `cursor` and `update` (the `ReadBuf` and the locals of
    `UpdateProposal::read`), `dec` (its outcome), `settings`, `history` (the
    proposals applied) and `sent`.
  - Actions:
    - `SubmitProposal` / `ReceiveRaw`: bytes arrive;
    - one loop iteration of `read`: `ReadEnd`, `ReadField` (including the
      unknown consensus version error), `ReadNotEnough` or
      `ReadUnknownTag` (a panic);
    - `ApplyUpdate`: `Settings::apply`;
    - `DropFailedRead`.
- **`MCSettings.tla`** gives every field two values, one of them a
  multi-byte value or the default. Proposals carry up to 2 fields, there are
  2 updates, and leader ids are 1 byte. There are 8 raw wires: out of order,
  a repeated tag, boolean byte 2, consensus code 3, tag 9, truncated leaders,
  a truncated u32, and a single byte. `MCValuesManyLeaders` replaces the
  leader lists by one list of 256 leaders. `LeaderBytes` writes the leader
  ids by index arithmetic, so such a wire stays within TLC's reach.
- **`Witness.tla`**: rounds in which a witness is built (`NewUtxo`,
  `NewAccount`) or received (`ReceiveRaw`), then read (`ReadWitness`), then
  verified (`VerifyUtxo`).
  - Keys and transaction ids are model values. A signature is `[by, msg]`
    and verifies exactly for its signer and its message.
  - `made` remembers how the witness in flight was built, so verdicts can be
    compared with the truth.
  - `NewAccount` panics at once, because `TransactionIdSpendingCounter::new`
    writes `v[0]` into an empty `Vec` (`witness.rs:50`). Every call of
    `new_account` panics, so any unit test finds this. No run is spent on
    it; the action keeps the panic so that the other runs see it.
- **`MCWitness.tla`** uses 2 keys, 2 transaction ids and 3 rounds. Its raw
  wires are an OldUtxo witness, an Account witness, a Utxo tag with no
  signature, and tag 3.
- **`HdPayload.tla`**: HD address payloads.
  - The wallet starts with the keys `HDKey::new` derives from its root
    public keys. PBKDF2 is ideal: distinct roots give distinct keys.
    `ImportKey` adds the key `HDKey::from_slice` makes of a slice, which
    it does only for exactly 32 bytes.
  - `EncryptPath` and `EncryptRaw` seal a plaintext and serialize the
    payload as an address attribute. `ReceiveRaw` takes a wire from
    elsewhere. All of them add wires to a shared set. `DecryptPath`
    deserializes a wire and runs `decrypt` and `Path::from_cbor` on it, with
    any key.
  - Address serde is byte-exact CBOR-in-CBOR: `SerializeAddress` writes a
    byte string inside a byte string, and `DeserializeAddress` reads both
    and hands the inner bytes to `from_bytes`. CBOR head bytes are
    `Known(v)` records. Ciphertext bytes are opaque `[ct, at]` records, so
    only a whole, unchanged ciphertext is the sealed payload again.
    `DeserializeAddress` does not look past the outer item, so it ignores
    trailing bytes, as the code does.
  - The AEAD is ideal: the tag verifies only under the sealing key, and only
    when `decrypt` splits at the end of the plaintext.
  - Path CBOR is byte-exact. `Cbor` models `Path::cbor` and `FromCbor`
    models `Path::from_cbor`; the `raw_cbor` helpers are modelled from the
    spec.
  - `decrypt`'s `input.len() - TAG_LEN` is usize: it panics in debug and
    wraps at `UsizeWidth` bits in release. After it come the `len <= 0`
    guard, the `len`-byte allocation (capacity overflow past `isize::MAX`)
    and the slice.
- **`MCHdPayload.tla`**:
  - 2 root keys, and slices of 31, 32 and 33 zero bytes (the all-zero key
    of the `unit1` test);
  - 5 paths, with indices of 1, 2 and 3 CBOR bytes;
  - raw plaintexts: empty, a negative integer, and a truncated integer;
  - received wires: foreign payloads of lengths 0, 15, 16 and 17, one cut
    inside the ciphertext, and a sealed path followed by a trailing byte;
  - usize of 6 bits, both profiles, and 4 operations.
- **`StakePool.tla`**: rounds in which a `StakePoolInfo` is serialized
  (`SerializePool`, with the owner-count `assert`) or bytes arrive
  (`ReceiveRaw`), then read back and registered under the id the reader
  computes with `to_id` (`ReadPool`).
  - `SerializeLeader` writes the KES and VRF keys, as
    `GenesisPraosLeader::serialize` does.
  - Public keys are whole wire items; the u8 owner count has
    `OwnerCountWidth` bits.
- **`MCStakePool.tla`**: 3 keys, 2 serials, up to 4 owners with a 2-bit
  count (so 4 owners reach the assertion), and 2 rounds. Its raw wires have
  a count past the end, a missing VRF key, trailing bytes, and a lone
  serial.

## Runs

| Run | Checks | Result |
|---|---|---|
| `block_roundtrip` (`MCBlockCodec.cfg`) | `ImplementsBlockStream`: the decoder refines `BlockStream`, so a serialized block list decodes to the same blocks in order, and eventually to all of them; on malformed input no returned block is ever changed. `DecodedSizeMatchesHeader`: every returned block's content size equals its header size mod 2^32. `InitialEntsFrameStable`: every message the decoder accepts reads back as Initial ents that serialize to the same bytes. | pass, 402k states |
| `block_overrun` (`MCBlockCodec_OverrunRejected.cfg`) | `OverrunRejected`: a message larger than the remaining size is neither consumed past the header's size nor a panic | violated: a header declaring a content size of 1 is followed by a message with a 1-byte payload, which is a 3-byte frame. Both builds reach it, and TLC may report either trace. In debug, `1 - 3` panics on the u32 underflow. In release the message is consumed and the 4-bit counter wraps from 1 to 14. The loop then reads on past the block. |
| `settings_pipeline` (`MCSettings.cfg`) | `SettingsFollowLastWriter`: every setting equals the value of the last proposal that carried it. `DecodeRoundTrip`: serialize then read gives the same proposal and consumes all bytes. | pass, 86k states |
| `settings_unknown_tag` | `NoPanicOnUpdate` | violated on tag 9 (`setting.rs:157`) |
| `settings_leader_count` | `DecodeRoundTrip` with 256 BFT leaders | violated: `leaders.len() as u8` writes count 0 (`setting.rs:82`). The read returns no leaders. It then reads the next two bytes, the first two one-byte leader ids (both 0), as the u16 `End` tag, and stops with 254 leader bytes unread. |
| `witness_verify` (`MCWitness.cfg`) | `WitnessVerifiesOwnTx`: a Utxo witness is Success exactly for its signer's key and its transaction | pass, 9.6k states |
| `hd_payload` (`MCHdPayload.cfg`) | `DecryptPathCorrect`: `decrypt_path(k, encrypt_path(k, p)) = Some(p)`, a different key gives `None`, and no address yields a path under a key that did not seal it. This runs through address serialize and deserialize. | pass, 62k states |
| `hd_short_payload` | `NoFatalDecrypt` (spec 4.8) | violated: a payload shorter than 16 bytes panics at `hdpayload.rs:89` (debug) or `:94` (release) |
| `hd_frame_stability` | `AddressFrameStable` (spec 8.2): every address wire `deserialize` accepts serializes back to the same bytes | violated: a sealed address with one byte after the inner byte string is accepted (`hdpayload.rs:136`), still decrypts to its path, and re-serializes without that byte |
| `stake_pool_codec` (`MCStakePool.cfg`) | `PoolRoundTrip`: read(serialize(p)) = p. `PoolIdIdentifiesPool`: two registered pools with the same `to_id` are the same pool. | pass, 1.0M states |
| `stake_pool_owner_assert` | `NoPanicOnSerialize` (spec 7) | violated: 256 owners (4 in the model) trip the `assert!` at `role.rs:104` |
| `witness_old_utxo` | `NoPanicInVerifyUtxo` | violated: `unimplemented!()` (`witness.rs:87`) |

Every property of a passing run has a mutant in `PROJECT.json`: a plausible
bug in the mapped definition that TLC catches. Examples are a
`size_bytes_plus_size` without the 2-byte prefix, a saturating subtraction,
swapped LinearFee words, `apply` rebuilding from defaults, and a Utxo arm
writing the Account tag.

**Bounds.**

- The 4-bit content size still lets a header lie in both directions, and it
  lets the counter wrap with two messages.
- Two blocks per stream let a faulty decode misplace the second block.
- Two proposals touching different fields are the shortest sequence that
  separates last-writer-wins from rebuilding from defaults.
- Three witness rounds cover every tag and error.
- Initial messages of 0, 1 and 2 params, plus one cut after a param tag
  and one of unknown tag, are enough to expose a lenient read. A read that
  stops at the first bad param accepts the cut message, and its params
  serialize to fewer bytes.

**Fairness.** `BlockCodec` assumes `WF_vars(Next)`. A caller that reads
blocks calls `Block::deserialize` again and again on one thread. Nothing in
the decoder blocks, waits or is scheduled: each step is a buffer read that
returns. So a step that stays enabled is eventually taken. Under that
assumption the refinement checks liveness: `BlockStream` demands
`WF(Deliver)`, so every block of a well-formed stream is eventually
returned. The other modules assume no fairness and state only safety
properties. Their loops always move forward: each iteration of
`UpdateProposal::read` consumes at least a tag and a payload. So for them
termination holds by construction, and a liveness property would show
nothing. Every module ends in a `Done` stop state, because the code is
sequential and ends on finite input.

## Not modelled

- The canonical form of `UpdateProposal` (spec 8.2). `read` accepts records
  out of order and repeated, so re-encoding can change the bytes. The
  8-wire set of `MCSettings` contains such wires, but no property states
  canonicity any more.
- The 0..100 range of `bootstrap_key_slots_percentage`, which nothing
  validates (a hazard in `PROJECT.json`).
- The `StakeKeyId` and `StakePoolId` codecs (`role.rs:55-79`). Each one
  writes or reads a single key or hash through `key.rs`, which is not under
  `src/`. `StakePoolInfo` does not call them: it calls
  `serialize_public_key` directly. They have no state, and a model of them
  would be the identity on one wire item. So the stake pool component is
  only partly modelled.
- `ConfigParam` and the `Message` tag, which are not under `src/`. They are
  modelled from the spec.
- `testing.rs`: quickcheck `Arbitrary` instances that draw keys from a
  seeded ChaCha generator and hashes from random bytes. They hold no state
  and have no steps, so there is nothing for TLC to check. The model stands
  for their random draws with small sets of model values.
- The `Error` enum of `setting.rs` and its `Display` text: no code under
  `src/` returns it.
- The internals of headers and of other message kinds, which are not in
  `src/`.
