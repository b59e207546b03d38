------------------------------ MODULE HdPayload ------------------------------
(***************************************************************************)
(* HD address payloads of wallet-crypto (src/hdpayload.rs).                *)
(*                                                                         *)
(* HDKey::encrypt_path CBOR-encodes a derivation path (an indefinite array *)
(* of u32) and encrypts it with ChaCha20-Poly1305, appending the 16-byte   *)
(* tag; HDKey::decrypt splits the input at input.len() - TAG_LEN, checks   *)
(* the tag and returns the plaintext, and decrypt_path decodes it back     *)
(* into a Path.  HDKey::encrypt is also public and takes any bytes.        *)
(*                                                                         *)
(* The model runs operations on a shared set of addresses: keys encrypt    *)
(* paths or raw bytes and the payload is serialized CBOR-in-CBOR, address  *)
(* wires arrive from outside, and any key tries to deserialize and decrypt *)
(* any of them.  The AEAD is ideal: a ciphertext is its key and           *)
(* plaintext, and the tag verifies only under that key and only when the   *)
(* split point is the plaintext's end.  CBOR is byte-exact.  usize         *)
(* arithmetic wraps at UsizeWidth bits in a release build and panics in a  *)
(* debug build.                                                            *)
(***************************************************************************)
EXTENDS Integers, Sequences, SequencesExt, Packer

CONSTANTS
  Roots,       \* root public keys (XPub) the wallet derives HD keys from
  Slices,      \* byte strings offered to HDKey::from_slice
  Paths,       \* derivation paths encrypted by the model
  RawPlains,   \* byte strings given to HDKey::encrypt directly
  RawAddresses, \* received address wires no key of the wallet made
  UsizeWidth,  \* bit width of usize
  Profiles,    \* Rust build profiles, "debug" and/or "release"
  MaxOps       \* operations in a behaviour

CONSTANT None  \* model value: no key (a received payload)

ASSUME UsizeWidth \in Nat \ {0} /\ MaxOps \in Nat
ASSUME Profiles \subseteq {"debug", "release"}

TAG_LEN == 16
HDKEY_SIZE == 32
UsizeBound == 2 ^ UsizeWidth
IsizeMax == 2 ^ (UsizeWidth - 1) - 1

(***************************************************************************)
(* The CBOR subset (raw_cbor, not under src/; spec 4.3).  A head is the    *)
(* major type in the top three bits and the argument inline below 24, or   *)
(* after an additional-info byte 24/25/26 in 1/2/4 big-endian bytes.  A    *)
(* Path is an indefinite array (0x9f items 0xff) of unsigned integers      *)
(* (major type 0); an address payload is a byte string (major type 2).     *)
(***************************************************************************)
CborHead(major, v) ==
  LET m == major * 32 IN
  IF v < 24 THEN <<m + v>>
  ELSE IF v < 256 THEN <<m + 24>> \o PutU(v, 1)
  ELSE IF v < 65536 THEN <<m + 25>> \o PutU(v, 2)
  ELSE <<m + 26>> \o PutU(v, 4)

CborUint(v) == CborHead(0, v)

\* Path::cbor: serialize_indefinite_array, 0x9f items 0xff.
Cbor(path) ==
  <<159>> \o FoldLeft(LAMBDA acc, v : acc \o CborUint(v), <<>>, path) \o <<255>>

Err == [ok |-> FALSE]

\* The bytes that follow a head byte of additional info `info`, or -1.
ArgWidth(info) ==
  CASE info < 24 -> 0 [] info = 24 -> 1 [] info = 25 -> 2 [] info = 26 -> 4
    [] OTHER -> -1

\* Faulty variant: major type 1 (negative integers) accepted as -1 - n.
ReadUintSigned(bytes, i) ==
  LET b == bytes[i]
      width == ArgWidth(b % 32)
      n == IF width = 0 THEN b % 32 ELSE GetU(bytes, i, width)
  IN IF b \div 32 > 1 \/ width < 0 \/ i + width > Len(bytes) THEN Err
     ELSE [ok |-> TRUE, next |-> i + 1 + width,
           val |-> IF b \div 32 = 1 THEN -1 - n ELSE n]

\* One unsigned integer at position i: [ok, val, next].
ReadUint(bytes, i) ==
  LET b == bytes[i]
      width == ArgWidth(b % 32)
  IN IF b \div 32 # 0 \/ width < 0 \/ i + width > Len(bytes) THEN Err
     ELSE [ok |-> TRUE, next |-> i + 1 + width,
           val |-> IF width = 0 THEN b % 32 ELSE GetU(bytes, i, width)]

\* The items of an indefinite array from position i up to the 0xff break.
RECURSIVE ReadItems(_, _, _)
ReadItems(bytes, i, acc) ==
  IF i > Len(bytes) THEN Err
  ELSE IF bytes[i] = 255 THEN [ok |-> TRUE, val |-> acc]
  ELSE LET u == ReadUint(bytes, i) IN
       IF ~u.ok THEN Err ELSE ReadItems(bytes, u.next, Append(acc, u.val))

\* Path::from_cbor.
FromCbor(bytes) ==
  IF bytes = <<>> \/ bytes[1] # 159 THEN Err ELSE ReadItems(bytes, 2, <<>>)

-----------------------------------------------------------------------------
(***************************************************************************)
(* HD keys.  HDKey::new runs PBKDF2-HMAC-SHA512 keyed by the root public   *)
(* key over the fixed salt; it is ideal here: distinct roots give distinct *)
(* keys.  HDKey::from_slice takes ownership of exactly HDKEY_SIZE bytes.   *)
(***************************************************************************)
HDKeyNew(root) == [from |-> "pbkdf2", of |-> root]

\* Option<HDKey>: <<>> is None, <<k>> is Some(k).
FromSlice(bytes) ==
  IF Len(bytes) = HDKEY_SIZE THEN <<[from |-> "slice", of |-> bytes]>> ELSE <<>>

(***************************************************************************)
(* A payload: its byte length, the key that sealed it and its plaintext    *)
(* (None and <<>> for a received one), and the path it was made from, if   *)
(* any (for the properties).                                               *)
(***************************************************************************)
\* Faulty variant: a tag one byte short.
EncryptShortTag(k, input) ==
  [len |-> Len(input) + TAG_LEN - 1, key |-> k, plain |-> input]

\* HDKey::encrypt: the ciphertext of the input's length, then the tag.
Encrypt(k, input) == [len |-> Len(input) + TAG_LEN, key |-> k, plain |-> input]

\* Option<Path>: <<>> is None, <<p>> is Some(p).
NoPath == <<>>
SomePath(path) == <<path>>

\* The outcome of HDKey::decrypt(k, input) on the build profile: a crash
\* site, or [some |-> FALSE] (None), or [some |-> TRUE, out |-> plaintext].
Decrypt(k, input, profile) ==
  IF profile = "debug" /\ input.len < TAG_LEN THEN [crash |-> "decrypt:89"]
  ELSE
    LET len == (input.len - TAG_LEN) % UsizeBound IN
    CASE len <= 0 -> [some |-> FALSE]
      \* repeat(0).take(len).collect(): capacity overflow past isize::MAX
      [] len > IsizeMax -> [crash |-> "decrypt:94"]
      \* &input[..len]: out of range
      [] len > input.len -> [crash |-> "decrypt:96"]
      [] OTHER -> IF input.key = k /\ len = Len(input.plain)
                    THEN [some |-> TRUE, out |-> input.plain]
                    ELSE [some |-> FALSE]

-----------------------------------------------------------------------------
(***************************************************************************)
(* Address payload serde.  An address wire holds bytes of known value      *)
(* (CBOR heads), Known(v), and ciphertext bytes, byte i of payload p being  *)
(* [ct |-> p, at |-> i]; a ciphertext byte is never read as a CBOR head.   *)
(***************************************************************************)
Known(v) == [b |-> v]
IsKnown(x) == "b" \in DOMAIN x

\* The bytes of an HDAddressPayload (as_ref).
CtBytes(p) == [i \in 1..p.len |-> [ct |-> p, at |-> i]]

\* raw_cbor Serializer::write_bytes: a major type 2 head, then the bytes.
WriteBytes(bs) ==
  LET h == CborHead(2, Len(bs)) IN [i \in DOMAIN h |-> Known(h[i])] \o bs

\* Faulty variant: the payload written as one byte string, not CBOR-in-CBOR.
SerializeAddressFlat(p) == WriteBytes(CtBytes(p))

\* HDAddressPayload::serialize: serialize_cbor_in_cbor of the payload bytes.
SerializeAddress(p) == WriteBytes(WriteBytes(CtBytes(p)))

\* RawCbor::bytes at position i: [ok, val (the content), next].
ReadBytes(w, i) ==
  IF i > Len(w) \/ ~IsKnown(w[i]) THEN Err
  ELSE
    LET b == w[i].b
        width == ArgWidth(b % 32)
        arg == [j \in 1..width |-> w[i + j]]
        n == IF width = 0 THEN b % 32
             ELSE FromBE([j \in 1..width |-> arg[j].b])
        fits == /\ b \div 32 = 2
                /\ width >= 0
                /\ i + width <= Len(w)
                /\ \A j \in 1..width : IsKnown(arg[j])
                /\ i + width + n <= Len(w)
    IN IF ~fits THEN Err
         ELSE [ok |-> TRUE, val |-> SubSeq(w, i + width + 1, i + width + n),
               next |-> i + width + n + 1]

\* HDAddressPayload::from_bytes: the payload those bytes are, or bytes that
\* no key sealed.
FromBytes(bs) ==
  IF bs # <<>> /\ ~IsKnown(bs[1]) /\ bs = CtBytes(bs[1].ct) THEN bs[1].ct
  ELSE [len |-> Len(bs), key |-> None, plain |-> <<>>]

\* HDAddressPayload::deserialize: the outer byte string, then the inner byte
\* string read from its content; content after the inner one is ignored.
DeserializeAddress(w) ==
  LET outer == ReadBytes(w, 1)
      inner == ReadBytes(outer.val, 1)
  IN IF ~outer.ok THEN Err
     ELSE IF ~inner.ok THEN Err
     ELSE [ok |-> TRUE, val |-> FromBytes(inner.val)]

-----------------------------------------------------------------------------
VARIABLES
  profile,    \* the build profile
  keys,       \* the HD keys the wallet holds
  addresses,  \* serialized address payloads seen: [wire, sealer, origin]
  results,    \* decrypt_path results: [key, payload, sealer, origin, result]
  crash,      \* where the thread panicked, or None
  ops         \* operations done

vars == <<profile, keys, addresses, results, crash, ops>>

Init ==
  /\ profile \in Profiles
  /\ keys = {HDKeyNew(r) : r \in Roots}
  /\ addresses = {}
  /\ results = {}
  /\ crash = None
  /\ ops = 0

Step ==
  /\ crash = None
  /\ ops < MaxOps
  /\ ops' = ops + 1

\* A key is imported from bytes with HDKey::from_slice; a slice of another
\* length gives None and no key.
ImportKey ==
  /\ Step
  /\ \E bytes \in Slices : keys' = keys \cup Range(FromSlice(bytes))
  /\ UNCHANGED <<profile, addresses, results, crash>>

\* HDKey::encrypt_path: encrypt(cbor(path)), put in an address.
EncryptPath ==
  /\ Step
  /\ \E k \in keys, path \in Paths :
       addresses' = addresses \cup
         {[wire |-> SerializeAddress(Encrypt(k, Cbor(path))), sealer |-> k,
           origin |-> SomePath(path)]}
  /\ UNCHANGED <<profile, keys, results, crash>>

\* HDKey::encrypt on bytes that are not a path encoding.
EncryptRaw ==
  /\ Step
  /\ \E k \in keys, bytes \in RawPlains :
       addresses' = addresses \cup
         {[wire |-> SerializeAddress(Encrypt(k, bytes)), sealer |-> k, origin |-> NoPath]}
  /\ UNCHANGED <<profile, keys, results, crash>>

\* An address no key of the wallet made arrives.
ReceiveRaw ==
  /\ Step
  /\ \E w \in RawAddresses :
       addresses' = addresses \cup {[wire |-> w, sealer |-> None, origin |-> NoPath]}
  /\ UNCHANGED <<profile, keys, results, crash>>

\* HDAddressPayload::deserialize, then HDKey::decrypt_path: decrypt, then
\* Path::from_cbor(..).ok().  A wire that does not deserialize is an error:
\* no payload reaches decrypt_path and the address yields no path.
DecryptPath ==
  /\ Step
  /\ \E k \in keys, a \in addresses :
       LET pl == DeserializeAddress(a.wire)
           d == Decrypt(k, pl.val, profile)
       IN \/ /\ ~pl.ok
             /\ results' = results \cup
                  {[key |-> k, payload |-> None, sealer |-> a.sealer,
                    origin |-> a.origin, result |-> NoPath]}
             /\ UNCHANGED crash
          \/ /\ pl.ok
             /\ "crash" \in DOMAIN d
             /\ crash' = d.crash
             /\ UNCHANGED results
          \/ /\ pl.ok
             /\ "crash" \notin DOMAIN d
             /\ LET c == FromCbor(d.out)
                    r == IF d.some /\ c.ok THEN SomePath(c.val) ELSE NoPath
                IN results' = results \cup
                     {[key |-> k, payload |-> pl.val, sealer |-> a.sealer,
                       origin |-> a.origin, result |-> r]}
             /\ UNCHANGED crash
  /\ UNCHANGED <<profile, keys, addresses>>

Done ==
  /\ crash # None \/ ops = MaxOps
  /\ UNCHANGED vars

Next == ImportKey \/ EncryptPath \/ EncryptRaw \/ ReceiveRaw \/ DecryptPath \/ Done

Spec == Init /\ [][Next]_vars

-----------------------------------------------------------------------------
(* Properties *)

\* A u32 (written so that TLC never forms 2^32).
IsU32(x) == x \in Nat /\ x \div 65536 < 65536
CrashSites == {"decrypt:89", "decrypt:94", "decrypt:96"}
Keys == {HDKeyNew(r) : r \in Roots} \cup UNION {Range(FromSlice(b)) : b \in Slices}
PayloadType == [len : Nat, key : Keys \cup {None}, plain : Seq(Byte)]
Origins == {NoPath} \cup {SomePath(q) : q \in Paths}

TypeOK ==
  /\ profile \in Profiles
  /\ keys \subseteq Keys
  /\ \A a \in addresses : a.sealer \in Keys \cup {None} /\ a.origin \in Origins
  /\ \A r \in results :
       /\ r.key \in Keys
       /\ r.payload \in PayloadType \cup {None}
       /\ r.result = NoPath \/ \A i \in DOMAIN r.result[1] : IsU32(r.result[1][i])
  /\ crash \in CrashSites \cup {None}
  /\ ops \in 0..MaxOps

(***************************************************************************)
(* HD round trip and key separation through the address (spec 8,          *)
(* properties 5 and 6), and authenticity: an address made by encrypt_path  *)
(* and HDAddressPayload::serialize, deserialized and given to decrypt_path, *)
(* gives back its path under the key that sealed it and None under any    *)
(* other key; and no decrypt_path of any address yields a path under a key *)
(* that did not seal the payload.  This rests on deserialize undoing the   *)
(* CBOR-in-CBOR wrapping, on decrypt splitting the input exactly where     *)
(* encrypt appended the tag, and on Path::from_cbor inverting Path::cbor.  *)
(***************************************************************************)
DecryptPathCorrect ==
  \A r \in results :
    /\ r.origin # NoPath =>
         r.result = IF r.key = r.sealer THEN r.origin ELSE NoPath
    /\ r.result # NoPath => r.key = r.payload.key

(***************************************************************************)
(* Decryption is never fatal (spec 7.3: input shorter than TAG_LEN + 1 is  *)
(* None).  decrypt computes input.len() - TAG_LEN in usize before its      *)
(* guard, so a payload shorter than the tag panics on the underflow in a   *)
(* debug build and asks for a near-2^64-byte buffer in a release build;    *)
(* this is expected to be violated.                                        *)
(***************************************************************************)
NoFatalDecrypt == crash = None

(***************************************************************************)
(* Frame stability of the address payload (spec 8, property 2): every     *)
(* address wire that HDAddressPayload::deserialize accepts serializes back *)
(* to the same bytes.  deserialize reads the inner byte string from the    *)
(* outer one's content and drops whatever follows it there, so a sealed    *)
(* address with a byte appended inside the outer string is accepted, still *)
(* decrypts to its path, and re-encodes differently; this is expected to   *)
(* be violated.                                                            *)
(***************************************************************************)
AddressFrameStable ==
  \A a \in addresses :
    LET d == DeserializeAddress(a.wire)
    IN d.ok => SerializeAddress(d.val) = a.wire

=============================================================================
