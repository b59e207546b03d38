----------------------------- MODULE BlockCodec -----------------------------
(***************************************************************************)
(* Block framing of chain-impl-mockchain (src/block/mod.rs).               *)
(*                                                                         *)
(* A block goes on the wire as a HeaderRaw frame (u16 length + header      *)
(* bytes) followed by one MessageRaw frame (u16 length + bytes) per        *)
(* message; no message count is written.  Block::deserialize reads the     *)
(* header and then loops, reading MessageRaw frames and subtracting their  *)
(* size from the header's u32 block_content_size until it reaches zero.    *)
(*                                                                         *)
(* The reader is a BufRead stream: the caller decodes block after block    *)
(* from the same stream, so the model decodes a stream of frames, one loop *)
(* iteration per step.  Bytes are abstracted to frames: a frame is only    *)
(* ever consumed whole by this code, and its size is its length plus the   *)
(* 2-byte prefix.  A hash is modelled as an injective tag of the hashed    *)
(* data (collisions are out of scope).                                     *)
(***************************************************************************)
EXTENDS Integers, Sequences, SequencesExt

CONSTANTS
  Messages,          \* MessageRaw payloads (byte strings)
  ParamTags,         \* the ConfigParam tags an Initial message may carry
  HeaderRawLen,      \* byte length of a serialized Header
  ContentSizeWidth,  \* bit width of Header.common.block_content_size (u32)
  Profiles,          \* Rust build profiles: "debug" panics on u32
                     \* underflow, "release" wraps around
  Streams            \* the inputs: [src |-> blocks it serializes, or
                     \* Malformed, frames |-> the frames on the wire]

CONSTANT Malformed   \* model value: the stream is not a serialized block list

ASSUME HeaderRawLen \in Nat /\ ContentSizeWidth \in Nat \ {0}
ASSUME Profiles \subseteq {"debug", "release"}

SizeBound == 2 ^ ContentSizeWidth

\* The messages in a block are Initial messages (src/message/initial.rs).
Ents == INSTANCE InitialEnts

(***************************************************************************)
(* Frames.  A message frame carries its MessageRaw; a header frame its     *)
(* Header and whether read_from_raw::<Header> accepts it; a cut frame is   *)
(* a frame truncated by the end of the stream.                             *)
(***************************************************************************)
MsgFrame(m) == [kind |-> "msg", msg |-> m]
HdrFrame(h, ok) == [kind |-> "hdr", hdr |-> h, parses |-> ok]
CutFrame == [kind |-> "cut"]

\* Bytes MessageRaw::serialize writes for a frame: the u16 length, then the
\* payload.  A header frame read as a MessageRaw has the header's length.
PayloadLen(f) == IF f.kind = "msg" THEN Len(f.msg) ELSE HeaderRawLen
WireLen(f) == 2 + PayloadLen(f)

\* MessageRaw::size_bytes_plus_size, the size the decode loop subtracts.
SizeBytesPlusSize(f) == PayloadLen(f) + 2

\* Faulty variant: a saturating subtraction in place of the u32 one.
SaturatingSub(r, size) == IF size > r THEN 0 ELSE r - size

\* Faulty variant: the subtraction leaves out the u16 prefix of the frame.
SubWithoutPrefix(r, size) == (r - (size - 2)) % SizeBound

\* Faulty variant: a plain subtraction that leaves the u32 range.
PlainSub(r, size) == r - size

\* serialized_content_size -= message_size as u32, wrapping (release).
SubU32(r, size) == (r - size) % SizeBound

\* The outcomes of Message::from_raw on a frame's bytes.  A header's bytes
\* read as a message may or may not parse: both outcomes are possible.
FromRawOutcomes(f) ==
  IF f.kind = "msg" THEN {Ents!FromRaw(f.msg).ok} ELSE BOOLEAN

\* read_from_raw::<Header>: only a well-formed header frame parses; the
\* bytes of a message frame are taken never to form a valid header.
HeaderParses(f) == f.kind = "hdr" /\ f.parses

(***************************************************************************)
(* BlockContents::compute_hash_size: the hash and the byte length of the   *)
(* concatenated MessageRaw serializations.  A decoded message is kept as   *)
(* the raw frame it came from (Message::to_raw is its inverse).            *)
(***************************************************************************)
ContentSize(contents) ==
  FoldLeft(LAMBDA acc, f : acc + WireLen(f), 0, contents)
ContentHash(contents) == [blake2b256 |-> contents]

\* Block::is_consistent: the header's hash and size match the contents.
IsConsistent(b) ==
  /\ ContentHash(b.contents) = b.header.hash
  /\ ContentSize(b.contents) = b.header.size

\* A block whose header was filled from its contents, as the Arbitrary
\* instance does; the usize size is cast to the u32 header field.
MakeBlock(contents) ==
  [header   |-> [size |-> ContentSize(contents) % SizeBound,
                 hash |-> ContentHash(contents)],
   contents |-> contents]

\* Block::serialize: the HeaderRaw frame, then every message's MessageRaw.
Serialize(b) == <<HdrFrame(b.header, TRUE)>> \o b.contents

\* The frames of a list of blocks written one after the other.
SerializeAll(bs) == FlattenSeq([i \in DOMAIN bs |-> Serialize(bs[i])])

-----------------------------------------------------------------------------
VARIABLES
  input,      \* the stream being read: [src, frames]
  pos,        \* number of frames consumed from input.frames
  profile,    \* the build profile the decoder was compiled with
  status,     \* "header": about to read a block; "body": in the message
              \* loop; "failed": an io::Error was returned; "panicked"
  header,     \* the header of the block being read
  remaining,  \* serialized_content_size, the loop counter (u32)
  contents,   \* the messages read so far for the current block
  blocks      \* the blocks returned by Block::deserialize so far

vars == <<input, pos, profile, status, header, remaining, contents, blocks>>

NoHeader == [size |-> 0, hash |-> ContentHash(<<>>)]

Frames == input.frames
AtEof == pos = Len(Frames)
NextFrame == Frames[pos + 1]
NextIsCut == ~AtEof /\ NextFrame.kind = "cut"

Init ==
  /\ input \in Streams
  /\ pos = 0
  /\ profile \in Profiles
  /\ status = "header"
  /\ header = NoHeader
  /\ remaining = 0
  /\ contents = <<>>
  /\ blocks = <<>>

Fail ==
  /\ status' = "failed"
  /\ UNCHANGED <<input, profile, header, remaining, contents, blocks>>

(***************************************************************************)
(* Block::deserialize, first part: HeaderRaw::deserialize, then            *)
(* read_from_raw::<Header>; the loop counter starts at the header's        *)
(* block_content_size and the contents start empty.  The caller reads the  *)
(* next block only while the stream has bytes left.                        *)
(***************************************************************************)
ReadHeader ==
  /\ status = "header"
  /\ ~AtEof
  /\ \/ /\ NextIsCut
        /\ pos' = pos
        /\ Fail
     \/ /\ ~NextIsCut
        /\ ~HeaderParses(NextFrame)
        /\ pos' = pos + 1
        /\ Fail
     \/ /\ HeaderParses(NextFrame)
        /\ pos' = pos + 1
        /\ header' = NextFrame.hdr
        /\ remaining' = NextFrame.hdr.size
        /\ contents' = <<>>
        /\ status' = "body"
        /\ UNCHANGED <<input, profile, blocks>>

(***************************************************************************)
(* One iteration of the message loop: MessageRaw::deserialize (fails at    *)
(* the end of the stream or on a truncated frame), size_bytes_plus_size,   *)
(* Message::from_raw (may fail), push, then the u32 subtraction.  There is *)
(* no check that the message fits in the remaining size: a debug build     *)
(* panics on the underflow, a release build wraps around.                  *)
(***************************************************************************)
ReadMessage ==
  /\ status = "body"
  /\ remaining > 0
  /\ \/ /\ AtEof \/ NextIsCut
        /\ pos' = pos
        /\ Fail
     \/ /\ ~AtEof
        /\ ~NextIsCut
        /\ \E parsed \in FromRawOutcomes(NextFrame) :
             LET size == SizeBytesPlusSize(NextFrame) IN
             /\ pos' = pos + 1
             /\ \/ /\ ~parsed
                   /\ Fail
                \/ /\ parsed
                   /\ contents' = Append(contents, NextFrame)
                   /\ IF size > remaining /\ profile = "debug"
                        THEN /\ status' = "panicked"
                             /\ remaining' = remaining
                        ELSE /\ status' = status
                             /\ remaining' = SubU32(remaining, size)
                   /\ UNCHANGED <<input, profile, header, blocks>>

\* The loop ends when the counter reaches zero; the block is returned.
FinishBlock ==
  /\ status = "body"
  /\ remaining = 0
  /\ blocks' = Append(blocks, [header |-> header, contents |-> contents])
  /\ status' = "header"
  /\ UNCHANGED <<input, pos, profile, header, remaining, contents>>

\* Decoding has stopped: an error, a panic, or the whole stream was read.
Done ==
  /\ \/ status \in {"failed", "panicked"}
     \/ status = "header" /\ AtEof
  /\ UNCHANGED vars

Next == ReadHeader \/ ReadMessage \/ FinishBlock \/ Done

(***************************************************************************)
(* The decoder is one thread running a loop that nothing blocks: while a   *)
(* read step is possible it is taken (Done is a stuttering step).          *)
(***************************************************************************)
Fairness == WF_vars(Next)

Spec == Init /\ [][Next]_vars /\ Fairness

-----------------------------------------------------------------------------
(* Properties *)

Ended == status \in {"failed", "panicked"} \/ (status = "header" /\ AtEof)

TypeOK ==
  /\ pos \in 0..Len(Frames)
  /\ profile \in Profiles
  /\ status \in {"header", "body", "failed", "panicked"}
  /\ remaining \in 0..(SizeBound - 1)
  /\ header.size \in 0..(SizeBound - 1)
  /\ contents \in Seq(Range(Frames) \ {CutFrame})
  /\ Len(blocks) <= Len(Frames)

(***************************************************************************)
(* Block::deserialize, called again and again on one reader, implements    *)
(* the BlockStream promise: on a stream of serialized blocks every call    *)
(* returns the block that was written, header and every message, in order  *)
(* (so each call stops exactly at the end of its block), none fails or     *)
(* panics, and all of them are eventually returned; on any stream a block  *)
(* once returned stays as it was.  The quickcheck bijection test only      *)
(* compares header hashes of a single block.                               *)
(***************************************************************************)
Abstract == INSTANCE BlockStream
              WITH source <- input.src,
                   delivered <- blocks,
                   failed <- status \in {"failed", "panicked"}

ImplementsBlockStream == Abstract!Spec

(***************************************************************************)
(* Initial ents are read exactly (spec 8.2 for InitialEnts): every       *)
(* message frame the decoder has accepted into a block re-encodes, as the  *)
(* Initial tag and InitialEnts::serialize of the configs InitialEnts::read *)
(* took from it, to the very bytes of its MessageRaw.  The read loop runs  *)
(* to the end of the frame and fails as a whole on its first bad param, so *)
(* no truncated or unknown param is accepted and none is dropped.          *)
(***************************************************************************)
AcceptedMessages ==
  {f.msg : f \in {g \in Range(contents) \cup UNION {Range(b.contents) : b \in Range(blocks)} :
                  g.kind = "msg"}}

InitialEntsFrameStable ==
  \A m \in AcceptedMessages :
    /\ Ents!FromRaw(m).ok
    /\ Ents!InitialMessage(Ents!FromRaw(m).val) = m

(***************************************************************************)
(* Size accounting of the decode loop: every block Block::deserialize      *)
(* returns, from any stream, holds messages whose MessageRaw sizes add up  *)
(* to the header's block_content_size (modulo 2^32, the counter's width),  *)
(* and in the loop the bytes read plus the counter make up that size.  So  *)
(* the missing overrun check never lets a block be returned with contents  *)
(* whose size disagrees with its header.                                   *)
(***************************************************************************)
DecodedSizeMatchesHeader ==
  /\ \A i \in DOMAIN blocks :
       ContentSize(blocks[i].contents) % SizeBound = blocks[i].header.size
  /\ status = "body" =>
       (ContentSize(contents) + remaining) % SizeBound = header.size

(***************************************************************************)
(* Overrun is rejected (spec 4.7 and scenario S5, and spec 7: decoding     *)
(* never panics): the message loop never holds more content bytes than the *)
(* header declares, and never aborts the thread.  Block::deserialize reads *)
(* a whole MessageRaw and subtracts its size without comparing it with the *)
(* remaining size (the "return error here" comment): a release build wraps *)
(* the u32 counter and reads on, a debug build panics.  This is expected   *)
(* to be violated in both.                                                 *)
(***************************************************************************)
OverrunRejected ==
  /\ status = "body" => ContentSize(contents) <= header.size
  /\ status # "panicked"

=============================================================================
