---------------------------- MODULE MCBlockCodec ----------------------------
(***************************************************************************)
(* Model-checking instance of BlockCodec: Initial messages of 0, 1 and 2   *)
(* configs and two that Message::from_raw rejects, a 4-bit content size    *)
(* so that the counter's wrap-around is reachable, and streams of up to    *)
(* two blocks of up to two messages.                                       *)
(***************************************************************************)
EXTENDS BlockCodec

\* Initial messages: no config, one config, two configs, a truncated
\* config and a config of unknown tag.
MCMessages ==
  { Ents!InitialMessage(<<>>),
    Ents!InitialMessage(<<[tag |-> 1, val |-> 5]>>),
    Ents!InitialMessage(<<[tag |-> 1, val |-> 5], [tag |-> 1, val |-> 0]>>),
    <<Ents!InitialTag, 1>>,
    <<Ents!InitialTag, 9, 5>> }

Accepted == {m \in MCMessages : Ents!FromRaw(m).ok}

ValidFrames == {MsgFrame(m) : m \in Accepted}
AnyFrames   == {MsgFrame(m) : m \in MCMessages}

\* Block contents the builder can produce, and any contents at all.
ValidContents == SeqOf(ValidFrames, 2)
AnyContents   == SeqOf(AnyFrames, 2)

ValidBlocks == {MakeBlock(c) : c \in ValidContents}

\* Streams of serialized blocks.
WellFormedStreams ==
  {[src |-> bs, frames |-> SerializeAll(bs)] : bs \in SeqOf(ValidBlocks, 2)}

\* A first block whose header lies about its contents (any declared size,
\* or the hash of other contents), or whose header does not parse, followed
\* by nothing, by a well-formed block, or by a truncated frame.
BadFirstBlocks ==
  { <<HdrFrame([size |-> s, hash |-> ContentHash(h)], ok)>> \o c :
      s \in 0..(SizeBound - 1), h \in ValidContents, ok \in BOOLEAN,
      c \in AnyContents }
Trailers == {<<>>, <<CutFrame>>} \cup {Serialize(MakeBlock(<<f>>)) : f \in ValidFrames}

MalformedStreams ==
  {[src |-> Malformed, frames |-> b \o t] : b \in BadFirstBlocks, t \in Trailers}

MCStreams == WellFormedStreams \cup MalformedStreams

=============================================================================
