----------------------------- MODULE InitialEnts -----------------------------
(***************************************************************************)
(* Initial ents of chain-impl-mockchain (src/message/initial.rs) and the   *)
(* Initial message that carries them.                                      *)
(*                                                                         *)
(* InitialEnts is a list of ConfigParam.  It is serialized as the params   *)
(* one after the other, with no count and no terminator, and read back by  *)
(* reading params until the buffer ends, the first failing param failing  *)
(* the whole read.  ConfigParam is not under src/; following the spec (a   *)
(* setting "opaque except via its own codec") it is a self-delimiting      *)
(* record here: a tag byte from ParamTags and a one-byte value.            *)
(***************************************************************************)
EXTENDS Integers, Sequences, SequencesExt

CONSTANT ParamTags   \* the tags ConfigParam::read recognises

\* The tag of the Initial variant of Message.
InitialTag == 0

Ok(v) == [ok |-> TRUE, val |-> v]
Error(e) == [ok |-> FALSE, err |-> e]

\* ConfigParam::serialize.
EncodeParam(c) == <<c.tag, c.val>>

\* ConfigParam::read at cursor cur: [ok, val, next] or an error.
ReadParam(bytes, cur) ==
  CASE cur + 2 > Len(bytes) -> Error("NotEnough")
    [] bytes[cur + 1] \notin ParamTags -> Error("UnknownTag")
    [] OTHER -> [ok |-> TRUE, val |-> [tag |-> bytes[cur + 1], val |-> bytes[cur + 2]],
                 next |-> cur + 2]

\* InitialEnts::serialize: every config, in order.
Serialize(ents) == FlattenSeq([i \in DOMAIN ents |-> EncodeParam(ents[i])])

(***************************************************************************)
(* InitialEnts::read from cursor cur: while !buf.is_end(), push            *)
(* ConfigParam::read(buf)?.                                                *)
(***************************************************************************)
RECURSIVE ReadFrom(_, _, _)

\* Faulty variant: a param that fails to read ends the loop, and the params
\* read so far are returned.
ReadFromLenient(bytes, cur, configs) ==
  IF cur = Len(bytes) THEN Ok(configs)
  ELSE LET r == ReadParam(bytes, cur) IN
       IF ~r.ok THEN Ok(configs) ELSE ReadFrom(bytes, r.next, Append(configs, r.val))

ReadFrom(bytes, cur, configs) ==
  IF cur = Len(bytes) THEN Ok(configs)
  ELSE LET r == ReadParam(bytes, cur) IN
       IF ~r.ok THEN r ELSE ReadFrom(bytes, r.next, Append(configs, r.val))

Read(bytes) == ReadFrom(bytes, 0, <<>>)

\* The payload of an Initial message: its tag, then the ents.
InitialMessage(ents) == <<InitialTag>> \o Serialize(ents)

\* Message::from_raw on an Initial message's bytes: the tag, then
\* InitialEnts::read over the rest of the MessageRaw.
FromRaw(bytes) ==
  IF bytes = <<>> \/ bytes[1] # InitialTag THEN Error("UnknownTag")
  ELSE Read(Tail(bytes))

=============================================================================
