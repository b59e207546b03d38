----------------------------- MODULE BlockStream -----------------------------
(***************************************************************************)
(* What a block reader promises its caller (spec 4.7 and 8.1), without any *)
(* framing: reading a stream that holds a list of serialized blocks hands  *)
(* back those blocks, one call at a time and in order, never fails, and    *)
(* eventually hands back all of them.  On a stream that is not such a list *)
(* the reader may hand back blocks or fail, but a block once returned is   *)
(* never taken back or changed.                                            *)
(***************************************************************************)
EXTENDS Naturals, Sequences

CONSTANT Malformed   \* the source of a stream that is not a block list

VARIABLES
  source,     \* the blocks the stream was written from, or Malformed
  delivered,  \* the blocks returned so far
  failed      \* a read returned an error or the thread panicked

vars == <<source, delivered, failed>>

\* A read returns the next block of a well-formed stream.
Deliver ==
  /\ ~failed
  /\ source # Malformed
  /\ Len(delivered) < Len(source)
  /\ delivered' = Append(delivered, source[Len(delivered) + 1])
  /\ UNCHANGED <<source, failed>>

\* A read of a malformed stream returns some block.
DeliverAny ==
  /\ ~failed
  /\ source = Malformed
  /\ Len(delivered') = Len(delivered) + 1
  /\ SubSeq(delivered', 1, Len(delivered)) = delivered
  /\ UNCHANGED <<source, failed>>

\* A read of a malformed stream fails; no read follows.
Fail ==
  /\ ~failed
  /\ source = Malformed
  /\ failed' = TRUE
  /\ UNCHANGED <<source, delivered>>

Next == Deliver \/ DeliverAny \/ Fail

Spec ==
  /\ delivered = <<>> /\ ~failed
  /\ [][Next]_vars
  /\ WF_vars(Deliver)

=============================================================================
