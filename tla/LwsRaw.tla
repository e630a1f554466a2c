------------------------------- MODULE LwsRaw -------------------------------
(***************************************************************************)
(* The part of libwebsockets the native client and server stand on: what   *)
(* lws_write does with the bytes of a raw socket when the OS takes only    *)
(* some of them.  A segment is a sequence of bytes; buflist_out is the     *)
(* sequence of the segments libwebsockets has kept to itself.              *)
(***************************************************************************)
EXTENDS Naturals, Sequences

CONSTANT TxLimit   \* bytes handed to the OS in one call: rx_buffer_size + LWS_PRE + 4

ASSUME TxLimitAssumption == TxLimit \in Nat \ {0}

\* How many bytes of a segment the OS may take in one call; 0 is EAGAIN.
Takes(seg) == 0 .. (IF Len(seg) < TxLimit THEN Len(seg) ELSE TxLimit)

\* lws_buflist_use_segment: k bytes of the first segment are gone.
UseSegment(list, k) ==
  IF k = Len(Head(list))
    THEN Tail(list)
    ELSE <<SubSeq(Head(list), k + 1, Len(Head(list)))>> \o Tail(list)

\* lws_issue_raw of a segment buf (none: <<>>), over the kept segments out,
\* when the OS takes k bytes.  With anything kept, buf is kept behind it and
\* the FIRST kept segment is sent: the answer counts bytes of that one.
\* Without, the unsent rest of buf is kept and the answer is all of buf.
IssueRaw(out, buf, k) ==
  LET list  == IF buf = <<>> THEN out ELSE Append(out, buf)
      left  == UseSegment(list, k)
  IN [sent  |-> SubSeq(Head(list), 1, k),
      out   |-> left,
      again |-> out # <<>> \/ left # <<>>,
      ret   |-> IF out = <<>> THEN Len(buf) ELSE k]

\* The segment whose bytes IssueRaw hands to the OS.
FirstOf(out, buf) == IF out = <<>> THEN buf ELSE Head(out)
=============================================================================
