------------------------------ MODULE BodyWriter ------------------------------
(***************************************************************************)
(* The body writer of the core crate (session/writer.rs) as operators on a *)
(* record: the fields of WriteState, and what the peer at the other end of *)
(* the stream has made of the bytes written so far: the body it has got,   *)
(* whether it has seen its end, whether anything came that is no part of   *)
(* it.                                                                     *)
(***************************************************************************)
EXTENDS Naturals, Sequences

(* with_content_length_write, with_chunked_encoding_write,
   with_until_closed_write.  The peer takes what comes for what it was told in
   the head: a body of the framing meant. *)
NewWriter(mode, meant) ==
  [is |-> mode.is, total |-> mode.n, written |-> 0, meant |-> meant,
   got |-> <<>>, ended |-> meant.is = "length" /\ meant.n = 0, stray |-> FALSE]

(* finished *)
WriterFinished(w) == w.is = "completed" \/ (w.is = "length" /\ w.written >= w.total)

(* The peer's chunked decoder: an empty chunk is the last one. *)
ChunkArrives(w, slice) ==
  IF w.ended \/ w.meant.is # "chunked" THEN [w EXCEPT !.stray = TRUE]
  ELSE [w EXCEPT !.got = w.got \o slice, !.ended = slice = <<>>]

BytesArrive(w, slice) ==
  IF slice = <<>> THEN w
  ELSE IF w.ended \/ w.meant.is = "chunked" THEN [w EXCEPT !.stray = TRUE]
  ELSE [w EXCEPT !.got = w.got \o slice,
                 !.ended = w.meant.is = "length" /\ Len(w.got \o slice) = w.meant.n]

Written(w, n) == [w EXCEPT !.written = w.written + n]

(* write_by_content_length: no more than the length. *)
WriteByContentLength(w, slice) ==
  LET to_write == IF w.total - w.written < Len(slice) THEN w.total - w.written
                  ELSE Len(slice)
  IN  Written(BytesArrive(w, SubSeq(slice, 1, to_write)), to_write)

(* write_body, with write_by_chunked_encoding and write_until_closed *)
WriteBody(w, slice) ==
  IF WriterFinished(w) THEN w
  ELSE IF w.is = "length" THEN WriteByContentLength(w, slice)
  ELSE IF w.is = "chunked" THEN Written(ChunkArrives(w, slice), Len(slice))
  ELSE Written(BytesArrive(w, slice), Len(slice))

(* Mutant: no last chunk. *)
FinishSilently(w) == [w EXCEPT !.is = "completed"]

(* finish: the last chunk, if the body is chunked. *)
Finish(w) ==
  IF w.is = "chunked" THEN [ChunkArrives(w, <<>>) EXCEPT !.is = "completed"]
  ELSE [w EXCEPT !.is = "completed"]

(* finish_content_length: "premature body" *)
Premature(w) == w.is = "length" /\ w.written < w.total
=============================================================================
