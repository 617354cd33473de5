------------------------- MODULE BodyRelayProperties -------------------------
(***************************************************************************)
(* What the reader, the relay and the writer owe to a message's body.      *)
(***************************************************************************)
EXTENDS BodyRelay

(* The body as the peer that sent it meant it: the positions of its bytes. *)
BodyOf == [m \in Messages |-> { i \in 1..Len(WireOf[m]) : WireOf[m][i].kind = "data" }]
Body   == BodyOf[message]

(* s is the body up to a position: each of its bytes, once and in order. *)
IsBodyUpTo(s, p) ==
  /\ \A i, j \in DOMAIN s : i < j => s[i] < s[j]
  /\ Range(s) = { i \in Body : i <= p }

(* Some of the body that was sent, or all of it (a body that lasts until the
   close is whatever came). *)
PartOfBody(s)  == \E p \in 0..cut : IsBodyUpTo(s, p)
WholeBody(s)   == IsBodyUpTo(s, IF framing = "closed" THEN cut ELSE Len(wire))

(* All of it came: for a chunked one, up to the line feed of the last head. *)
Whole ==
  CASE framing = "length"  -> \A i \in Body : i <= cut
    [] framing = "closed"  -> closes
    [] framing = "chunked" ->
         \E i \in 1..cut : wire[i].kind = "size" /\ wire[i].n = 0
                           /\ \E j \in i..cut : wire[j].kind = "lf"

(* A head of which more than the limit came without its end. *)
LongHeads == framing = "chunked" /\ message.ext + 2 > HeadLimit

(* The exceptions of Framing, for this message: it is not read as it is meant,
   or written so that it is not understood. *)
Misread ==
  IF direction = "request" THEN ReadOn(head.request) \/ Listed(head.request)
  ELSE ListedResponse(head.request, head.response)
Unframed ==
  IF direction = "request" THEN WrittenRaw(head.request)
  ELSE HalfSwitched(head.request, head.response)

TypeOK ==
  /\ head \in Heads
  /\ taken \in 0..cut /\ cut \in 0..Len(wire)
  /\ read_state.is \in {"chunked", "partial", "http10", "completed", "done"}
  /\ {read_state.read, read_state.start, read_state.end, read_state.expect} \subseteq Nat
  /\ read_state.end <= Len(body_buffer)
  /\ \A i \in DOMAIN body_buffer : body_buffer[i] \in 0..taken
  /\ rewind_buf_size \in 0..Len(body_buffer)
  /\ returned.is \in {"nothing", "some", "none", "error"}
  /\ Len(tasks) <= ChannelSize
  /\ outcome \in {"running", "done", "error", "panic"}

-----------------------------------------------------------------------------
(* However the reads of the stream cut the message, and wherever heads, CR LF
   and payloads are split, the reader returns the body's bytes, each once and
   in order, and counts them; it completes only with the last one; and it gives
   up only on a message that was cut short, or has a head over the limit.  The
   exceptions are a partial head that a cancelled call moved onto itself, and a
   message that is Misread. *)
ReadsFaithfully ==
  ~overlapped /\ ~Misread =>
    /\ PartOfBody(delivered)
    /\ read_state.read = Len(delivered)
    /\ read_state.is = "completed" => Whole /\ WholeBody(delivered)
    /\ read_state.is = "done" => (closes /\ taken = cut /\ ~Whole) \/ LongHeads

(* What the other side gets is the body, and it takes it for finished only if
   it has all of it: the two sessions choose their framings from the head apart,
   and must agree.  The exceptions are those above, and a chunked request one of
   whose reads ended within a head or a CR LF (see TerminatorIsTheLast). *)
HollowRequest == direction = "request" /\ hollow

RelaysFaithfully ==
  ~overlapped /\ ~Misread /\ ~Unframed /\ ~HollowRequest =>
    /\ PartOfBody(writer.got)
    /\ writer.ended => WholeBody(writer.got)
    /\ ~writer.stray

(* A length that was announced is the length that is written: the writer never
   finds its body premature, a body cut short never reaches its finish. *)
DoneIsWhole ==
  ~overlapped /\ ~Misread =>
    /\ outcome = "done" => WholeBody(writer.got) \/ HollowRequest \/ Unframed
    /\ outcome = "error" => ~Whole \/ LongHeads \/ (Unframed /\ direction = "response")

(* A message that came whole arrives whole, with its end. *)
WholeIsRelayed ==
  Whole /\ ~LongHeads ~>
    \/ outcome = "done" /\ (writer.ended \/ framing = "closed")
    \/ overlapped \/ Misread \/ Unframed
    \/ HollowRequest
    \/ direction = "request" /\ Meant(message) = ContentLength(0)

(* A connection that closes ends the reading, unless it closes within a chunk
   head: then every call returns an empty slice, for ever. *)
HeadCut == read_state.is = "chunked" /\ read_state.end # 0 /\ taken = cut

CloseIsNoticed ==
  closes ~> (Finished \/ HeadCut \/ outcome # "running")
-----------------------------------------------------------------------------
(* reader.rs:68: an empty slice is there to "inform reader to read more to form
   a legal chunk": it is not the end of the body, so the peer sees the
   terminating chunk only once the reader has seen it. *)
TerminatorIsTheLast ==
  framing = "chunked" /\ writer.ended => read_state.is = "completed"

(* reader.rs:68, as well: a partial head is read on until it is legal, so a
   legal message is not given up. *)
LegalIsReadOn ==
  read_state.is = "done" => ~Whole \/ LongHeads
=============================================================================
