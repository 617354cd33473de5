------------------------------- MODULE Framing -------------------------------
(***************************************************************************)
(* How the sessions choose the framing of a body from the head of its      *)
(* message: downstream.rs and upstream.rs each for what they read, and for *)
(* what they write of the same head.  A head is kept as what the choice    *)
(* depends on: its version, a Transfer-Encoding that is "chunked", a list  *)
(* that ends with it ("list"), or "none", a Content-Length that is a       *)
(* number, or None; of a request whether it asks for an upgrade and is a   *)
(* HEAD; of a response whether its status is 101 ("switch"), one without   *)
(* body (204, 304: "empty"), or another final one.  A list of codings that *)
(* does not end with chunked, which no HTTP/1.1 request may have, is left  *)
(* out.                                                                    *)
(***************************************************************************)
EXTENDS Naturals

CONSTANT None

RequestHeads ==
  [version : {"1.0", "1.1"}, coding : {"none", "chunked", "list"},
   length : Nat \cup {None}, upgrade : BOOLEAN, head : BOOLEAN]

ResponseHeads ==
  [version : {"1.0", "1.1"}, coding : {"none", "chunked", "list"},
   length : Nat \cup {None}, status : {"switch", "empty", "final"}]

(* The modes of a BodyReader and a BodyWriter. *)
ContentLength(n) == [is |-> "length", n |-> n]
ChunkedEncoding  == [is |-> "chunked", n |-> 0]
UntilClosed      == [is |-> "closed", n |-> 0]

(* is_header_value_chunk_encoding, get_content_length_value *)
Declared(head, otherwise) ==
  IF head.coding = "chunked" THEN ChunkedEncoding
  ELSE IF head.length # None THEN ContentLength(head.length)
  ELSE otherwise

IsRequestUpgrade(q)  == q.version = "1.1" /\ q.upgrade
IsResponseUpgrade(r) == r.version = "1.1" /\ r.status = "switch"
Bodiless(q, r) == q.head \/ r.status = "empty"

(* set_request_body_reader.  Its branch for an upgrade does not return, so what
   it sets is set anew below. *)
RequestReader(q) ==
  Declared(q, IF q.version = "1.1" THEN ContentLength(0) ELSE UntilClosed)

(* set_request_body_writer *)
RequestWriter(q) == IF IsRequestUpgrade(q) THEN UntilClosed ELSE Declared(q, UntilClosed)

(* set_response_body_reader, for a final response or a 101 *)
ResponseReader(q, r) ==
  IF Bodiless(q, r) THEN ContentLength(0)
  ELSE IF r.status = "switch" /\ IsRequestUpgrade(q) THEN UntilClosed
  ELSE Declared(r, UntilClosed)

(* Mutant: the method is forgotten. *)
ResponseWriterAnyMethod(q, r) ==
  IF r.status = "empty" THEN ContentLength(0)
  ELSE IF IsRequestUpgrade(q) /\ IsResponseUpgrade(r) THEN UntilClosed
  ELSE Declared(r, UntilClosed)

(* set_response_body_writer, for the same *)
ResponseWriter(q, r) ==
  IF Bodiless(q, r) THEN ContentLength(0)
  ELSE IF IsRequestUpgrade(q) /\ IsResponseUpgrade(r) THEN UntilClosed
  ELSE Declared(r, UntilClosed)

(* External: how the peers frame a message with such a head (RFC 9112, 6.3). *)
Framed(head, otherwise) ==
  IF head.coding # "none" THEN ChunkedEncoding ELSE Declared(head, otherwise)

RequestMeant(q) == Framed(q, ContentLength(0))

ResponseMeant(q, r) ==
  IF Bodiless(q, r) THEN ContentLength(0)
  ELSE IF r.status = "switch" /\ IsRequestUpgrade(q) THEN UntilClosed
  ELSE Framed(r, UntilClosed)

-----------------------------------------------------------------------------
(* Where the sessions do not choose what is meant.  A request in HTTP/1.0
   without a length has no body, yet it is read until the client closes ... *)
ReadOn(q) == q.version = "1.0" /\ q.coding = "none" /\ q.length = None

(* ... one that asks for an upgrade is written as it comes, without chunks,
   whatever its head says ... *)
WrittenRaw(q) == IsRequestUpgrade(q) /\ q.coding = "chunked"

(* ... a 101 in HTTP/1.0 is no upgrade to the session that writes it, and one to
   the session that reads it ... *)
HalfSwitched(q, r) ==
  /\ IsRequestUpgrade(q) /\ ~q.head
  /\ r.status = "switch" /\ r.version = "1.0" /\ Declared(r, UntilClosed) # UntilClosed

(* ... and a list of codings that ends with chunked is taken for none, in every
   request, and in every response whose head frames a body. *)
Listed(head) == head.coding = "list"

ListedResponse(q, r) ==
  Listed(r) /\ ~Bodiless(q, r) /\ ~(IsRequestUpgrade(q) /\ r.status = "switch")

(* What a writer of a mode writes is a body of the framing that was meant: raw
   bytes are, unless chunks are expected. *)
Understood(mode, meant) ==
  mode = meant \/ (mode = UntilClosed /\ meant # ChunkedEncoding)
=============================================================================
