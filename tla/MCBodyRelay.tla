----------------------------- MODULE MCBodyRelay -----------------------------
(* One body through the relay on small instances: lengths 0 and 3, a body until
   the close, chunked bodies of none, one and two chunks, with and without
   chunk extensions, with and without bytes beyond; under each of the heads that
   lead the sessions to other pairs of framings. *)
EXTENDS BodyRelayProperties, TLC

Message(fr, sizes, ext, beyond) ==
  [framing |-> fr, sizes |-> sizes, ext |-> ext, beyond |-> beyond]

SmallMessages ==
  { Message("length", <<0>>, 0, 1), Message("length", <<3>>, 0, 1),
    Message("closed", <<3>>, 0, 0),
    Message("chunked", <<>>, 0, 1), Message("chunked", <<1, 3>>, 0, 0),
    Message("chunked", <<2>>, 1, 0), Message("chunked", <<1>>, 3, 0) }

Post(version, coding, length, upgrade) ==
  [version |-> version, coding |-> coding, length |-> length, upgrade |-> upgrade,
   head |-> FALSE]

Get == Post("1.1", "none", None, FALSE)

Response(status, coding, length) ==
  [version |-> "1.1", coding |-> coding, length |-> length, status |-> status]

SmallHeads ==
  { [request |-> q, response |-> None] : q \in
      { Get, Post("1.0", "none", None, FALSE), Post("1.1", "none", 3, FALSE),
        Post("1.1", "chunked", 3, FALSE), Post("1.1", "none", 3, TRUE),
        Post("1.1", "chunked", None, TRUE), Post("1.1", "list", 3, FALSE) } }
  \cup { [request |-> Get, response |-> r] : r \in
           { Response("final", "none", 0), Response("final", "none", 3),
             Response("final", "none", None), Response("final", "chunked", 3),
             Response("final", "list", None) } }
  \cup { [request |-> [Get EXCEPT !.head = TRUE], response |-> Response("final", "none", 3)],
         [request |-> Get, response |-> Response("empty", "chunked", None)],
         [request |-> Post("1.1", "none", None, TRUE),
          response |-> Response("switch", "none", None)],
         [request |-> Post("1.1", "none", None, TRUE),
          response |-> [Response("switch", "none", 3) EXCEPT !.version = "1.0"]] }
=============================================================================
