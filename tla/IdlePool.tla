------------------------------ MODULE IdlePool ------------------------------
(***************************************************************************)
(* What the connection pool promises, with no threads, queues, locks or    *)
(* caches: an open connection is idle in the pool or busy with one         *)
(* request, and belongs from its opening to its closing to one group; a    *)
(* request is only ever given an idle connection of the group it asked     *)
(* for.  Whether it is given one, or opens its own, is left open.          *)
(***************************************************************************)
CONSTANTS Conns, Groups

VARIABLES available, busy   \* sets of <<connection, group>>

Init == available = {} /\ busy = {}

Connect(c, g) ==
  /\ \A h \in Groups : <<c, h>> \notin available \cup busy
  /\ busy' = busy \cup {<<c, g>>}
  /\ UNCHANGED available

Close(c, g) ==
  /\ <<c, g>> \in busy
  /\ busy' = busy \ {<<c, g>>}
  /\ UNCHANGED available

Return(c, g) ==
  /\ <<c, g>> \in busy
  /\ busy' = busy \ {<<c, g>>}
  /\ available' = available \cup {<<c, g>>}

PickUp(c, g) ==
  /\ <<c, g>> \in available
  /\ available' = available \ {<<c, g>>}
  /\ busy' = busy \cup {<<c, g>>}

(* Evicted, or idle for too long. *)
Drop(c, g) ==
  /\ <<c, g>> \in available
  /\ available' = available \ {<<c, g>>}
  /\ UNCHANGED busy

Next == \E c \in Conns, g \in Groups :
          Connect(c, g) \/ Close(c, g) \/ Return(c, g) \/ PickUp(c, g) \/ Drop(c, g)

Spec == Init /\ [][Next]_<<available, busy>>
=============================================================================
