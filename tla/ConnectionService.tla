-------------------------- MODULE ConnectionService --------------------------
(***************************************************************************)
(* What the worker pool promises the TCP listener: every connection handed *)
(* over is handled once, connections are begun in the order they were      *)
(* handed over, none waits while a handler is free, and all this holds     *)
(* until the server process ends.                                          *)
(***************************************************************************)
EXTENDS Naturals, Sequences, FiniteSets

CONSTANTS
  Connections,
  Capacity       \* the number of connections handled at the same time

VARIABLES
  backlog,       \* the connections handed over and not begun, in order
  begun,         \* the connections being handled
  ended,         \* the connections handled
  up             \* does the server process run?

vars == <<backlog, begun, ended, up>>

Init == backlog = <<>> /\ begun = {} /\ ended = {} /\ up = TRUE

Known == {backlog[i] : i \in 1..Len(backlog)} \cup begun \cup ended

HandOver ==
  /\ up
  /\ \E c \in Connections \ Known : backlog' = Append(backlog, c)
  /\ UNCHANGED <<begun, ended, up>>

Start ==
  /\ up /\ backlog # <<>> /\ Cardinality(begun) < Capacity
  /\ begun' = begun \cup {Head(backlog)}
  /\ backlog' = Tail(backlog)
  /\ UNCHANGED <<ended, up>>

Finish(c) ==
  /\ up /\ c \in begun
  /\ begun' = begun \ {c}
  /\ ended' = ended \cup {c}
  /\ UNCHANGED <<backlog, up>>

Fail == up /\ up' = FALSE /\ UNCHANGED <<backlog, begun, ended>>

Next == HandOver \/ Start \/ (\E c \in Connections : Finish(c)) \/ Fail

Safely == Init /\ [][Next]_vars

Spec ==
  /\ Safely
  /\ WF_vars(Start)
  /\ \A c \in Connections : WF_vars(Finish(c))
=============================================================================
