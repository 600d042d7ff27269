------------------------------ MODULE FifoPool ------------------------------
(***************************************************************************)
(* What the dispatcher's admission control promises its callers, without   *)
(* leases, abort signals or the drain loop: at most Slots holders, and a   *)
(* first-come first-served queue of at most Limit waiters that nobody      *)
(* overtakes and that forms only while every slot is held.                 *)
(***************************************************************************)
EXTENDS Naturals, Sequences, FiniteSets, SequencesExt

CONSTANTS Clients,    \* whoever may ask for a slot
          Slots,      \* how many may hold one at the same time
          Limit       \* how many may wait

VARIABLES holders,    \* the clients that hold a slot
          queue,      \* the waiting clients, oldest first
          open        \* FALSE once the pool has been closed

vars == <<holders, queue, open>>

Waiting == ToSet(queue)

Init ==
  /\ holders = {}
  /\ queue = <<>>
  /\ open = TRUE

(* A client finds nobody waiting and a free slot. *)
Enter(c) ==
  /\ open
  /\ c \notin holders
  /\ queue = <<>>
  /\ Cardinality(holders) < Slots
  /\ holders' = holders \cup {c}
  /\ UNCHANGED <<queue, open>>

(* A client queues, which it does only because every slot is held. *)
Join(c) ==
  /\ open
  /\ c \notin holders \cup Waiting
  /\ Cardinality(holders) = Slots
  /\ Len(queue) < Limit
  /\ queue' = Append(queue, c)
  /\ UNCHANGED <<holders, open>>

(* The oldest waiter takes a free slot. *)
Admit ==
  /\ open
  /\ queue # <<>>
  /\ Cardinality(holders) < Slots
  /\ holders' = holders \cup {Head(queue)}
  /\ queue' = Tail(queue)
  /\ UNCHANGED open

(* A waiter gives up; the others keep their order. *)
Quit(i) ==
  /\ queue' = RemoveAt(queue, i)
  /\ UNCHANGED <<holders, open>>

Leave(c) ==
  /\ c \in holders
  /\ holders' = holders \ {c}
  /\ UNCHANGED <<queue, open>>

(* The pool closes: the waiters are turned away, the holders stay. *)
Close ==
  /\ open' = FALSE
  /\ queue' = <<>>
  /\ UNCHANGED holders

Next ==
  \/ \E c \in Clients : Enter(c) \/ Join(c) \/ Leave(c)
  \/ \E i \in DOMAIN queue : Quit(i)
  \/ Admit
  \/ Close

Spec == Init /\ [][Next]_vars
=============================================================================
