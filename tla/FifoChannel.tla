---------------------------- MODULE FifoChannel -----------------------------
(* What a channel promises, without threads, events or wake-ups: items       *)
(* leave in the order in which they were set, each to exactly one getter,     *)
(* getters are served in the order in which they asked, and a getter is told   *)
(* of its item some time after it was given it.                                *)
EXTENDS Queues

CONSTANTS Getter, Item, NoItem

VARIABLES
  buffer, \* items set and not yet given to a getter
  asking, \* getters without an item, in the order of their get()
  given,  \* given[g]: item given to g, NoItem before
  told    \* getters whose get() returned with given[g], not yet used

chanVars == <<buffer, asking, given, told>>

ChanInit ==
  /\ buffer = <<>>
  /\ asking = <<>>
  /\ given = [g \in Getter |-> NoItem]
  /\ told = {}

Put(i) ==
  \/ /\ asking = <<>>
     /\ buffer' = Append(buffer, i)
     /\ UNCHANGED <<asking, given, told>>
  \/ /\ asking # <<>>
     /\ given' = [given EXCEPT ![Head(asking)] = Head(Append(buffer, i))]
     /\ buffer' = Tail(Append(buffer, i))
     /\ asking' = Tail(asking)
     /\ UNCHANGED told

\* A getter that owes nothing asks; if an item is there it has it at once.
Get(g) ==
  /\ given[g] = NoItem /\ \A k \in DOMAIN asking : asking[k] # g
  /\ \/ /\ buffer # <<>>
        /\ given' = [given EXCEPT ![g] = Head(buffer)]
        /\ buffer' = Tail(buffer)
        /\ told' = told \cup {g}
        /\ UNCHANGED asking
     \/ /\ buffer = <<>>
        /\ asking' = Append(asking, g)
        /\ UNCHANGED <<buffer, given, told>>

Tell(g) ==
  /\ given[g] # NoItem /\ g \notin told
  /\ told' = told \cup {g}
  /\ UNCHANGED <<buffer, asking, given>>

Use(g) ==
  /\ g \in told
  /\ given' = [given EXCEPT ![g] = NoItem]
  /\ told' = told \ {g}
  /\ UNCHANGED <<buffer, asking>>

\* Getters that asked go away with their thread; the others keep their order.
Leave ==
  /\ \E gone \in SUBSET Getter : asking' = Only(asking, Getter \ gone)
  /\ UNCHANGED <<buffer, given, told>>

ChanNext ==
  \/ \E i \in Item : Put(i)
  \/ \E g \in Getter : Get(g) \/ Tell(g) \/ Use(g)
  \/ Leave

ChanSpec == ChanInit /\ [][ChanNext]_chanVars
=============================================================================
