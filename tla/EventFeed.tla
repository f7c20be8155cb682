------------------------------ MODULE EventFeed ------------------------------
(***************************************************************************)
(* What an event stream promises its subscribers, whatever stores the      *)
(* events: ids are published, never withdrawn, and a subscriber is told    *)
(* published ids in increasing order, each at most once however often its  *)
(* connection is lost.  Deliveries are counted, so that an id told again   *)
(* is a step the feed does not have.  EventLog and LocalRun implement it.  *)
(***************************************************************************)
CONSTANTS
  Clients,  \* the subscribers
  Ids       \* event ids, ordered by <

VARIABLES
  published,  \* the ids of the events that can be read
  told        \* how often each subscriber was told each id it has received

vars == <<published, told>>

LOCAL INSTANCE Naturals

Init ==
  /\ published = {}
  /\ told = [c \in Clients |-> [n \in {} |-> 0]]

Publish ==
  /\ published' \in SUBSET Ids
  /\ published \subseteq published'
  /\ UNCHANGED told

\* A batch for one subscriber: published, above all it was told before, each id once.
Deliver(c) ==
  LET batch == DOMAIN told'[c] \ DOMAIN told[c] IN
  /\ batch \subseteq published
  /\ \A n \in batch, m \in DOMAIN told[c] : m < n
  /\ told' = [told EXCEPT ![c] =
                [n \in DOMAIN @ \cup batch |-> IF n \in batch THEN 1 ELSE @[n]]]
  /\ UNCHANGED published

Next == Publish \/ \E c \in Clients : Deliver(c)

Spec == Init /\ [][Next]_vars

==============================================================================
