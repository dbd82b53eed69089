------------------------------ MODULE FlowTable ------------------------------
(***************************************************************************)
(* What the VLAN configuration of a UNI promises about the ONU's tagging   *)
(* table, without its FSM, its goroutines and OMCI: the table changes only *)
(* by requests; a rule is asked for only while the adapter knows it and    *)
(* taken out only while its removal is ordered; and the adapter forgets a  *)
(* rule it was ordered to remove only when the ONU does not have it, or by *)
(* giving up all rules at once.                                            *)
(***************************************************************************)
CONSTANTS Rules, Key(_)

VARIABLES
  known,    \* rules the adapter has to have on the ONU
  leaving,  \* known rules whose removal is ordered
  adding,   \* rules in a request on its way to the ONU to set them
  taking,   \* rules in a request on its way to take them out
  have      \* the rules of the ONU's table

vars == <<known, leaving, adding, taking, have>>

Init == known = {} /\ leaving = {} /\ adding = {} /\ taking = {} /\ have = {}

Know(r) == known' = known \cup {r} /\ UNCHANGED <<leaving, adding, taking, have>>

Leave(r) == r \in known /\ leaving' = leaving \cup {r} /\ UNCHANGED <<known, adding, taking, have>>

AskAdd(r) == r \in known /\ adding' = adding \cup {r} /\ UNCHANGED <<known, leaving, taking, have>>

AskTake(r) == r \in leaving /\ taking' = taking \cup {r} /\ UNCHANGED <<known, leaving, adding, have>>

\* The request arrives, is refused, or is lost; an entry replaces one with its
\* filter part.
Add(r) ==
  /\ r \in adding /\ adding' = adding \ {r}
  /\ have' \in {have, {y \in have : Key(y) # Key(r)} \cup {r}}
  /\ UNCHANGED <<known, leaving, taking>>

Take(r) ==
  /\ r \in taking /\ taking' = taking \ {r} /\ have' \in {have, {y \in have : Key(y) # Key(r)}}
  /\ UNCHANGED <<known, leaving, adding>>

\* The removal is done.
Forget(r) ==
  /\ r \in leaving /\ r \notin have
  /\ known' = known \ {r} /\ leaving' = leaving \ {r} /\ UNCHANGED <<adding, taking, have>>

\* A rule that was never asked for is withdrawn.
Withdraw(r) ==
  /\ r \in known \ (leaving \cup adding)
  /\ known' = known \ {r} /\ UNCHANGED <<leaving, adding, taking, have>>

GiveUp == known' = {} /\ leaving' = {} /\ UNCHANGED <<adding, taking, have>>

\* The ONU is lost, and its table with it.
Lose == adding' = {} /\ taking' = {} /\ have' = {} /\ UNCHANGED <<known, leaving>>

Next ==
  \/ \E r \in Rules : Know(r) \/ Leave(r) \/ AskAdd(r) \/ AskTake(r) \/ Add(r) \/ Take(r)
                        \/ Forget(r) \/ Withdraw(r)
  \/ GiveUp \/ Lose

Spec == Init /\ [][Next]_vars

=============================================================================
