----------------------------- MODULE LinkStages -----------------------------
(***************************************************************************)
(* What the link pipeline promises about each drama task: its promotion    *)
(* links are frozen once, what has been built for them on the delivery     *)
(* system is never forgotten, and only a re-enqueue after a rehearsal      *)
(* starts from nothing.  LinkReadiness implements it.                      *)
(***************************************************************************)
CONSTANTS Tasks,
          Types,  \* the link types a task can have
          Urls, NoUrl

VARIABLES frozen,  \* per task and type, the frozen link, or NoUrl
          built,   \* per task, the types whose promotion config is on record
          ready    \* the tasks reported as built

stages == <<frozen, built, ready>>

Nothing  == [y \in Types |-> NoUrl]
Held(ls) == {y \in Types : ls[y] # NoUrl}

Init ==
    /\ frozen = [t \in Tasks |-> Nothing]
    /\ built = [t \in Tasks |-> {}]
    /\ ready = {}

\* An execution, however far it gets.
Advance(t) ==
    \E ls \in [Types -> Urls \cup {NoUrl}] :
       \E b \in SUBSET Held(ls) :
          /\ frozen[t] # Nothing => ls = frozen[t]
          /\ built[t] \subseteq b
          /\ frozen' = [frozen EXCEPT ![t] = ls]
          /\ built' = [built EXCEPT ![t] = b]
          /\ ready' \in {ready \ {t}, ready \cup {t}}

\* A task that was rehearsed is prepared again from its source.
Restart(t) ==
    /\ frozen' = [frozen EXCEPT ![t] = Nothing]
    /\ built' = [built EXCEPT ![t] = {}]
    /\ ready' = ready \ {t}

Next == \E t \in Tasks : Advance(t) \/ Restart(t)

Spec == Init /\ [][Next]_stages
=============================================================================
