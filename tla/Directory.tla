------------------------------ MODULE Directory ------------------------------
(***************************************************************************)
(* What a registry promises those who look a service up                    *)
(*   pkg/discovery/discovery.go (Registry)                                 *)
(* without records, reports, ages or time: a set of instances that are     *)
(* listed.  Discovery shows that both registries, with the heartbeats of   *)
(* their instances, behave like this, if the heartbeats come often enough. *)
(***************************************************************************)
CONSTANTS Instances, Clients

VARIABLES
  life,    \* what has become of each instance
  listed,  \* instances whose addresses are given out
  conn     \* what each client has got from its lookup

vars == <<life, listed, conn>>

Init ==
  /\ life = [i \in Instances |-> "off"]
  /\ listed = {}
  /\ conn = [c \in Clients |-> "idle"]

Become(i, what) == life' = [life EXCEPT ![i] = what]

\* A registered instance may be listed at once or later.
Start(i) ==
  /\ life[i] = "off"
  /\ Become(i, "up")
  /\ listed' \in {listed, listed \cup {i}}
  /\ UNCHANGED conn

\* A report counts as long as the instance has not left, and for some time
\* after a crash.
List(i) ==
  /\ life[i] \in {"up", "leaving", "crashed"}
  /\ listed' = listed \cup {i}
  /\ UNCHANGED <<life, conn>>

\* An instance that shuts down need not report any more.
Cancel(i) ==
  /\ life[i] = "up"
  /\ Become(i, "leaving")
  /\ UNCHANGED <<listed, conn>>

\* Deregistered is for ever.
Leave(i) ==
  /\ life[i] = "leaving"
  /\ Become(i, "left")
  /\ listed' = listed \ {i}
  /\ UNCHANGED conn

Crash(i) ==
  /\ life[i] \in {"up", "leaving"}
  /\ Become(i, "crashed")
  /\ UNCHANGED <<listed, conn>>

\* As time passes, instances that are not up any more drop out; once they are
\* forgotten they are out for good.
Fade ==
  \E stale \in SUBSET {i \in listed : life[i] # "up"},
     dead \in SUBSET {i \in Instances : life[i] = "crashed"} :
    /\ listed' = listed \ stale
    /\ life' = [i \in Instances |-> IF i \in dead THEN "forgotten" ELSE life[i]]
    /\ dead \cap listed' = {}
    /\ UNCHANGED conn

\* A lookup that does not fail gets a listed instance, or learns that there is
\* none.
Lookup(c) ==
  /\ conn[c] = "idle"
  /\ \E r \in {"error"} \cup IF listed = {} THEN {"notfound"} ELSE listed :
       conn' = [conn EXCEPT ![c] = r]
  /\ UNCHANGED <<life, listed>>

Close(c) ==
  /\ conn[c] # "idle"
  /\ conn' = [conn EXCEPT ![c] = "idle"]
  /\ UNCHANGED <<life, listed>>

Next ==
  \/ \E i \in Instances : Start(i) \/ List(i) \/ Cancel(i) \/ Leave(i) \/ Crash(i)
  \/ Fade
  \/ \E c \in Clients : Lookup(c) \/ Close(c)

Spec == Init /\ [][Next]_vars
=============================================================================
