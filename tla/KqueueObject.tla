----------------------------- MODULE KqueueObject ------------------------------
(***************************************************************************)
(* What the library promises about the memory of a struct kqueue, with no  *)
(* locks, no descriptor table and no monitoring thread.  A kqueue may be   *)
(* retired only after its descriptor was closed; from then on no new call  *)
(* finds it; it is destroyed once, when the last call that found it has    *)
(* left.                                                                   *)
(***************************************************************************)
CONSTANTS Threads, Kqs

VARIABLES
  life,  \* each kqueue: "none", "open", "closed" or "retired"
  users  \* the calls that have a pointer to it

vars == <<life, users>>

Init ==
  /\ life = [k \in Kqs |-> "none"]
  /\ users = [k \in Kqs |-> {}]

Create(k) ==
  /\ life[k] = "none"
  /\ life' = [life EXCEPT ![k] = "open"]
  /\ UNCHANGED users

Close(k) ==
  /\ life[k] = "open"
  /\ life' = [life EXCEPT ![k] = "closed"]
  /\ UNCHANGED users

Retire(k) ==
  /\ life[k] = "closed"
  /\ life' = [life EXCEPT ![k] = "retired"]
  /\ UNCHANGED users

Enter(t, k) ==
  /\ life[k] \in {"open", "closed"}
  /\ t \notin users[k]
  /\ users' = [users EXCEPT ![k] = @ \cup {t}]
  /\ UNCHANGED life

Leave(t, k) ==
  /\ t \in users[k]
  /\ users' = [users EXCEPT ![k] = @ \ {t}]
  /\ UNCHANGED life

Destroy(k) ==
  /\ life[k] = "retired"
  /\ users[k] = {}
  /\ life' = [life EXCEPT ![k] = "none"]
  /\ UNCHANGED users

Next ==
  \E k \in Kqs :
    \/ Create(k) \/ Close(k) \/ Retire(k) \/ Destroy(k)
    \/ \E t \in Threads : Enter(t, k) \/ Leave(t, k)

Spec == Init /\ [][Next]_vars
================================================================================
