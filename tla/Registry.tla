------------------------------ MODULE Registry ------------------------------
(***************************************************************************)
(* What sylvie promises about tokens, without tables, handlers or clocks.  *)
(*                                                                         *)
(* Every device has one token.  A token is issued at most until it is      *)
(* killed, and a killed token never comes back.  Only a request that was   *)
(* admitted while its own token was usable may kill or lose a token; such  *)
(* a request keeps its lease until it ends, even if its own token is       *)
(* killed meanwhile.  Devices.tla implements this specification.           *)
(***************************************************************************)
CONSTANTS Devices, Requests, None

VARIABLES token,   \* [Devices -> {"none", "usable", "dead"}]
          lease    \* [Requests -> Devices \cup {None}]

vars == <<token, lease>>

Init ==
    /\ token = [d \in Devices |-> "none"]
    /\ lease = [r \in Requests |-> None]

\* A password was proved: the device gets its token.
Issue(d) ==
    /\ token[d] = "none"
    /\ token' = [token EXCEPT ![d] = "usable"]
    /\ UNCHANGED lease

Admit(r, d) ==
    /\ token[d] = "usable"
    /\ lease' = [lease EXCEPT ![r] = d]
    /\ UNCHANGED token

\* Some requests end: all of them when the server stops.
Release(S) ==
    /\ lease' = [r \in Requests |-> IF r \in S THEN None ELSE lease[r]]
    /\ UNCHANGED token

Kill(r, d) ==
    /\ lease[r] # None
    /\ token' = [token EXCEPT ![d] = "dead"]
    /\ UNCHANGED lease

\* The session row goes while the device stays listed as live.
Lose(r, d) ==
    /\ lease[r] # None
    /\ token[d] = "usable"
    /\ token' = [token EXCEPT ![d] = "none"]
    /\ UNCHANGED lease

Next ==
    \/ \E d \in Devices : Issue(d)
    \/ \E r \in Requests, d \in Devices :
          Admit(r, d) \/ Kill(r, d) \/ Lose(r, d)
    \/ \E S \in SUBSET Requests : Release(S)

Spec == Init /\ [][Next]_vars
=============================================================================
