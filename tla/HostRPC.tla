------------------------------ MODULE HostRPC ------------------------------
(***************************************************************************)
(* What the host: file system promises, whatever happens to the PC and the  *)
(* connections to it.  Callers are served one at a time; a request is       *)
(* executed at most once, and not before its caller is served; an answer    *)
(* that is not an error is the value the request was executed with.  An     *)
(* error says nothing: the request may or may not have been executed.       *)
(* Once the driver has been destroyed, or the network has mixed up its      *)
(* connections, none of this is promised.                                   *)
(***************************************************************************)
EXTENDS Integers

CONSTANTS
    Clients,     \* who calls
    Requests,    \* the numbers of the requests, 0 for none
    Values       \* what a call may return

VARIABLES
    live,        \* neither of the two has happened yet
    stage,       \* how far each client's call has got
    call,        \* its request; local: it needs no execution
    answer,      \* what it returned
    asked,       \* requests made so far
    executed     \* requests executed, each with its value

vars == <<live, stage, call, answer, asked, executed>>

Stages == {"idle", "waiting", "served", "answered"}
NoCall == [id |-> 0, local |-> FALSE]

Init ==
    /\ live = TRUE
    /\ stage = [t \in Clients |-> "idle"]
    /\ call = [t \in Clients |-> NoCall]
    /\ answer = [t \in Clients |-> 0]
    /\ asked = {} /\ executed = {}

Ask(t) ==
    /\ stage[t] = "idle"
    /\ stage' = [stage EXCEPT ![t] = "waiting"]
    /\ \E i \in Requests \ asked, local \in BOOLEAN :
        /\ call' = [call EXCEPT ![t] = [id |-> i, local |-> local]]
        /\ asked' = asked \cup {i}
    /\ UNCHANGED <<live, answer, executed>>

InService == {t \in Clients : stage[t] \in {"served", "answered"}}

Grant(t) ==
    /\ stage[t] = "waiting"
    /\ live => InService = {}
    /\ stage' = [stage EXCEPT ![t] = "served"]
    /\ UNCHANGED <<live, call, answer, asked, executed>>

(* The PC executes a request, of a call that is being served or is over.    *)
Execute ==
    /\ \E i \in asked, val \in Values :
        /\ executed' = executed \cup {[id |-> i, val |-> val]}
        /\ live => /\ \A e \in executed : e.id # i
                   /\ \A t \in Clients : stage[t] = "waiting" => call[t].id # i
    /\ UNCHANGED <<live, stage, call, answer, asked>>

Truthful(t, val) ==
    val >= 0 => \/ [id |-> call[t].id, val |-> val] \in executed
                \/ call[t].local /\ val = 0

Answer(t) ==
    /\ stage[t] = "served"
    /\ stage' = [stage EXCEPT ![t] = "answered"]
    /\ \E val \in Values :
        /\ answer' = [answer EXCEPT ![t] = val]
        /\ live => Truthful(t, val)
    /\ UNCHANGED <<live, call, asked, executed>>

Return(t) ==
    /\ stage[t] = "answered"
    /\ stage' = [stage EXCEPT ![t] = "idle"]
    /\ call' = [call EXCEPT ![t] = NoCall]
    /\ answer' = [answer EXCEPT ![t] = 0]
    /\ UNCHANGED <<live, asked, executed>>

Destroy ==
    /\ live' = FALSE
    /\ UNCHANGED <<stage, call, answer, asked, executed>>

Next ==
    \/ \E t \in Clients : Ask(t) \/ Grant(t) \/ Answer(t) \/ Return(t)
    \/ Execute
    \/ Destroy

Spec == Init /\ [][Next]_vars
=============================================================================
