----------------------------- MODULE Supervisor -----------------------------
(***************************************************************************)
(* What the php-fpm master promises, whatever the signals, forks, pipes    *)
(* and timers it uses: a goal that is only ever overridden by a stronger   *)
(* one, crews that grow only while the goal is to serve, and an end (or a  *)
(* new image) at the very moment the last worker is gone, not before.      *)
(***************************************************************************)
EXTENDS Integers, FiniteSets

CONSTANTS Pools, Pid, MaxChildren

VARIABLES
    goal,   \* what the master works towards
    crew,   \* the workers of each pool, until they are waited for
    up      \* "starting", "up" or "down"

vars == <<goal, crew, up>>

Goals == {"NORMAL", "RELOADING", "FINISHING", "TERMINATING"}

Overrides(new, old) ==
    <<old, new>> \in {<<"NORMAL", "RELOADING">>, <<"NORMAL", "FINISHING">>,
                      <<"NORMAL", "TERMINATING">>, <<"RELOADING", "FINISHING">>,
                      <<"RELOADING", "TERMINATING">>,
                      <<"FINISHING", "TERMINATING">>}

Nobody  == [w \in Pools |-> {}]
Hired   == UNION {crew[w] : w \in Pools}

Init == goal = "NORMAL" /\ crew = Nobody /\ up = "starting"

Start ==
    /\ up = "starting"
    /\ up' \in {"up", "down"}
    /\ UNCHANGED <<goal, crew>>

Hire(w, p) ==
    /\ up = "up"
    /\ goal = "NORMAL"
    /\ p \notin Hired
    /\ Cardinality(crew[w]) < MaxChildren[w]
    /\ crew' = [crew EXCEPT ![w] = @ \cup {p}]
    /\ UNCHANGED <<goal, up>>

(* With goal g and crews c: carry on, or conclude if nobody is left.       *)
Settle(g, c) ==
    /\ crew' = c
    /\ IF g = "NORMAL" \/ c # Nobody
       THEN goal' = g /\ up' = "up"
       ELSE \/ g = "RELOADING" /\ goal' = "NORMAL" /\ up' = "starting"
            \/ goal' = g /\ up' = "down"

Command(g) ==
    /\ up = "up"
    /\ Overrides(g, goal)
    /\ Settle(g, crew)

(* A worker is gone; too many faults turn serving into reloading.          *)
Lose(w, p) ==
    /\ up = "up"
    /\ p \in crew[w]
    /\ \E g \in {goal} \cup (IF goal = "NORMAL" THEN {"RELOADING"} ELSE {}) :
          Settle(g, [crew EXCEPT ![w] = @ \ {p}])

Next ==
    \/ Start
    \/ \E g \in Goals : Command(g)
    \/ \E w \in Pools, p \in Pid : Hire(w, p) \/ Lose(w, p)

Spec == Init /\ [][Next]_vars
=============================================================================
