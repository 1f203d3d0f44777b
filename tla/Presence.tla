------------------------------ MODULE Presence -------------------------------
(***************************************************************************)
(* What the sessions of Session promise, without pointers, lists or passes:*)
(* where each connection stands, and which connections have a character    *)
(* the others can see.  Nobody is seen without having logged in, nobody    *)
(* enters twice, and who is leaving only leaves.                           *)
(***************************************************************************)
CONSTANTS Clients

VARIABLES stage,   \* "out", "login", "menu", "world" or "leaving"
          visible  \* the connections whose character stands in the world

vars == <<stage, visible>>

TypeOK ==
  /\ stage \in [Clients -> {"out", "login", "menu", "world", "leaving"}]
  /\ visible \subseteq Clients

Init == stage = [c \in Clients |-> "out"] /\ visible = {}

To(c, s) == stage' = [stage EXCEPT ![c] = s]

Connect(c) == stage[c] = "out" /\ To(c, "login") /\ UNCHANGED visible

LogIn(c) == stage[c] = "login" /\ To(c, "menu") /\ UNCHANGED visible

Enter(c) == /\ stage[c] \in {"login", "menu"} /\ c \notin visible
            /\ To(c, "world")
            /\ visible' = visible \cup {c}

Withdraw(c) == /\ stage[c] = "world" /\ c \in visible
               /\ To(c, "menu")
               /\ visible' = visible \ {c}

\* Whoever starts to leave is still seen if he was.
Leave(c) == /\ stage[c] \in {"login", "menu", "world"}
            /\ To(c, "leaving") /\ UNCHANGED visible

Disconnect(c) == /\ stage[c] # "out"
                 /\ To(c, "out")
                 /\ visible' = visible \ {c}

\* The process ends and takes every session with it.
Fail == stage' = [c \in Clients |-> "out"] /\ visible' = {}

Next == Fail \/ \E c \in Clients :
          \/ Connect(c) \/ LogIn(c) \/ Enter(c) \/ Withdraw(c)
          \/ Leave(c) \/ Disconnect(c)

Spec == Init /\ [][Next]_vars
=============================================================================
