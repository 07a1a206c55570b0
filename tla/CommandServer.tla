---------------------------- MODULE CommandServer ---------------------------
(***************************************************************************)
(* What the daemon promises its command-line clients: they are served one  *)
(* at a time, a client that is still there is answered before it is let    *)
(* go, and after the server stops nobody is served.  How the peer stream   *)
(* fails and is replaced meanwhile is not visible here.                    *)
(***************************************************************************)
CONSTANTS Clients, None

VARIABLES
    up,         \* the server has not stopped
    serving,    \* the client being served, or None
    waiting,    \* clients in the backlog
    gone,       \* clients that closed their end
    answered,   \* clients that have received their final response
    released    \* clients the server has hung up on

vars == <<up, serving, waiting, gone, answered, released>>

Init ==
    /\ up = TRUE
    /\ serving = None
    /\ waiting = {}
    /\ gone = {}
    /\ answered = {}
    /\ released = {}

Arrive(c) ==
    /\ up /\ c \notin waiting \cup released /\ serving # c
    /\ waiting' = waiting \cup {c}
    /\ UNCHANGED <<up, serving, gone, answered, released>>

Leave(c) ==
    /\ c \in waiting \/ serving = c
    /\ gone' = gone \cup {c}
    /\ UNCHANGED <<up, serving, waiting, answered, released>>

Take(c) ==
    /\ up /\ serving = None
    /\ c \in waiting
    /\ serving' = c
    /\ waiting' = waiting \ {c}
    /\ UNCHANGED <<up, gone, answered, released>>

(* An interactive session is answered when it starts. *)
Answer ==
    /\ serving # None
    /\ serving \notin answered \cup gone
    /\ answered' = answered \cup {serving}
    /\ UNCHANGED <<up, serving, waiting, gone, released>>

(* The client is let go; if it is there and has no answer yet, it gets one. *)
Release ==
    /\ serving # None
    /\ serving' = None
    /\ released' = released \cup {serving}
    /\ answered' = IF serving \in gone THEN answered ELSE answered \cup {serving}
    /\ UNCHANGED <<up, waiting, gone>>

Stop ==
    /\ up /\ serving = None
    /\ up' = FALSE
    /\ waiting' = {}
    /\ released' = released \cup waiting
    /\ UNCHANGED <<serving, gone, answered>>

Next ==
    \/ \E c \in Clients : Arrive(c) \/ Leave(c) \/ Take(c)
    \/ Answer
    \/ Release
    \/ Stop

Spec == Init /\ [][Next]_vars
=============================================================================
