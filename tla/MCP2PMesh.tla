----------------------------- MODULE MCP2PMesh -----------------------------
(* Values for the constants of P2PMesh. *)
EXTENDS P2PMesh, TLC

CONSTANTS a, b, c, top

MCNode == {a, b, c}
MCTopic == {top}
MCHash == a :> 0 @@ b :> 1 @@ c :> 2

Ab == {a, b}
Bc == {b, c}
Ac == {a, c}

(* Two leaves and the router between them; the topic has a shard owner. *)
Line == [links |-> {Ab, Bc}, routers |-> {b}, owner |-> [x \in {top} |-> b],
         subscribers |-> {a, c}, pubs |-> <<<<a, top, 1>>>>,
         unsubs |-> 1, weak |-> {}, breaks |-> 0, known |-> FALSE]

(* Two routers whose connection breaks. *)
Pair == [links |-> {Ab}, routers |-> {a, b}, owner |-> [x \in {top} |-> None],
         subscribers |-> {b}, pubs |-> <<<<a, top, 1>>, <<a, top, 1>>>>,
         unsubs |-> 0, weak |-> {Ab}, breaks |-> 2, known |-> FALSE]

(* Three routers that are all connected. *)
Triangle == [links |-> {Ab, Bc, Ac}, routers |-> {a, b, c},
             owner |-> [x \in {top} |-> None], subscribers |-> {c},
             pubs |-> <<<<b, top, 1>>>>,
             unsubs |-> 0, weak |-> {}, breaks |-> 0, known |-> FALSE]

(* A subscriber with two routers, to one of which the connection breaks. *)
Detour == [Triangle EXCEPT !.pubs = <<<<a, top, 1>>, <<a, top, 2>>>>,
                           !.weak = {Ac}, !.breaks = 2, !.known = TRUE]

MCScenes == {Line, Pair, Triangle, Detour}
=============================================================================
