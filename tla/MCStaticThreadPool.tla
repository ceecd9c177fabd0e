------------------------- MODULE MCStaticThreadPool -------------------------
(* Instance of StaticThreadPool for TLC: one client may submit a and d,     *)
(* another b, and a, while it runs, may submit c.                           *)
EXTENDS StaticThreadPool

CONSTANTS client1, client2, a, b, c, d

MCClients == {client1, client2}

MCTasks == {a, b, c, d}

MCSpawns == [s \in MCClients \cup MCTasks |->
               CASE s = client1 -> {a, d}
                 [] s = client2 -> {b}
                 [] s = a -> {c}
                 [] OTHER -> {}]
=============================================================================
