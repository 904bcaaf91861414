--------------------------- MODULE MCTcpipThread ---------------------------
(* Periods for a small instance: two cyclic timers and the TCP timer.      *)
EXTENDS TcpipThread

MCPeriod == [t \in {"arp", "dns", "tcp"} |->
                CASE t = "arp" -> 3 [] t = "dns" -> 2 [] t = "tcp" -> 1]
=============================================================================
