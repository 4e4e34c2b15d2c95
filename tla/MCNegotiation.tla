---------------------------- MODULE MCNegotiation ----------------------------
(* Phones of every kind that matters to the clamping, and a laptop screen.  *)
EXTENDS Negotiation

\* Nothing known; the fallback profile; a width at which the product in f64 falls
\* short; limits that are odd, or tighter in height; one beyond every preset.
MCDevices ==
  {[width |-> 0, height |-> 0, fps |-> 0, refresh |-> 0],
   [width |-> 1280, height |-> 720, fps |-> 30, refresh |-> 60],
   [width |-> 448, height |-> 300, fps |-> 24, refresh |-> 60],
   [width |-> 1921, height |-> 777, fps |-> 60, refresh |-> 17],
   [width |-> 4096, height |-> 2176, fps |-> 60, refresh |-> 120]}
MCSource == [width |-> 1920, height |-> 1080]
=============================================================================
