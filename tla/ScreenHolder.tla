----------------------------- MODULE ScreenHolder -----------------------------
(***************************************************************************)
(* What the host promises about the screen (crates/palmtopd/src/session.rs,*)
(* "One client streams at a time ... the newest authenticated client takes *)
(* over"): at most one session holds it, a newcomer takes it from whoever  *)
(* does, and a session that runs on without it has been told to stop.      *)
(***************************************************************************)
CONSTANTS Conns, NoConn

VARIABLES
  holder,  \* the session holding the screen, or NoConn
  inside,  \* sessions that have started and not yet finished
  told     \* sessions told to stop because another took the screen

Init == holder = NoConn /\ inside = {} /\ told = {}

Displaced == told' = told \cup ({holder} \cap Conns)

Take(c) ==
  /\ c \notin inside
  /\ Displaced
  /\ inside' = inside \cup {c}
  /\ holder' = c

\* A newcomer that fails while it takes over leaves the screen to nobody.
TakeInVain ==
  /\ Displaced
  /\ holder' = NoConn
  /\ UNCHANGED inside

\* Only the holder gives the screen up by finishing.
Finish(c) ==
  /\ c \in inside
  /\ inside' = inside \ {c}
  /\ told' = told \ {c}
  /\ holder' = IF holder = c THEN NoConn ELSE holder

Next == TakeInVain \/ \E c \in Conns : Take(c) \/ Finish(c)

Spec == Init /\ [][Next]_<<holder, inside, told>>

\* Nobody runs beside the holder without knowing that it has to go.
HolderAlone == inside \ {holder} \subseteq told
===============================================================================
