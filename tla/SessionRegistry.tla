---------------------------- MODULE SessionRegistry ----------------------------
(***************************************************************************)
(* The accept loop of the host and the registry of its one active session  *)
(* (crates/palmtopd/src/session.rs: run, ActiveSession, ReleaseOnDrop and  *)
(* the outline of handle_client).  Every connection has a thread of its    *)
(* own; the newest one to authenticate stops the registered session, shuts *)
(* its socket and takes its place, while the displaced session unwinds.    *)
(*                                                                         *)
(* What a session does while it streams is the matter of StreamSession; it *)
(* is reduced here to one reader and one capture thread.                   *)
(***************************************************************************)
CONSTANTS
  Conns,   \* TCP connections over the life of the daemon
  Paired,  \* those of clients that know the pairing token
  NoConn,  \* "no session is registered"
  Faults   \* the host's own failures, a subset of AllFaults

AllFaults == {"register", "start", "restart"}

ASSUME RegistryAssumption ==
  /\ Paired \subseteq Conns
  /\ NoConn \notin Conns
  /\ Faults \subseteq AllFaults

VARIABLES
  phase,    \* where the thread of each connection is in handle_client
  stop,     \* each session's stop flag
  sock,     \* each connection's socket
  reader,   \* connections whose network reader runs
  capture,  \* connections whose capture thread runs
  active    \* the registry: the connection registered, or NoConn

vars == <<phase, stop, sock, reader, capture, active>>

\* The phases in which a session holds a ReleaseOnDrop guard.
Guarded == {"portal", "start", "stream", "teardown"}
Phase   == {"none", "hello", "admitted", "gone"} \cup Guarded

TypeOK ==
  /\ phase   \in [Conns -> Phase]
  /\ stop    \in [Conns -> BOOLEAN]
  /\ sock    \in [Conns -> {"none", "open", "silent", "shut"}]
  /\ reader  \subseteq Conns
  /\ capture \subseteq Conns
  /\ active  \in Paired \cup {NoConn}

Init ==
  /\ phase = [c \in Conns |-> "none"]
  /\ stop  = [c \in Conns |-> FALSE]
  /\ sock  = [c \in Conns |-> "none"]
  /\ reader = {} /\ capture = {}
  /\ active = NoConn

-----------------------------------------------------------------------------
MoveTo(c, p) == phase' = [phase EXCEPT ![c] = p]
Close(c)     == sock' = [sock EXCEPT ![c] = "shut"]

\* run: accept and spawn a thread.
Accept(c) ==
  /\ phase[c] = "none"
  /\ MoveTo(c, "hello")
  /\ sock' = [sock EXCEPT ![c] = "open"]
  /\ UNCHANGED <<stop, reader, capture, active>>

\* Mutant: the token is not compared.
AdmitAnyone(c) ==
  /\ phase[c] = "hello"
  /\ MoveTo(c, "admitted")
  /\ UNCHANGED <<stop, sock, reader, capture, active>>

\* The Noise handshake and Hello went well; what the client sent may be
\* read after it has gone.
Admit(c) ==
  /\ phase[c] = "hello"
  /\ c \in Paired
  /\ MoveTo(c, "admitted")
  /\ UNCHANGED <<stop, sock, reader, capture, active>>

\* A wrong token or version, a malformed message or the end of the stream.
Reject(c) ==
  /\ phase[c] = "hello"
  /\ MoveTo(c, "gone")
  /\ Close(c)
  /\ UNCHANGED <<stop, reader, capture, active>>

\* Mutant: the displaced session's socket is left open.
StopPreviousOnly ==
  /\ stop' = [d \in Conns |-> stop[d] \/ d = active]
  /\ UNCHANGED sock

\* Mutant: the displaced session is cut off but not told to stop.
ShutPreviousOnly ==
  /\ sock' = [d \in Conns |-> IF d = active THEN "shut" ELSE sock[d]]
  /\ UNCHANGED stop

\* Under the registry's lock: the previous session is told to stop and its
\* socket is shut, which frees a thread parked in a read.
StopPrevious ==
  /\ stop' = [d \in Conns |-> stop[d] \/ d = active]
  /\ sock' = [d \in Conns |-> IF d = active THEN "shut" ELSE sock[d]]

Register(c) ==
  /\ phase[c] = "admitted"
  /\ StopPrevious
  /\ active' = c
  /\ MoveTo(c, "portal")
  /\ UNCHANGED <<reader, capture>>

\* The socket cannot be cloned for the registry: the previous session has
\* been displaced already and the registry stays empty.
RegisterFails(c) ==
  /\ "register" \in Faults
  /\ phase[c] = "admitted"
  /\ stop' = [d \in Conns |-> stop[d] \/ d = active]
  /\ sock' = [d \in Conns |-> IF d \in {c, active} THEN "shut" ELSE sock[d]]
  /\ active' = NoConn
  /\ MoveTo(c, "gone")
  /\ UNCHANGED <<reader, capture>>

\* Mutant: the registry is cleared without the identity check.
ReleaseAlways(c) == active' = NoConn

\* ReleaseOnDrop: the entry is removed only if it is still this session's.
Release(c) == active' = IF active = c THEN NoConn ELSE active

PortalApproved(c) ==
  /\ phase[c] = "portal"
  /\ MoveTo(c, "start")
  /\ capture' = capture \cup {c}
  /\ UNCHANGED <<stop, sock, reader, active>>

PortalRefused(c) ==
  /\ phase[c] = "portal"
  /\ MoveTo(c, "gone")
  /\ Close(c)
  /\ Release(c)
  /\ UNCHANGED <<stop, reader, capture>>

\* The first encoder, the writer, the watchdog and the reader start.
Start(c) ==
  /\ phase[c] = "start"
  /\ MoveTo(c, "stream")
  /\ reader' = reader \cup {c}
  /\ UNCHANGED <<stop, sock, capture, active>>

\* The encoder or a clone of the socket fails: capture is left running.
StartFails(c) ==
  /\ "start" \in Faults
  /\ phase[c] = "start"
  /\ MoveTo(c, "gone")
  /\ Close(c)
  /\ Release(c)
  /\ UNCHANGED <<stop, reader, capture>>

\* A mode change cannot restart the encoder: the main thread returns while
\* the reader, holding its own handle of the socket, and capture run on.
RestartFails(c) ==
  /\ "restart" \in Faults
  /\ phase[c] = "stream"
  /\ MoveTo(c, "gone")
  /\ Release(c)
  /\ UNCHANGED <<stop, sock, reader, capture>>

SeeStop(c) ==
  /\ phase[c] = "stream"
  /\ stop[c]
  /\ MoveTo(c, "teardown")
  /\ UNCHANGED <<stop, sock, reader, capture, active>>

\* The joins of the teardown, then the guard.
Unwind(c) ==
  /\ phase[c] = "teardown"
  /\ c \notin reader \cup capture
  /\ MoveTo(c, "gone")
  /\ Close(c)
  /\ Release(c)
  /\ UNCHANGED <<stop, reader, capture>>

-----------------------------------------------------------------------------
\* The reader ends at the end of the stream, once it has read what was
\* buffered, or on a message that does not parse; it never looks at stop.
ReaderEnds(c) ==
  /\ c \in reader
  /\ sock[c] \in {"open", "shut"}
  /\ reader' = reader \ {c}
  /\ stop' = [stop EXCEPT ![c] = TRUE]
  /\ UNCHANGED <<phase, sock, capture, active>>

ReadsEof(c) == sock[c] = "shut" /\ ReaderEnds(c)

CaptureStops(c) ==
  /\ c \in capture
  /\ stop[c]
  /\ capture' = capture \ {c}
  /\ UNCHANGED <<phase, stop, sock, reader, active>>

PeerCloses(c) ==
  /\ sock[c] = "open"
  /\ Close(c)
  /\ UNCHANGED <<phase, stop, reader, capture, active>>

PeerVanishes(c) ==
  /\ sock[c] = "open"
  /\ sock' = [sock EXCEPT ![c] = "silent"]
  /\ UNCHANGED <<phase, stop, reader, capture, active>>

\* Mutant: keepalive is not enabled.
KeepaliveOff(c) == FALSE /\ UNCHANGED vars

\* configure_socket: three unanswered probes close the connection.
KeepaliveExpires(c) ==
  /\ sock[c] = "silent"
  /\ Close(c)
  /\ UNCHANGED <<phase, stop, reader, capture, active>>

Next == \E c \in Conns :
  \/ Accept(c) \/ Admit(c) \/ Reject(c) \/ Register(c) \/ RegisterFails(c)
  \/ PortalApproved(c) \/ PortalRefused(c) \/ Start(c) \/ StartFails(c)
  \/ RestartFails(c) \/ SeeStop(c) \/ Unwind(c)
  \/ ReaderEnds(c) \/ CaptureStops(c)
  \/ PeerCloses(c) \/ PeerVanishes(c) \/ KeepaliveExpires(c)

\* Threads keep running and the operating system gives up on silent peers.
\* Clients, the portal's dialog and failures come when they like.
Fairness == \A c \in Conns :
  /\ WF_vars(Register(c)) /\ WF_vars(Start(c) \/ StartFails(c))
  /\ WF_vars(SeeStop(c)) /\ WF_vars(Unwind(c))
  /\ WF_vars(ReadsEof(c)) /\ WF_vars(CaptureStops(c))
  /\ WF_vars(KeepaliveExpires(c))

SafetySpec == Init /\ [][Next]_vars
Spec       == SafetySpec /\ Fairness

-----------------------------------------------------------------------------
(* Properties.                                                             *)

\* The registry implements the abstract screen: newest wins, and whoever
\* runs on without the screen has been told to stop.
Live   == {c \in Conns : phase[c] \in Guarded}
Told   == {c \in Live : active # c /\ stop[c]}
Screen == INSTANCE ScreenHolder WITH holder <- active, inside <- Live, told <- Told
OneHolder == Screen!Spec

\* ReleaseOnDrop's reason: a session that has not been stopped is the
\* registered one, so the next client always has something to take over
\* from, and what is registered is a session that still runs.
RegistryIsCurrent ==
  /\ \A c \in Live : stop[c] \/ active = c
  /\ active # NoConn => active \in Live

\* ActiveSession: setting stop alone cannot free a thread parked in a
\* blocking read.  A reader whose session is stopped is never parked there.
NobodyParked == \A c \in reader : stop[c] => sock[c] = "shut"

\* An unpaired device cannot knock a session off the screen: a session is
\* stopped by the end of its own reader or by a paired client registering.
OnlyThePairedDisturb ==
  [][\A c \in Conns : ~stop[c] /\ stop'[c] =>
       \/ c \in reader \ reader'
       \/ \E d \in Paired : phase[d] = "admitted" /\ phase'[d] # "admitted"]_vars

\* A stopped session whose user has answered the portal comes to its end,
\* with its reader and its capture.
StoppedSessionsUnwind == \A c \in Conns :
  (stop[c] /\ phase[c] # "portal")
    ~> (phase[c] = "gone" /\ c \notin reader \cup capture)

\* A phone that vanishes without a word while it streams does not keep the
\* screen (configure_socket).
VanishedPhoneReleases == \A c \in Conns :
  (phase[c] = "stream" /\ sock[c] = "silent") ~> active # c

\* session.rs: "One client streams at a time ... the newest authenticated
\* client takes over".
OneClientAtATime ==
  \A c, d \in reader : (~stop[c] /\ ~stop[d]) => c = d
===============================================================================
