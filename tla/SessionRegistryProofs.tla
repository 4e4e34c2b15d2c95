------------------------- MODULE SessionRegistryProofs -------------------------
(***************************************************************************)
(* The registry for any number of connections: its types, that what runs   *)
(* is registered or stopped, that no stopped reader is parked, that only   *)
(* paired clients disturb a session, and that it implements ScreenHolder.  *)
(***************************************************************************)
EXTENDS SessionRegistry, TLAPS

\* Before it registers a connection is unstopped; until its reader starts a
\* stopped session already has its socket shut.
Outset ==
  /\ \A c \in Conns : phase[c] \in {"none", "hello", "admitted"} =>
       ~stop[c] /\ c \notin reader
  /\ \A c \in Conns : phase[c] \in {"portal", "start"} =>
       c \notin reader /\ (stop[c] => sock[c] = "shut")
  /\ \A c \in Conns : phase[c] = "admitted" => c \in Paired

IInv == TypeOK /\ RegistryIsCurrent /\ NobodyParked /\ Outset

LEMMA InitIInv == Init => IInv
  BY RegistryAssumption
  DEF RegistryAssumption, Init, IInv, TypeOK, RegistryIsCurrent, NobodyParked,
      Outset, Phase, Guarded, Live

\* Each step keeps the types.
LEMMA TypeStep == IInv /\ [Next]_vars => TypeOK'
<1> SUFFICES ASSUME IInv, [Next]_vars PROVE TypeOK'
  OBVIOUS
<1> USE RegistryAssumption
    DEF RegistryAssumption, IInv, TypeOK, Phase, Guarded, MoveTo, Close, Release
<1>1. CASE UNCHANGED vars
  BY <1>1 DEF vars
<1>2. ASSUME NEW c \in Conns,
             Accept(c) \/ Admit(c) \/ Reject(c) \/ PortalApproved(c)
             \/ PortalRefused(c) \/ Start(c) \/ StartFails(c)
      PROVE  TypeOK'
  BY <1>2 DEF Accept, Admit, Reject, PortalApproved, PortalRefused, Start, StartFails
<1>3. ASSUME NEW c \in Conns, Register(c) \/ RegisterFails(c)
      PROVE  TypeOK'
  BY <1>3 DEF Register, RegisterFails, StopPrevious, Outset
<1>4. ASSUME NEW c \in Conns, RestartFails(c) \/ SeeStop(c) \/ Unwind(c)
      PROVE  TypeOK'
  BY <1>4 DEF RestartFails, SeeStop, Unwind
<1>5. ASSUME NEW c \in Conns,
             ReaderEnds(c) \/ CaptureStops(c) \/ PeerCloses(c)
             \/ PeerVanishes(c) \/ KeepaliveExpires(c)
      PROVE  TypeOK'
  BY <1>5 DEF ReaderEnds, CaptureStops, PeerCloses, PeerVanishes, KeepaliveExpires
<1> QED
  BY <1>1, <1>2, <1>3, <1>4, <1>5 DEF Next

\* Each step keeps what is said of registered and stopped sessions.
LEMMA SafeStep ==
  IInv /\ [Next]_vars => RegistryIsCurrent' /\ NobodyParked' /\ Outset'
<1> DEFINE Good == RegistryIsCurrent /\ NobodyParked /\ Outset
<1> SUFFICES ASSUME IInv, [Next]_vars PROVE Good'
  OBVIOUS
<1> USE RegistryAssumption
    DEF RegistryAssumption, IInv, TypeOK, Phase, Guarded, MoveTo, Close, Release,
        RegistryIsCurrent, NobodyParked, Outset, Live
<1>1. CASE UNCHANGED vars
  BY <1>1 DEF vars
<1>2. ASSUME NEW c \in Conns, Accept(c) \/ Admit(c) \/ Reject(c)
      PROVE  Good'
  BY <1>2 DEF Accept, Admit, Reject
<1>3. ASSUME NEW c \in Conns, Register(c)
      PROVE  Good'
  BY <1>3 DEF Register, StopPrevious
<1>4. ASSUME NEW c \in Conns, RegisterFails(c)
      PROVE  Good'
  BY <1>4 DEF RegisterFails
<1>5. ASSUME NEW c \in Conns, PortalApproved(c) \/ Start(c)
      PROVE  Good'
  BY <1>5 DEF PortalApproved, Start
<1>6. ASSUME NEW c \in Conns, PortalRefused(c) \/ StartFails(c)
      PROVE  Good'
  BY <1>6 DEF PortalRefused, StartFails
<1>7. ASSUME NEW c \in Conns, RestartFails(c) \/ SeeStop(c) \/ Unwind(c)
      PROVE  Good'
  BY <1>7 DEF RestartFails, SeeStop, Unwind
<1>8. ASSUME NEW c \in Conns, ReaderEnds(c) \/ CaptureStops(c)
      PROVE  Good'
  BY <1>8 DEF ReaderEnds, CaptureStops
<1>9. ASSUME NEW c \in Conns,
             PeerCloses(c) \/ PeerVanishes(c) \/ KeepaliveExpires(c)
      PROVE  Good'
  BY <1>9 DEF PeerCloses, PeerVanishes, KeepaliveExpires
<1> QED
  BY <1>1, <1>2, <1>3, <1>4, <1>5, <1>6, <1>7, <1>8, <1>9 DEF Next

\* The inductive invariant holds for ever.
THEOREM Invariance == Spec => []IInv
<1>1. IInv /\ [Next]_vars => IInv'
  BY TypeStep, SafeStep DEF IInv
<1> QED
  BY InitIInv, <1>1, PTL DEF Spec, SafetySpec

\* Type correctness; only paired clients are ever registered.
THEOREM TypeCorrect == Spec => []TypeOK
<1>1. IInv => TypeOK
  BY DEF IInv
<1> QED
  BY Invariance, <1>1, PTL

\* Every session that runs unstopped is the registered one, and the
\* registered one runs.
THEOREM RegistryStaysCurrent == Spec => []RegistryIsCurrent
<1>1. IInv => RegistryIsCurrent
  BY DEF IInv
<1> QED
  BY Invariance, <1>1, PTL

\* No reader of a stopped session is left parked on an open socket.
THEOREM ReadersAreFreed == Spec => []NobodyParked
<1>1. IInv => NobodyParked
  BY DEF IInv
<1> QED
  BY Invariance, <1>1, PTL
-----------------------------------------------------------------------------
\* A session is stopped by the end of its own reader or by a paired client.
THEOREM Undisturbed == Spec => OnlyThePairedDisturb
<1> DEFINE Disturbs == \A c \in Conns : ~stop[c] /\ stop'[c] =>
              \/ c \in reader \ reader'
              \/ \E d \in Paired : phase[d] = "admitted" /\ phase'[d] # "admitted"
<1>1. IInv /\ [Next]_vars => [Disturbs]_vars
  <2> SUFFICES ASSUME IInv, Next PROVE Disturbs
    OBVIOUS
  <2> USE DEF IInv, TypeOK
  <2>1. ASSUME NEW d \in Conns, Register(d) \/ RegisterFails(d)
        PROVE  Disturbs
    <3>1. d \in Paired /\ phase[d] = "admitted" /\ phase'[d] # "admitted"
      BY <2>1 DEF Register, RegisterFails, MoveTo, Outset
    <3> QED
      BY <3>1
  <2>2. ASSUME NEW d \in Conns, ReaderEnds(d)
        PROVE  Disturbs
    BY <2>2 DEF ReaderEnds
  <2>3. ASSUME UNCHANGED stop
        PROVE  Disturbs
    BY <2>3
  <2> QED
    BY <2>1, <2>2, <2>3 DEF Next, Accept, Admit, Reject, PortalApproved,
       PortalRefused, Start, StartFails, RestartFails, SeeStop, Unwind,
       CaptureStops, PeerCloses, PeerVanishes, KeepaliveExpires
<1> QED
  BY Invariance, <1>1, PTL DEF Spec, SafetySpec, OnlyThePairedDisturb

-----------------------------------------------------------------------------
(* Refinement of ScreenHolder.                                             *)

screen == <<active, Live, Told>>

\* A step that moves no thread into or out of the guarded phases, and stops
\* at most a registered session, is no step of the screen's.
LEMMA Stutter ==
  ASSUME IInv, active' = active,
         \A d \in Conns : (phase'[d] \in Guarded) <=> (phase[d] \in Guarded),
         \A d \in Conns : active # d => stop'[d] = stop[d] \/ d \notin Live
  PROVE  UNCHANGED screen
<1>1. Live' = Live
  BY DEF Live
<1>2. Told' = Told
  BY <1>1 DEF Told, Live
<1> QED
  BY <1>1, <1>2 DEF screen

\* A thread that leaves the guarded phases releases its own entry at most.
LEMMA Leaving ==
  ASSUME IInv, NEW c \in Conns, phase[c] \in Guarded, Release(c),
         MoveTo(c, "gone"), stop' = stop
  PROVE  Screen!Finish(c)
<1>1. c \in Live /\ Live' = Live \ {c}
  BY DEF Live, MoveTo, Guarded, IInv, TypeOK
<1>2. active' = IF active = c THEN NoConn ELSE active
  BY DEF Release
<1>3. Told' = Told \ {c}
  BY <1>1, <1>2, RegistryAssumption
  DEF Told, Live, IInv, RegistryIsCurrent, RegistryAssumption
<1> QED
  BY <1>1, <1>2, <1>3 DEF Screen!Finish

LEMMA ScreenStep == IInv /\ [Next]_vars => [Screen!Next]_screen
<1> SUFFICES ASSUME IInv, [Next]_vars PROVE [Screen!Next]_screen
  OBVIOUS
<1> USE DEF IInv, TypeOK
<1>1. CASE UNCHANGED vars
  BY <1>1 DEF vars, screen, Live, Told
<1>2. ASSUME NEW c \in Conns, Register(c) PROVE Screen!Take(c)
  <2>1. c \notin Live /\ Live' = Live \cup {c}
    BY <1>2 DEF Register, MoveTo, Live, Guarded
  <2>2. active' = c /\ \A d \in Conns : stop'[d] = (stop[d] \/ d = active)
    BY <1>2 DEF Register, StopPrevious
  <2>3. Told' = Told \cup ({active} \cap Conns)
    BY <2>1, <2>2, RegistryAssumption
    DEF Told, Live, RegistryIsCurrent, RegistryAssumption
  <2> QED
    BY <2>1, <2>2, <2>3 DEF Screen!Take, Screen!Displaced
<1>3. ASSUME NEW c \in Conns, RegisterFails(c) PROVE Screen!TakeInVain
  <2>1. Live' = Live
    BY <1>3 DEF RegisterFails, MoveTo, Live, Guarded
  <2>2. active' = NoConn /\ \A d \in Conns : stop'[d] = (stop[d] \/ d = active)
    BY <1>3 DEF RegisterFails
  <2>3. Told' = Told \cup ({active} \cap Conns)
    BY <2>1, <2>2, RegistryAssumption
    DEF Told, Live, RegistryIsCurrent, RegistryAssumption
  <2> QED
    BY <2>1, <2>2, <2>3 DEF Screen!TakeInVain, Screen!Displaced
<1>4. ASSUME NEW c \in Conns,
             PortalRefused(c) \/ StartFails(c) \/ RestartFails(c) \/ Unwind(c)
      PROVE  Screen!Finish(c)
  BY <1>4, Leaving
  DEF PortalRefused, StartFails, RestartFails, Unwind, Guarded
<1>5. ASSUME NEW c \in Conns,
             \/ Accept(c) \/ Admit(c) \/ Reject(c) \/ PortalApproved(c)
             \/ Start(c) \/ SeeStop(c)
      PROVE  UNCHANGED screen
  BY <1>5, Stutter
  DEF Accept, Admit, Reject, PortalApproved, Start, SeeStop, MoveTo, Guarded
<1>6. ASSUME NEW c \in Conns, ReaderEnds(c)
      PROVE  UNCHANGED screen
  BY <1>6, Stutter DEF ReaderEnds, RegistryIsCurrent
<1>7. ASSUME NEW c \in Conns,
             CaptureStops(c) \/ PeerCloses(c) \/ PeerVanishes(c) \/ KeepaliveExpires(c)
      PROVE  UNCHANGED screen
  BY <1>7, Stutter DEF CaptureStops, PeerCloses, PeerVanishes, KeepaliveExpires
<1> QED
  BY <1>1, <1>2, <1>3, <1>4, <1>5, <1>6, <1>7 DEF Next, Screen!Next, screen

\* The registry implements the abstract screen: the newest client holds it
\* and whoever runs on without it has been told to stop.
THEOREM Implements == Spec => OneHolder
<1>1. Init => Screen!Init
  BY DEF Init, Screen!Init, Live, Told, Guarded
<1> QED
  BY Invariance, <1>1, ScreenStep, PTL
  DEF Spec, SafetySpec, OneHolder, Screen!Spec, screen

\* What every implementation of ScreenHolder promises: the holder's rivals know
\* that they have to go.
LEMMA HolderIsAlone == Screen!Spec => []Screen!HolderAlone
<1> DEFINE HInv == Live \subseteq Conns /\ Screen!HolderAlone
<1>1. Screen!Init => HInv
  BY DEF Screen!Init, Screen!HolderAlone
<1>2. HInv /\ [Screen!Next]_screen => HInv'
  <2> SUFFICES ASSUME HInv, [Screen!Next]_screen PROVE HInv'
    OBVIOUS
  <2> USE DEF Screen!HolderAlone
  <2>1. CASE Screen!TakeInVain
    BY <2>1 DEF Screen!TakeInVain, Screen!Displaced
  <2>2. ASSUME NEW c \in Conns, Screen!Take(c) PROVE HInv'
    BY <2>2 DEF Screen!Take, Screen!Displaced
  <2>3. ASSUME NEW c \in Conns, Screen!Finish(c) PROVE HInv'
    BY <2>3 DEF Screen!Finish
  <2>4. CASE UNCHANGED screen
    BY <2>4 DEF screen
  <2> QED
    BY <2>1, <2>2, <2>3, <2>4 DEF Screen!Next
<1>3. HInv => Screen!HolderAlone
  OBVIOUS
<1> QED
  BY <1>1, <1>2, <1>3, PTL DEF Screen!Spec, screen

\* At every moment all the sessions but the registered one that have started and not
\* finished have been told to leave (handle_client; release_if_current).
THEOREM OneUntold == Spec => []Screen!HolderAlone
<1> QED
  BY Implements, HolderIsAlone, PTL DEF OneHolder
===============================================================================
