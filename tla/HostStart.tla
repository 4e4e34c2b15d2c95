------------------------------ MODULE HostStart ------------------------------
(***************************************************************************)
(* Start-up of the host and the commands that share its configuration:     *)
(* palmtopd itself, --doctor, --list-encoders and --set-encoder            *)
(* (palmtopd/src/main.rs, with palmtop-config, pairing.rs and the doctors).*)
(*                                                                         *)
(* Every one of them begins by loading host.toml, which may have to        *)
(* generate the pairing secrets and write the file: read, truncate, write. *)
(* A process can be killed anywhere in between, the network and the        *)
(* graphics hardware change as they like.                                  *)
(***************************************************************************)
EXTENDS HostConfig

CONSTANTS
  Files,        \* the contents host.toml may have at first
  Hardware,     \* the sets of encoders the machine may have
  Address,      \* the addresses it may have
  Chosen,       \* the codecs a user asks for with --set-encoder
  Secret,       \* what generate_token and generate_keypair return, in order
  MaxChange,    \* bound: changes of the hardware or the address
  MaxStart,     \* bound: processes started
  Exclusive     \* nobody starts a second process while one is starting

\* The values that a line of host.toml has.
Values == {""} \cup SelectableCodecs \cup ToSet(Secret)
            \cup UNION {{f[i].value : i \in 1..Len(f)} : f \in Files}

StartAssumption ==
  /\ Chosen \subseteq SelectableCodecs
  /\ MaxChange \in Nat /\ MaxStart \in Nat
  /\ Exclusive \in BOOLEAN
  /\ 1..MaxStart \subseteq DOMAIN Secret
  /\ "" \notin ToSet(Secret) /\ IsInjective(Secret)
  /\ \A f \in Files : WellFormed(f, Values) /\ (Parses(f) => Appendable(f))
ASSUME StartAssumption

VARIABLES
  platform,  \* what the program was built for
  file,      \* host.toml
  hw, addr,  \* the hardware and the address; "" without a network
  changes, starts,
  proc,      \* proc[p]: the process p
  shown,     \* the address in the pairing info
  failure,   \* why the daemon could not start
  identity,  \* the secrets of the first load that was completed
  damaged,   \* a process was killed between truncating and writing
  verdict,   \* what --doctor said of the machine as it is
  offered,   \* what --list-encoders offers, on the hardware as it is
  expected   \* what was then chosen with --set-encoder

world == <<platform, hw, addr, changes>>
said == <<verdict, offered, expected>>
vars == <<world, file, starts, proc, shown, failure, identity, damaged, said>>

\* A process: where it is in main, its command line, the configuration it has
\* loaded and what it is about to write.  One of them is the daemon.
Proc == {"daemon", "tool"}
NoCfg == [ip |-> "", node |-> "", codec |-> "", token |-> "", private |-> "",
          public |-> ""]
Off == [at |-> "off", job |-> "serve", arg |-> AutoCodec, cfg |-> NoCfg,
        text |-> <<>>]
At(p) == proc[p].at
Cfg(p) == proc[p].cfg
GoTo(p, l) == proc' = [proc EXCEPT ![p] = IF l = "off" THEN Off
                                          ELSE [@ EXCEPT !.at = l]]

Starting == {"load", "truncate", "write", "loaded", "setTruncate", "setWrite",
             "advertise", "address"}
NoOne == <<"", "">>
Credentials(c) == <<c.token, c.public>>

TypeOK ==
  /\ platform \in {"linux", "windows"}
  /\ WellFormed(file, Values)
  /\ hw \in Hardware /\ addr \in Address
  /\ changes \in 0..MaxChange /\ starts \in 0..MaxStart
  /\ DOMAIN proc = Proc
  /\ \A p \in Proc : /\ At(p) \in Starting \cup {"off", "serving"}
                     /\ (p = "daemon") = (proc[p].job = "serve") \/ At(p) = "off"
                     /\ proc[p].arg \in SelectableCodecs
                     /\ At(p) \in {"write", "setWrite"} => file = <<>>
  /\ failure \in {"none", "config", "encoder", "address"}
  /\ damaged \in BOOLEAN
  /\ verdict \in {"none", "healthy", "unhealthy"}
  /\ offered \subseteq SelectableCodecs
  /\ expected \in SelectableCodecs \cup {"none"}

Init ==
  /\ platform \in {"linux", "windows"}
  /\ file \in Files
  /\ hw \in Hardware /\ addr \in Address
  /\ changes = 0 /\ starts = 0
  /\ proc = [p \in Proc |-> Off]
  /\ shown = "" /\ failure = "none"
  /\ identity = NoOne
  /\ damaged = FALSE
  /\ verdict = "none" /\ offered = {} /\ expected = "none"

-----------------------------------------------------------------------------
(* Loading the configuration. *)

Start(p, j, c) ==
  /\ At(p) = "off" /\ starts < MaxStart
  /\ (p = "daemon") <=> (j = "serve")
  /\ Exclusive => \A q \in Proc : At(q) \notin Starting
  /\ starts' = starts + 1
  /\ proc' = [proc EXCEPT ![p] = [Off EXCEPT !.at = "load", !.job = j, !.arg = c]]
  /\ UNCHANGED <<world, file, shown, failure, identity, damaged, said>>

\* HostConfig::load up to the write.  Without a configuration --doctor and
\* --set-encoder go on; the daemon and --list-encoders give up.
Load(p) ==
  /\ At(p) = "load"
  /\ LET fresh == Secret[starts]
         got == Complete(Parse(file), fresh)
         more == Appended(file, fresh)
     IN IF Parses(file)
        THEN /\ proc' = [proc EXCEPT
                  ![p].at = IF more = <<>> THEN "loaded" ELSE "truncate",
                  ![p].cfg = got,
                  ![p].text = IF more = <<>> THEN <<>> ELSE file \o more]
             /\ identity' = IF more = <<>> /\ identity = NoOne
                            THEN Credentials(got) ELSE identity
             /\ UNCHANGED failure
        ELSE /\ GoTo(p, IF proc[p].job \in {"doctor", "set"} THEN "loaded"
                                                            ELSE "off")
             /\ failure' = IF p = "daemon" THEN "config" ELSE failure
             /\ UNCHANGED identity
  /\ UNCHANGED <<world, file, starts, shown, damaged, said>>

\* std::fs::write truncates the file, then fills it.
Truncate(p) ==
  /\ At(p) \in {"truncate", "setTruncate"}
  /\ file' = <<>>
  /\ GoTo(p, IF At(p) = "truncate" THEN "write" ELSE "setWrite")
  /\ UNCHANGED <<world, starts, shown, failure, identity, damaged, said>>

Write(p) ==
  /\ At(p) = "write"
  /\ file' = proc[p].text
  /\ identity' = IF identity = NoOne THEN Credentials(Cfg(p)) ELSE identity
  /\ proc' = [proc EXCEPT ![p].at = "loaded", ![p].text = <<>>]
  /\ UNCHANGED <<world, starts, shown, failure, damaged, said>>

-----------------------------------------------------------------------------
(* The commands. *)

\* resolved_ip: what is configured, else what the network interface has.
ResolvedIp(c) == IF c.ip # "" THEN c.ip ELSE addr

\* What --doctor checks.  A configuration, with secrets and an address:
CheckConfig(c) == c # NoCfg /\ "" \notin {c.token, c.public}
                            /\ ResolvedIp(c) # ""

\* that the backend the daemon would choose encodes;
\* Mutant: that some encoder is listed, the software one always is.
CheckResolvedBackendMutant(c) == TRUE
CheckResolvedBackend(c) ==
  c = NoCfg \/ ResolvedEncodeBackend(c, platform, hw) # NoBackend

\* and the session, the portal, PipeWire and ffmpeg (on Windows the version and
\* ffmpeg), of which nothing else here depends.
CheckSession == BOOLEAN

\* The verdict counts failures; what is only warned of does not matter.
Healthy(c) == {session /\ CheckConfig(c) /\ CheckResolvedBackend(c) :
                 session \in CheckSession}

Doctor(p) ==
  /\ At(p) = "loaded" /\ proc[p].job = "doctor"
  /\ \E healthy \in Healthy(Cfg(p)) :
       verdict' = IF healthy THEN "healthy" ELSE "unhealthy"
  /\ GoTo(p, "off")
  /\ UNCHANGED <<world, file, starts, shown, failure, identity, damaged, offered,
                 expected>>

ListEncoders(p) ==
  /\ At(p) = "loaded" /\ proc[p].job = "list"
  /\ offered' = ProbeBackends(Cfg(p), platform, hw)
  /\ GoTo(p, "off")
  /\ UNCHANGED <<world, file, starts, shown, failure, identity, damaged, verdict,
                 expected>>

\* set_configured_codec reads the file again.
\* Mutant: the new text is written over the old one, without truncating it.
SetEncoderMutant(p) ==
  /\ At(p) = "loaded" /\ proc[p].job = "set"
  /\ proc' = [proc EXCEPT ![p].at = "write",
                          ![p].text = RewriteCodec(file, proc[p].arg)]
  /\ UNCHANGED <<world, file, starts, shown, failure, identity, damaged, said>>
SetEncoder(p) ==
  /\ At(p) = "loaded" /\ proc[p].job = "set"
  /\ proc' = [proc EXCEPT ![p].at = "setTruncate",
                          ![p].text = RewriteCodec(file, proc[p].arg)]
  /\ UNCHANGED <<world, file, starts, shown, failure, identity, damaged, said>>

SetWrite(p) ==
  /\ At(p) = "setWrite"
  /\ file' = proc[p].text
  /\ GoTo(p, "off")
  /\ verdict' = "none"
  /\ expected' = IF proc[p].arg \in offered THEN proc[p].arg ELSE "none"
  /\ UNCHANGED <<world, starts, shown, failure, identity, damaged, offered>>

-----------------------------------------------------------------------------
(* The daemon. *)

ChosenBackend == ResolvedEncodeBackend(Cfg("daemon"), platform, hw)

\* The backend is chosen once, for every session of this daemon.
ResolveBackend ==
  /\ At("daemon") = "loaded"
  /\ LET works == ChosenBackend # NoBackend
     IN /\ failure' = IF works THEN "none" ELSE "encoder"
        /\ GoTo("daemon", IF works THEN "advertise" ELSE "off")
  /\ UNCHANGED <<world, file, starts, shown, identity, damaged, said>>

\* pairing::advertise; without mDNS the daemon gives up.
Advertise ==
  /\ At("daemon") = "advertise"
  /\ GoTo("daemon", "address") \/ GoTo("daemon", "off")
  /\ UNCHANGED <<world, file, starts, shown, failure, identity, damaged, said>>

\* resolved_ip, render_connect_info and the threads started after them.
ResolveAddress ==
  /\ At("daemon") = "address"
  /\ LET a == ResolvedIp(Cfg("daemon"))
     IN IF a = "" THEN /\ failure' = "address"
                       /\ GoTo("daemon", "off")
                       /\ UNCHANGED shown
                  ELSE /\ shown' = a
                       /\ GoTo("daemon", "serving")
                       /\ UNCHANGED failure
  /\ UNCHANGED <<world, file, starts, identity, damaged, said>>

\* The address is watched when the configured one is blank, spaces included.
\* Mutant: only when it is empty, as resolved_ip has it.
WatchesMutant == Cfg("daemon").ip = ""
Watches == Cfg("daemon").ip \in {"", " "}

WatchAddress ==
  /\ At("daemon") = "serving" /\ Watches
  /\ addr # "" /\ addr # shown
  /\ shown' = addr
  /\ UNCHANGED <<world, file, starts, proc, failure, identity, damaged, said>>

-----------------------------------------------------------------------------
(* The environment. *)

\* A process ends or is killed.
Kill(p) ==
  /\ At(p) # "off"
  /\ damaged' = (damaged \/ At(p) \in {"write", "setWrite"})
  /\ GoTo(p, "off")
  /\ UNCHANGED <<world, file, starts, shown, failure, identity, said>>

WorldChanges ==
  /\ changes < MaxChange
  /\ changes' = changes + 1
  /\ \/ hw' \in Hardware \ {hw} /\ UNCHANGED addr
     \/ addr' \in Address \ {addr} /\ UNCHANGED hw
  /\ verdict' = "none" /\ offered' = {} /\ expected' = "none"
  /\ UNCHANGED <<platform, file, starts, proc, shown, failure, identity, damaged>>

-----------------------------------------------------------------------------
Next ==
  \/ \E p \in Proc :
       \/ \E j \in {"serve", "doctor", "list"} : Start(p, j, AutoCodec)
       \/ \E c \in Chosen : Start(p, "set", c)
       \/ Load(p) \/ Truncate(p) \/ Write(p)
       \/ Doctor(p) \/ ListEncoders(p) \/ SetEncoder(p) \/ SetWrite(p)
       \/ Kill(p)
  \/ ResolveBackend \/ Advertise \/ ResolveAddress \/ WatchAddress
  \/ WorldChanges

Spec == Init /\ [][Next]_vars /\ WF_vars(WatchAddress)

-----------------------------------------------------------------------------
(* Properties. *)

Writing == \E p \in Proc : At(p) \in {"write", "setWrite"}

\* The secrets are generated once and persist forever: when a load has been
\* completed, the file parses and holds what that load returned, whatever
\* commands ran since, unless one of them was killed in the middle of a write;
\* and no two processes ever work with different secrets, not even after a
\* crash, so that a phone that paired once is not locked out by a restart
\* (HostConfig::load, PairingSection).
PersistForever ==
  /\ identity # NoOne /\ ~damaged /\ ~Writing =>
       Parses(file) /\ Credentials(Parse(file)) = identity
  /\ \A p \in Proc : At(p) \notin {"off", "load", "truncate", "write"}
       /\ Cfg(p) # NoCfg => Credentials(Cfg(p)) = identity

\* Of a machine that --doctor calls healthy, the daemon does not find while it
\* starts that it has no configuration, no encoder or no address, as long as
\* nothing changed.
DoctorPredicts ==
  [][verdict = "healthy" /\ ~damaged => failure' \in {failure, "none"}]_vars

\* An encoder that --list-encoders found to work and --set-encoder then pinned
\* is the one the next start uses, if the hardware is still the same.
PinIsHonoured ==
  expected # "none" /\ At("daemon") = "loaded" /\ ~damaged
    => ChosenBackend.codec = expected

\* The pairing info follows the address of the machine when no address is
\* configured (watch_address).
PairingInfoFollows ==
  \A a \in Address \ {""} :
    (At("daemon") = "serving" /\ Cfg("daemon").ip \in {"", " "} /\ addr = a)
      ~> (shown = a \/ addr # a \/ At("daemon") # "serving")
=============================================================================
