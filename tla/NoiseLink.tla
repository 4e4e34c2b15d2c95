------------------------------ MODULE NoiseLink ------------------------------
(***************************************************************************)
(* The encrypted connection between the host and a client: the Noise       *)
(* handshake, the Hello exchange, and messages cut into chunks, encrypted, *)
(* written, read, decrypted and put together again, in both directions at  *)
(* once (palmtop-proto/src/noise.rs, send_encrypted and recv_encrypted of  *)
(* palmtopd/src/session.rs).                                               *)
(*                                                                         *)
(* Encryption is its nonce: a chunk can be decrypted only as the one that  *)
(* is due.  A chunk is the stretch from+1 .. upto of message number msg,   *)
(* whose first HeaderLen bytes are its length.  TCP loses nothing until    *)
(* the connection is cut, which may be inside a frame.                     *)
(***************************************************************************)
EXTENDS Naturals, Sequences

CONSTANTS
  Sizes,        \* the lengths serialized messages have
  ChunkMax,     \* CHUNK_MAX
  TagLen,       \* what encryption adds to a chunk
  NoiseMsgMax,  \* NOISE_MSG_MAX
  Window,       \* frames one direction of the connection holds
  MaxSent       \* bound: messages an end sends

HeaderLen == 4  \* the length field in front of a message

LinkAssumption ==
  /\ Sizes \subseteq Nat \ {0}
  /\ ChunkMax \in Nat /\ ChunkMax >= HeaderLen
  /\ TagLen \in Nat
  /\ NoiseMsgMax \in Nat /\ ChunkMax + TagLen <= NoiseMsgMax
  /\ Window \in Nat \ {0}
  /\ MaxSent \in Nat
ASSUME LinkAssumption

VARIABLES
  welcome,   \* the token and the version of the client are right
  link,      \* "open", "closed" by an end, or "cut"
  turns,     \* turns[e]: handshake messages e has written or read
  sent,      \* sent[e]: lengths of the messages e has begun to send
  frames,    \* frames[e]: encrypted frames e has still to write
  wire,      \* wire[e]: frames e has written and its peer has not read
  half,      \* half[e]: after the cut wire[e] ends with part of a frame
  nOut,      \* the next nonce e encrypts with
  nIn,       \* the next nonce e decrypts with
  reader,    \* "waiting", "framed", "locked", "clean" or "error"
  cbuf,      \* the frame the reader has in hand
  acc,       \* the reassembler's total_len, bytes so far, and of what
  received   \* numbers of the messages that arrived; 0 is none that was sent

out == <<sent, frames, nOut>>
in  == <<nIn, reader, cbuf, acc, received>>
vars == <<welcome, link, turns, out, wire, half, in>>

End == {"host", "client"}
Peer(e) == IF e = "host" THEN "client" ELSE "host"

Frame == [nonce : Nat, msg : Nat, from : Nat, upto : Nat]
\* A frame that is no chunk: a message of the handshake, or what is left of a
\* frame when its beginning has been consumed.
NoChunk == [nonce |-> 0, msg |-> 0, from |-> 0, upto |-> 0]
Nothing == [want |-> 0, got |-> 0, of |-> 0]

TypeOK ==
  /\ welcome \in BOOLEAN
  /\ link \in {"open", "closed", "cut"}
  /\ turns \in [End -> 0..2]
  /\ sent \in [End -> Seq(Sizes)]
  /\ frames \in [End -> Seq(Frame)]
  /\ wire \in [End -> Seq(Frame)]
  /\ half \in [End -> BOOLEAN]
  /\ nOut \in [End -> Nat]
  /\ nIn \in [End -> Nat]
  /\ reader \in [End -> {"waiting", "framed", "locked", "clean", "error"}]
  /\ cbuf \in [End -> Frame]
  /\ acc \in [End -> [want : Nat, got : Nat, of : Nat]]
  /\ received \in [End -> Seq(Nat)]

Init ==
  /\ welcome \in BOOLEAN
  /\ link = "open"
  /\ turns = [e \in End |-> 0]
  /\ sent = [e \in End |-> <<>>]
  /\ frames = [e \in End |-> <<>>]
  /\ wire = [e \in End |-> <<>>]
  /\ half = [e \in End |-> FALSE]
  /\ nOut = [e \in End |-> 0]
  /\ nIn = [e \in End |-> 0]
  /\ reader = [e \in End |-> "waiting"]
  /\ cbuf = [e \in End |-> NoChunk]
  /\ acc = [e \in End |-> Nothing]
  /\ received = [e \in End |-> <<>>]

-----------------------------------------------------------------------------
(* The handshake. *)

\* is_my_turn: the initiator writes the first message, the responder the second.
\* Mutant: by parity, without regard to is_handshake_finished.
IsMyTurnMutant(e) == turns[e] % 2 = IF e = "client" THEN 0 ELSE 1
IsMyTurn(e) == turns[e] = IF e = "client" THEN 0 ELSE 1

HandshakeWrite(e) ==
  /\ link = "open"
  /\ IsMyTurn(e)
  /\ wire' = [wire EXCEPT ![e] = Append(@, NoChunk)]
  /\ turns' = [turns EXCEPT ![e] = @ + 1]
  /\ UNCHANGED <<welcome, link, out, half, in>>

\* run_handshake reads its frame exactly, and nothing of what may follow it.
HandshakeRead(e) ==
  /\ turns[e] < 2 /\ ~IsMyTurn(e)
  /\ wire[Peer(e)] # <<>>
  /\ wire' = [wire EXCEPT ![Peer(e)] = Tail(@)]
  /\ turns' = [turns EXCEPT ![e] = @ + 1]
  /\ UNCHANGED <<welcome, link, out, half, in>>

-----------------------------------------------------------------------------
(* Sending. *)

\* chunks(CHUNK_MAX) of the message k with its length in front.
\* Mutant: the length field is forgotten when the chunks are counted.
ChunkCountMutant(n) == (n + ChunkMax - 1) \div ChunkMax
ChunkCount(n) == (HeaderLen + n + ChunkMax - 1) \div ChunkMax
Chunk(k, n, i) ==
  [nonce |-> 0, msg |-> k, from |-> (i - 1) * ChunkMax,
   upto |-> IF i * ChunkMax < HeaderLen + n THEN i * ChunkMax
                                            ELSE HeaderLen + n]
ChunkAndEncrypt(k, n, nonce) ==
  [i \in 1..ChunkCount(n) |-> [Chunk(k, n, i) EXCEPT !.nonce = nonce + i - 1]]

\* Hello, or HelloAck, has been written.
Greeted(e) == Len(sent[e]) > 1 \/ (Len(sent[e]) = 1 /\ frames[e] = <<>>)

\* Mutant: the writer does not wait for the other thread that sends.
MaySendMutant(e) ==
  /\ turns[e] = 2
  /\ IF e = "client" THEN sent[e] = <<>> \/ (received[e] # <<>> /\ welcome)
                     ELSE received[e] # <<>> /\ (sent[e] = <<>> \/ welcome)

\* One thread of an end sends at a time: the one that does the handshake,
\* then the writer.  The client speaks first; the host answers; after that
\* both send what they like, unless the client was refused.
MaySend(e) ==
  /\ turns[e] = 2
  /\ frames[e] = <<>>
  /\ IF e = "client" THEN sent[e] = <<>> \/ (received[e] # <<>> /\ welcome)
                     ELSE received[e] # <<>> /\ (sent[e] = <<>> \/ welcome)

\* The reader has the lock on the Noise state: while it decrypts, not while
\* it waits for a frame.
\* Mutant: send and recv as one call under the lock, as the first version did.
ReaderHoldsNoiseMutant(e) ==
  reader[e] = "locked" \/ (reader[e] = "waiting" /\ Greeted(e))
ReaderHoldsNoise(e) == reader[e] = "locked"

\* send_encrypted up to its first write: the message is encrypted as a whole,
\* under the lock.
SendEncrypted(e, n) ==
  /\ link = "open"
  /\ reader[e] \notin {"clean", "error"}
  /\ MaySend(e)
  /\ ~ReaderHoldsNoise(e)
  /\ Len(sent[e]) < MaxSent
  /\ sent' = [sent EXCEPT ![e] = Append(@, n)]
  /\ frames' = [frames EXCEPT ![e] =
                  ChunkAndEncrypt(Len(sent[e]) + 1, n, nOut[e]) \o @]
  /\ nOut' = [nOut EXCEPT ![e] = @ + ChunkCount(n)]
  /\ UNCHANGED <<welcome, link, turns, wire, half, in>>

WriteFrame(e) ==
  /\ link = "open"
  /\ frames[e] # <<>>
  /\ Len(wire[e]) < Window
  /\ wire' = [wire EXCEPT ![e] = Append(@, Head(frames[e]))]
  /\ frames' = [frames EXCEPT ![e] = Tail(@)]
  /\ UNCHANGED <<welcome, link, turns, sent, nOut, half, in>>

-----------------------------------------------------------------------------
(* Receiving. *)

\* The client reads once its Hello is out.  The host reads the Hello, and goes
\* on when it has welcomed the client.
Reads(e) ==
  /\ turns[e] = 2
  /\ reader[e] = "waiting"
  /\ IF e = "client" THEN Greeted(e)
                     ELSE received[e] = <<>> \/ (Greeted(e) /\ welcome)

\* The length of a frame is checked before the frame is read.
ReadOneFrame(e) ==
  /\ Reads(e)
  /\ wire[Peer(e)] # <<>>
  /\ wire' = [wire EXCEPT ![Peer(e)] = Tail(@)]
  /\ LET f == Head(wire[Peer(e)])
         fits == f.msg # 0 /\ f.upto - f.from + TagLen <= NoiseMsgMax
     IN /\ cbuf' = [cbuf EXCEPT ![e] = IF fits THEN f ELSE NoChunk]
        /\ reader' = [reader EXCEPT ![e] = IF fits THEN "framed" ELSE "error"]
  /\ UNCHANGED <<welcome, link, turns, out, half, nIn, acc, received>>

\* The end of the stream.  A cut inside the length field passes for one at a
\* boundary: read_exact reports both as UnexpectedEof.
ReadEnd(e) ==
  /\ Reads(e)
  /\ link # "open"
  /\ wire[Peer(e)] = <<>>
  /\ reader' = [reader EXCEPT ![e] = IF half[Peer(e)] THEN "error" ELSE "clean"]
  /\ UNCHANGED <<welcome, link, turns, out, wire, half, nIn, cbuf, acc, received>>

TakeNoise(e) ==
  /\ reader[e] = "framed"
  /\ reader' = [reader EXCEPT ![e] = "locked"]
  /\ UNCHANGED <<welcome, link, turns, out, wire, half, nIn, cbuf, acc, received>>

\* Reassembler::push.  The first chunk brings the length; if it is not the
\* beginning of a message, payload is taken for a length, here 0.
Push(e, f) ==
  IF acc[e] = Nothing
  THEN [want |-> IF f.from = 0 THEN sent[Peer(e)][f.msg] ELSE 0,
        got  |-> f.upto - f.from - HeaderLen,
        of   |-> IF f.from = 0 THEN f.msg ELSE 0]
  ELSE [want |-> acc[e].want,
        got  |-> acc[e].got + (f.upto - f.from),
        of   |-> IF acc[e].of = f.msg THEN f.msg ELSE 0]

Complete(a) == a.got >= a.want

\* decrypt_chunk and push, under the lock.  The nonce must be the one that is
\* due, and a first chunk must hold a length.  What is handed on with less
\* than its length is no message that was sent.
DecryptChunk(e) ==
  /\ reader[e] = "locked"
  /\ cbuf' = [cbuf EXCEPT ![e] = NoChunk]
  /\ LET f == cbuf[e]
         a == Push(e, f)
         m == IF a.got = a.want THEN a.of ELSE 0
     IN IF f.nonce # nIn[e] \/ (acc[e] = Nothing /\ f.upto - f.from < HeaderLen)
        THEN /\ reader' = [reader EXCEPT ![e] = "error"]
             /\ UNCHANGED <<nIn, acc, received>>
        ELSE /\ reader' = [reader EXCEPT ![e] = "waiting"]
             /\ nIn' = [nIn EXCEPT ![e] = @ + 1]
             /\ IF Complete(a)
                THEN /\ received' = [received EXCEPT ![e] = Append(@, m)]
                     /\ acc' = [acc EXCEPT ![e] = Nothing]
                ELSE /\ acc' = [acc EXCEPT ![e] = a]
                     /\ UNCHANGED received
  /\ UNCHANGED <<welcome, link, turns, out, wire, half>>

-----------------------------------------------------------------------------
(* Ends and faults. *)

\* handshake returns an error once a refusal has been written; the client
\* gives up when it has read it.
\* Mutant: the host closes as soon as it knows, before it has told.
CloseRefusedMutant(e) ==
  /\ link = "open"
  /\ ~welcome
  /\ received[e] # <<>>
  /\ link' = "closed"
  /\ UNCHANGED <<welcome, turns, out, wire, half, in>>
CloseRefused(e) ==
  /\ link = "open"
  /\ ~welcome
  /\ IF e = "host" THEN Greeted(e) ELSE received[e] # <<>>
  /\ link' = "closed"
  /\ UNCHANGED <<welcome, turns, out, wire, half, in>>

\* The connection breaks: what is under way is lost from some point on.
Cut ==
  /\ link = "open"
  /\ link' = "cut"
  /\ frames' = [e \in End |-> <<>>]
  /\ \E kept \in [End -> 0..Window] :
       /\ \A e \in End : kept[e] <= Len(wire[e])
       /\ wire' = [e \in End |-> SubSeq(wire[e], 1, kept[e])]
       /\ half' \in [End -> BOOLEAN]
       /\ \A e \in End : half'[e] => kept[e] < Len(wire[e]) \/ frames[e] # <<>>
  /\ UNCHANGED <<welcome, turns, sent, nOut, in>>

\* recv of the test client gives up after its read timeout and is called
\* again: with a new Reassembler, and perhaps behind the beginning of a frame.
ReadTimesOut(e) ==
  /\ e = "client"
  /\ Reads(e) /\ received[e] # <<>>
  /\ acc' = [acc EXCEPT ![e] = Nothing]
  /\ \/ UNCHANGED wire
     \/ /\ wire[Peer(e)] # <<>>
        /\ wire' = [wire EXCEPT ![Peer(e)] = <<NoChunk>> \o Tail(@)]
  /\ UNCHANGED <<welcome, link, turns, out, half, nIn, reader, cbuf, received>>

-----------------------------------------------------------------------------
Receiver(e) == ReadOneFrame(e) \/ ReadEnd(e) \/ TakeNoise(e) \/ DecryptChunk(e)
Handshake(e) == HandshakeWrite(e) \/ HandshakeRead(e)
Sender(e) == \E n \in Sizes : SendEncrypted(e, n)

Next ==
  \/ \E e \in End :
       \/ HandshakeWrite(e) \/ HandshakeRead(e)
       \/ \E n \in Sizes : SendEncrypted(e, n)
       \/ WriteFrame(e)
       \/ ReadOneFrame(e) \/ ReadEnd(e) \/ TakeNoise(e) \/ DecryptChunk(e)
       \/ CloseRefused(e)
  \/ Cut

\* Every thread is scheduled, and always has something to send: pings and
\* input on one side, frames and pongs on the other.
Fairness ==
  \A e \in End : /\ WF_vars(Handshake(e)) /\ WF_vars(Sender(e))
                 /\ WF_vars(WriteFrame(e)) /\ WF_vars(Receiver(e))

Spec == Init /\ [][Next]_vars /\ Fairness

\* The same with a client that tries a read again after its timeout.
RetrySpec == Init /\ [][Next \/ \E e \in End : ReadTimesOut(e)]_vars

-----------------------------------------------------------------------------
(* Properties. *)

\* Whatever the two directions do to the shared Noise state, and wherever the
\* connection breaks, what an end receives is a prefix of what was sent:
\* complete messages, once and in order (chunk_and_encrypt, Reassembler).
InOrder == \A e \in End : /\ Len(received[e]) <= Len(sent[Peer(e)])
                          /\ \A i \in 1..Len(received[e]) : received[e][i] = i

\* Between honest ends a frame is never out of range, a chunk never fails to
\* decrypt and a handshake is never mistaken for data: an error means that
\* the connection broke (read_one_frame, decrypt_chunk).
OnlyACutIsAnError == \A e \in End : reader[e] = "error" => link = "cut"

\* The link implements the queue of messages: each step is one of a send, a
\* delivery or a closing, or is not visible.
Queue == INSTANCE MessageQueue
           WITH link <- IF link = "open" THEN "open" ELSE "closed"
Implements == Queue!Spec

\* Both ends get everything across, unless the connection is closed: the
\* reader of an end does not keep its writer from sending, nor do two full
\* directions keep each other waiting (send_encrypted and recv_encrypted, which
\* must not hold the lock over I/O).
EverythingArrives ==
  welcome ~> ((\A e \in End : Len(received[e]) = MaxSent) \/ link # "open")

\* A client that is refused reads the HelloAck that says why, unless the
\* connection broke first (handshake in session.rs).
RefusalIsHeard ==
  (~welcome /\ sent["host"] # <<>>)
    ~> (received["client"] = <<1>> \/ link = "cut")

\* A read that times out in the test client loses nothing: while the
\* connection is up it reads on, and reads what was sent.
TimeoutIsHarmless == link = "open" => reader["client"] # "error" /\ InOrder
=============================================================================
