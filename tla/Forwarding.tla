------------------------------ MODULE Forwarding ------------------------------
(****************************************************************************)
(* The bytes of one attachment (struct Attachment and connect of            *)
(* src/src/session.rs; copy_observed and forward_client_chunk of            *)
(* src/src/supervisor.rs): the input copier, the output copier and the      *)
(* owner, which writes frames of its own to the proxy's pipe and ends the   *)
(* attachment.                                                              *)
(*                                                                          *)
(* External: the client, which may stop reading or hang up at any time; the *)
(* proxy, which relays nothing to the server while a reply does not fit     *)
(* into its output pipe and dies of a write to a closed one; and the        *)
(* server, which keeps reading.                                             *)
(****************************************************************************)
EXTENDS WireBuffer

CONSTANTS
    Resume, Own,  \* letters: a thread/resume of the client's, an unsubscribe of the owner's
    Streams,     \* the sequences of frames a client may send
    MaxOwn       \* bound: frames of the owner

\* A client's fragments: every message that is begun ends before the next one begins.
OpenAfter(fs) ==
    LET begun == {i \in DOMAIN fs : fs[i].kind = "start"}
    IN  begun # {} /\ \A i \in DOMAIN fs : fs[i].kind = "last" => i < Max(begun)

\* It opens with a handshake or sends lines, and fragments its messages as the protocol asks;
\* it may still send what the observer does not read.  Its ids are not the owner's.
IsStream(fs) ==
    \A i \in DOMAIN fs :
        /\ fs[i].kind # "line" => Len(fs[i].payload) <= MaxWire
        /\ \A k \in DOMAIN fs[i].payload : fs[i].payload[k] # Letter(Own)
        /\ fs[i].kind = "handshake" <=> i = 1 /\ fs[1].kind # "line"
        /\ fs[1].kind = "line" <=> fs[i].kind = "line"
        /\ fs[i].kind \in {"more", "last"} => OpenAfter(SubSeq(fs, 1, i - 1))
        /\ fs[i].kind \in {"text", "start", "long"} => ~OpenAfter(SubSeq(fs, 1, i - 1))

ASSUME ForwardingAssumption ==
    /\ {Resume, Own} \subseteq Letters /\ Resume # Own
    /\ \A s \in Streams : s \in Seq(Frames) /\ IsStream(s)
    /\ MaxOwn \in Nat

VARIABLES
    sent,      \* the frames the client sends
    socket,    \* their units the input copier has still to read
    taken,     \* units of the client's it has observed
    chunk,     \* what it has read and not written yet
    inputPc,
    attempts,  \* resume_attempts
    prepared,  \* resume attempts handed to the takeover
    wire,      \* client_wire
    gate,
    ownerPc,
    injected,  \* frames of the owner's observed
    spoiled,   \* history: one of them was put inside a frame or a line of the client's
    full,      \* the proxy's input pipe is full
    written,   \* history: units written to that pipe
    relay,     \* the proxy is running
    reply,     \* the proxy's output pipe is full
    outputPc,
    shut       \* the attachment's stream is shut down

input == <<taken, chunk, inputPc, attempts, prepared>>
owner == <<ownerPc, injected, spoiled, shut>>
output == <<reply, outputPc>>
vars == <<sent, socket, input, wire, gate, owner, full, written, relay, output>>

ClientUnits == FlattenSeq([i \in DOMAIN sent |-> Encode(sent[i])])

\* How many of the client's frames are complete in the first n units it sent.
Complete(n) ==
    Cardinality({i \in DOMAIN sent :
        Len(FlattenSeq([j \in 1..i |-> Encode(sent[j])])) <= n})

TypeOK ==
    /\ sent \in Streams
    /\ socket \in Seq(Units) /\ chunk \in Seq(Units)
    /\ taken + Len(socket) + (IF inputPc = "gate" THEN Len(chunk) ELSE 0) = Len(ClientUnits)
    /\ inputPc \in {"read", "gate", "prepare", "write", "ended"}
    /\ wire \in Wires /\ attempts \in Nat /\ prepared \in Nat
    /\ gate \in {"free", "input", "owner"} /\ spoiled \in BOOLEAN
    /\ ownerPc \in {"loop", "write", "join input", "join output", "detached"}
    /\ injected \in 0..MaxOwn /\ full \in BOOLEAN /\ written \in Seq(Units)
    /\ relay \in BOOLEAN /\ shut \in BOOLEAN
    /\ reply \in BOOLEAN /\ outputPc \in {"read", "write", "ended"}

Init ==
    /\ sent \in Streams /\ socket = ClientUnits /\ taken = 0 /\ chunk = <<>> /\ inputPc = "read"
    /\ attempts = 0 /\ prepared = 0 /\ wire = Fresh /\ gate = "free"
    /\ ownerPc = "loop" /\ injected = 0 /\ spoiled = FALSE
    /\ full = FALSE /\ written = <<>> /\ relay = TRUE
    /\ reply = FALSE /\ outputPc = "read" /\ shut = FALSE

-----------------------------------------------------------------------------
(* The input copier.                                                        *)

\* What is read ends anywhere; a client that has hung up reads as the end of the stream.
Read ==
    /\ inputPc = "read"
    /\ \/ \E n \in 1..Len(socket) :
             /\ chunk' = SubSeq(socket, 1, n)
             /\ socket' = SubSeq(socket, n + 1, Len(socket))
             /\ inputPc' = "gate"
       \/ inputPc' = "ended" /\ UNCHANGED <<chunk, socket>>
    /\ UNCHANGED <<sent, taken, attempts, prepared, wire, gate, owner, full, written, relay, output>>

ReadShut ==
    /\ inputPc = "read" /\ shut
    /\ inputPc' = "ended"
    /\ UNCHANGED <<sent, socket, taken, chunk, attempts, prepared, wire, gate, owner, full,
                   written, relay, output>>

\* A message that another one's bytes were mixed into is no JSON.
Readable(m) == \A i \in DOMAIN m : m[i][1] = "letter"

IsResume(m) == m # <<>> /\ m[1] = Letter(Resume) /\ Readable(m)

Resumes(messages) == Cardinality({i \in DOMAIN messages : IsResume(messages[i])})

\* observe: what is decoded may hold requests to resume a thread.
ObserveUnits(units) ==
    /\ wire' = Feed(wire, units)
    /\ attempts' = attempts + Resumes(wire'.messages) - Resumes(wire.messages)

\* Mutant: the takeovers wait until the next chunk.
ObserveUnprepared ==
    /\ inputPc = "gate" /\ gate = "free"
    /\ gate' = "input"
    /\ ObserveUnits(chunk)
    /\ taken' = taken + Len(chunk)
    /\ inputPc' = "write"
    /\ UNCHANGED <<sent, socket, chunk, prepared, owner, full, written, relay, output>>

\* The chunk is observed behind the gate before any of it is written.
Observe ==
    /\ inputPc = "gate" /\ gate = "free"
    /\ gate' = "input"
    /\ ObserveUnits(chunk)
    /\ taken' = taken + Len(chunk)
    /\ inputPc' = IF attempts' = 0 THEN "write" ELSE "prepare"
    /\ UNCHANGED <<sent, socket, chunk, prepared, owner, full, written, relay, output>>

\* take_resume_attempts, and a takeover for each.
Prepare ==
    /\ inputPc = "prepare"
    /\ prepared' = prepared + attempts /\ attempts' = 0
    /\ inputPc' = "write"
    /\ UNCHANGED <<sent, socket, taken, chunk, wire, gate, owner, full, written, relay, output>>

\* A write to the proxy's pipe waits while the pipe is full, and fails when the proxy is dead.
Pipe(units) ==
    \/ relay /\ ~full /\ full' = TRUE /\ written' = written \o units
    \/ ~relay /\ UNCHANGED <<full, written>>

WriteChunk ==
    /\ inputPc = "write" /\ Pipe(chunk)
    /\ inputPc' = IF relay THEN "read" ELSE "ended"
    /\ gate' = "free" /\ chunk' = <<>>
    /\ UNCHANGED <<sent, socket, taken, attempts, prepared, wire, owner, relay, output>>

-----------------------------------------------------------------------------
(* The output copier.                                                       *)

ReadReply ==
    /\ outputPc = "read"
    /\ \/ reply /\ reply' = FALSE /\ outputPc' = "write"
       \/ ~reply /\ ~relay /\ outputPc' = "ended" /\ UNCHANGED reply
    /\ UNCHANGED <<sent, socket, input, wire, gate, owner, full, written, relay>>

\* The client reads what is written.
WriteReply ==
    /\ outputPc = "write" /\ ~shut
    /\ outputPc' = "read"
    /\ UNCHANGED <<sent, socket, input, wire, gate, owner, full, written, relay, reply>>

\* Mutant: no write timeout.
WriteFailsShut ==
    /\ outputPc = "write" /\ shut
    /\ outputPc' = "ended"
    /\ UNCHANGED <<sent, socket, input, wire, gate, owner, full, written, relay, reply>>

\* set_write_timeout: a write the client does not read fails, as does one to a stream shut down.
WriteFails ==
    /\ outputPc = "write"
    /\ outputPc' = "ended"
    /\ UNCHANGED <<sent, socket, input, wire, gate, owner, full, written, relay, reply>>

-----------------------------------------------------------------------------
(* The owner.                                                               *)

OwnFrame == Frame("text", <<Letter(Own)>>)

\* The client's last chunk ended with a frame, which the code does not ask.
Boundary ==
    /\ sent # <<>> /\ sent[1].kind = "handshake"
    /\ \E n \in 1..Len(sent) : taken = Len(FlattenSeq([j \in 1..n |-> Encode(sent[j])]))

\* Mutant: the owner does not look at the gate.
UnsubscribeUngated ==
    /\ ownerPc = "loop" /\ injected < MaxOwn /\ ~shut
    /\ gate' = "owner"
    /\ ObserveUnits(Encode(OwnFrame))
    /\ injected' = injected + 1
    /\ spoiled' = (spoiled \/ ~Boundary)
    /\ ownerPc' = "write"
    /\ UNCHANGED <<sent, socket, taken, chunk, inputPc, prepared, full, written, relay, output, shut>>

\* unsubscribe_idle_threads: once the runtime is idle the owner observes its frame and writes it.
Unsubscribe ==
    /\ ownerPc = "loop" /\ gate = "free" /\ injected < MaxOwn /\ ~shut
    /\ gate' = "owner"
    /\ ObserveUnits(Encode(OwnFrame))
    /\ injected' = injected + 1
    /\ spoiled' = (spoiled \/ ~Boundary)
    /\ ownerPc' = "write"
    /\ UNCHANGED <<sent, socket, taken, chunk, inputPc, prepared, full, written, relay, output, shut>>

WriteFrame ==
    /\ ownerPc = "write" /\ Pipe(Encode(OwnFrame))
    /\ ownerPc' = "loop" /\ gate' = "free"
    /\ UNCHANGED <<sent, socket, input, wire, injected, spoiled, relay, output, shut>>

\* Mutant: the stream is not shut down.
DropOpen ==
    /\ ownerPc = "loop"
    /\ relay' = FALSE
    /\ ownerPc' = "join input"
    /\ UNCHANGED <<sent, socket, input, wire, gate, injected, spoiled, shut, full, written, output>>

\* Attachment::drop, once a copier or the proxy has ended, or when the session ends.
Drop ==
    /\ ownerPc = "loop"
    /\ shut' = TRUE /\ relay' = FALSE
    /\ ownerPc' = "join input"
    /\ UNCHANGED <<sent, socket, input, wire, gate, injected, spoiled, full, written, output>>

JoinInput ==
    /\ ownerPc = "join input" /\ inputPc = "ended"
    /\ ownerPc' = "join output"
    /\ UNCHANGED <<sent, socket, input, wire, gate, injected, spoiled, shut, full,
                   written, relay, output>>

JoinOutput ==
    /\ ownerPc = "join output" /\ outputPc = "ended"
    /\ ownerPc' = "detached"
    /\ UNCHANGED <<sent, socket, input, wire, gate, injected, spoiled, shut, full,
                   written, relay, output>>

Lost == inputPc = "ended" \/ outputPc = "ended" \/ ~relay

-----------------------------------------------------------------------------
(* The proxy and the server.                                                *)

Relay ==
    /\ relay /\ full /\ ~reply
    /\ full' = FALSE
    /\ UNCHANGED <<sent, socket, input, wire, gate, owner, written, relay, output>>

Reply ==
    /\ relay /\ ~reply
    /\ reply' = TRUE
    /\ UNCHANGED <<sent, socket, input, wire, gate, owner, full, written, relay, outputPc>>

\* It dies of a write to the closed pipe, or for reasons of its own.
ProxyDies ==
    /\ relay /\ relay' = FALSE
    /\ UNCHANGED <<sent, socket, input, wire, gate, owner, full, written, output>>

BrokenPipe == outputPc = "ended" /\ reply /\ ProxyDies

-----------------------------------------------------------------------------

Next ==
    \/ Read \/ ReadShut \/ Observe \/ Prepare \/ WriteChunk
    \/ ReadReply \/ WriteReply \/ WriteFails
    \/ Unsubscribe \/ WriteFrame \/ Drop \/ JoinInput \/ JoinOutput
    \/ Relay \/ Reply \/ ProxyDies

\* The threads are scheduled and a blocked write times out; the proxy relays what it can and
\* dies of a broken pipe.  Neither the client nor the server owes anything.
Fairness ==
    /\ WF_vars(ReadShut) /\ WF_vars(Observe) /\ WF_vars(Prepare) /\ WF_vars(WriteChunk)
    /\ WF_vars(ReadReply) /\ WF_vars(WriteFails)
    /\ WF_vars(WriteFrame) /\ WF_vars(Lost /\ Drop) /\ WF_vars(JoinInput) /\ WF_vars(JoinOutput)
    /\ SF_vars(Relay) /\ WF_vars(BrokenPipe)

Spec == Init /\ [][Next]_vars /\ Fairness

-----------------------------------------------------------------------------

\* A frame that the observer does not read, that fits only when its last unit arrives in time,
\* or with which a message is too long.
Unread(i) ==
    \/ sent[i].kind \in {"reserved", "unknown", "long"}
    \/ Len(Encode(sent[i])) - 1 > MaxWire
    \/ Len(Text(sent, i)) > MaxWire

\* The messages but for the owner's.
Others(messages) ==
    FlattenSeq([i \in DOMAIN messages |->
        IF messages[i] = <<Letter(Own)>> THEN <<>> ELSE <<messages[i]>>])

\* Whatever the chunks, an observer without failures has read the client's messages as the
\* client meant them, and the owner's own.
ReadsWhatIsMeant ==
    wire.failures = 0 /\ ~spoiled =>
        /\ Others(wire.messages) = Meant(SubSeq(sent, 1, Complete(taken)))
        /\ Len(wire.messages) = Len(Meant(SubSeq(sent, 1, Complete(taken)))) + injected

\* Reliability is lost only to what the observer does not read: the chunks do not matter.
FailsForCause ==
    wire.failures > 0 => spoiled \/ \E i \in DOMAIN sent : Unread(i)

\* What the server reads, the observer has read before, in the same order, also where an
\* unsubscribe frame was put into the middle of a message.
AheadOfServer ==
    wire.failures = 0 => IsPrefix(Feed(Fresh, written).messages, wire.messages)

\* The server gets no thread/resume that was not handed to the takeover first.
ResumeIsPrepared ==
    wire.failures = 0 => Resumes(Feed(Fresh, written).messages) <= prepared

\* A client that does not read cannot keep the owner: its write to the proxy ends, although
\* it has no timeout.
OwnerReturns == ownerPc = "write" ~> ownerPc # "write"

\* An attachment that has lost a copier or its proxy is detached: both copiers are joined.
Detaches == Lost ~> ownerPc = "detached"

=============================================================================
