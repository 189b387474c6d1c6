------------------------------ MODULE WireBuffer ------------------------------
(****************************************************************************)
(* The incremental decoder of one direction of the wire (struct WireBuffer  *)
(* of src/src/protocol.rs), as operators on a record, and what a peer that  *)
(* encodes frames means by them.                                            *)
(*                                                                          *)
(* A stream is a sequence of units, cut into chunks anywhere.  The bytes    *)
(* "GET " are two units and the end of the handshake one; a frame is a unit *)
(* for its first byte, a unit for its length and mask, and its payload.     *)
(****************************************************************************)
EXTENDS Naturals, SequencesExt

CONSTANTS
    MaxWire,  \* MAX_WIRE_BUFFER
    Letters   \* what a payload is made of

ASSUME WireAssumption == MaxWire \in Nat \ {0}

Kinds == {"text", "start", "more", "last", "control", "unknown", "reserved"}

First(kind) == <<"first", kind>>
Length(n) == <<"length", n>>
Letter(c) == <<"letter", c>>
Get == <<<<"get", 1>>, <<"get", 2>>>>
Blank == <<"blank", 0>>
Newline == <<"newline", 0>>

Units == {First(k) : k \in Kinds} \cup {Length(n) : n \in 0..MaxWire + 1}
           \cup {Letter(c) : c \in Letters} \cup {Get[1], Get[2], Blank, Newline}

Modes == {"Unknown", "JsonLines", "WebSocketHandshake", "WebSocketFrames"}

\* Delivered messages and counted failures are kept with the buffer; fragmented_text is a
\* set of at most one sequence.
Wires == [mode : Modes, pending : Seq(Units), fragmented : SUBSET Seq(Units),
          messages : Seq(Seq(Units)), failures : Nat]

Fresh == [mode |-> "Unknown", pending |-> <<>>, fragmented |-> {}, messages |-> <<>>, failures |-> 0]

-----------------------------------------------------------------------------
(* The decoder.                                                             *)

Deliver(w, message) == [w EXCEPT !.messages = Append(@, message)]

Failed(w) == [w EXCEPT !.failures = @ + 1]

Cleared(w) == Failed([w EXCEPT !.pending = <<>>])

Chop(w, n) == [w EXCEPT !.pending = SubSeq(@, n + 1, Len(@))]

SelectMode(w) ==
    IF w.mode # "Unknown" \/ IsPrefix(w.pending, <<Get[1]>>) THEN w
    ELSE [w EXCEPT !.mode = IF IsPrefix(Get, w.pending) THEN "WebSocketHandshake" ELSE "JsonLines"]

\* The position of the first u, or 0.
Find(s, u) == SelectInSeq(s, LAMBDA v : v = u)

FinishHandshake(w) ==
    LET end == Find(w.pending, Blank)
    IN  IF w.mode = "WebSocketHandshake" /\ end # 0
        THEN [Chop(w, end) EXCEPT !.mode = "WebSocketFrames"] ELSE w

DrainLines[w \in Wires] ==
    LET end == Find(w.pending, Newline)
    IN  IF end = 0 THEN w
        ELSE DrainLines[Deliver(Chop(w, end), SubSeq(w.pending, 1, end - 1))]

\* A byte that was meant as something else has reserved bits, or a length all the same.
KindOf(u) == IF u[1] = "first" THEN u[2] ELSE "reserved"
LengthOf(u) == IF u[1] = "length" THEN u[2] ELSE 1

\* Mutant: a fragment takes the place of those before it.
AcceptLast(w, kind, payload) ==
    CASE kind \in {"text", "last"} -> Deliver([w EXCEPT !.fragmented = {}], payload)
      [] kind \in {"start", "more"} -> [w EXCEPT !.fragmented = {payload}]
      [] kind = "control" -> w
      [] OTHER -> Failed(w)

\* Mutant: only text is expected.
AcceptText(w, kind, payload) ==
    CASE kind = "text" -> Deliver(w, payload)
      [] kind = "start" -> [w EXCEPT !.fragmented = {payload}]
      [] kind \in {"more", "last"} /\ w.fragmented # {} ->
           LET joined == (CHOOSE f \in w.fragmented : TRUE) \o payload
           IN  IF kind = "last" THEN Deliver([w EXCEPT !.fragmented = {}], joined)
               ELSE [w EXCEPT !.fragmented = {joined}]
      [] OTHER -> Failed(w)

\* A complete frame.
Accept(w, kind, payload) ==
    CASE kind = "text" -> Deliver(w, payload)
      [] kind = "start" -> [w EXCEPT !.fragmented = {payload}]
      [] kind \in {"more", "last"} ->
           IF w.fragmented = {} THEN Failed(w)
           ELSE LET joined == (CHOOSE f \in w.fragmented : TRUE) \o payload
                IN  IF Len(joined) > MaxWire THEN Failed([w EXCEPT !.fragmented = {}])
                    ELSE IF kind = "last" THEN Deliver([w EXCEPT !.fragmented = {}], joined)
                    ELSE [w EXCEPT !.fragmented = {joined}]
      [] kind = "control" -> w
      [] OTHER -> Failed(w)

DrainFrames[w \in Wires] ==
    LET p == w.pending
    IN  IF Len(p) < 2 THEN w
        ELSE IF KindOf(p[1]) = "reserved" \/ LengthOf(p[2]) > MaxWire THEN Cleared(w)
        ELSE LET n == 2 + LengthOf(p[2])
             IN  IF Len(p) < n THEN w
                 ELSE DrainFrames[Accept(Chop(w, n), KindOf(p[1]), SubSeq(p, 3, n))]

Drain(w) ==
    CASE w.mode = "JsonLines" -> DrainLines[w]
      [] w.mode = "WebSocketFrames" -> DrainFrames[w]
      [] OTHER -> w

Feed(w, chunk) ==
    LET drained == Drain(FinishHandshake(SelectMode([w EXCEPT !.pending = @ \o chunk])))
    IN  IF Len(drained.pending) > MaxWire
        THEN [Cleared(drained) EXCEPT !.fragmented = {}] ELSE drained

-----------------------------------------------------------------------------
(* What a peer writes and means.                                            *)

Frame(kind, payload) == [kind |-> kind, payload |-> payload]

\* A frame above the limit is "long".
Frames == [kind : Kinds \cup {"handshake", "line", "long"}, payload : Seq({Letter(c) : c \in Letters})]

Encode(f) ==
    CASE f.kind = "handshake" -> Get \o <<Blank>>
      [] f.kind = "line" -> Append(f.payload, Newline)
      [] f.kind = "long" -> <<First("text"), Length(MaxWire + 1)>>
      [] OTHER -> <<First(f.kind), Length(Len(f.payload))>> \o f.payload

Data(f) == IF f.kind = "control" THEN <<>> ELSE f.payload

\* The text of the j-th to the i-th frame.
Since(fs, j, i) == FlattenSeq([k \in 1..i + 1 - j |-> Data(fs[j + k - 1])])

Begun(fs, i) == Max({j \in 1..i : fs[j].kind = "start"})

\* The text of the i-th frame and of those before it in its message.
Text(fs, i) ==
    IF fs[i].kind \in {"more", "last"} THEN Since(fs, Begun(fs, i), i) ELSE fs[i].payload

\* The frames that complete a message.
Ends(fs) == {i \in DOMAIN fs : fs[i].kind \in {"line", "text", "last"}}

\* The messages of a sequence of frames: the text of every frame that completes one.
Meant(fs) ==
    [n \in 1..Cardinality(Ends(fs)) |->
        Text(fs, CHOOSE i \in Ends(fs) : Cardinality({j \in Ends(fs) : j <= i}) = n)]

=============================================================================
