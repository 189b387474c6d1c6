----------------------------- MODULE MCForwarding -----------------------------
(* A client that opens with a handshake and sends a few frames, or two lines; one frame   *)
(* of the owner's; a second unit of output that is not read blocks the proxy.             *)
EXTENDS Forwarding

CONSTANTS x, r, o

Request == Frame("text", <<Letter(r)>>)
Edge == Frame("text", <<Letter(x), Letter(x), Letter(x)>>)
Begin == Frame("start", <<Letter(r)>>)
End == Frame("last", <<Letter(x)>>)

MCStreams ==
    {<<Frame("handshake", <<>>)>> \o fs : fs \in
        {<<f, Request>> : f \in {Frame("control", <<>>), Frame("unknown", <<>>),
                                 Frame("reserved", <<>>), Frame("long", <<>>)}}
          \cup {<<Request, Edge>>, <<Begin, End>>}
          \cup {<<Begin, f, End>> : f \in {Frame("control", <<>>), Frame("more", <<Letter(x)>>),
                                        Frame("more", <<Letter(x), Letter(x)>>)}}}
    \cup {<<Frame("line", <<Letter(r)>>), Frame("line", <<Letter(x)>>)>>}
=============================================================================
