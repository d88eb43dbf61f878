--------------------------- MODULE WebSocketProxy ---------------------------
(***************************************************************************)
(* The proxy between a client's WebSocket and a local stream socket, as    *)
(* the serial console, KVM and virtual media handlers have it, each its    *)
(* own copy (api/websocket/mod.rs).                                        *)
(*                                                                         *)
(* Two spawned tasks copy, one for each direction.  Each owns one half of  *)
(* the WebSocket and one half of the socket, and a connection closes only  *)
(* when both its halves are dropped.  The handler waits for either task    *)
(* and returns, which leaves the other one running.                        *)
(***************************************************************************)
EXTENDS Integers, Sequences

CONSTANTS
    Window,     \* how many items a connection takes before the writer waits
    Buffer,     \* the size of the read buffer, in bytes
    MaxUp,      \* bound on what the client sends
    MaxDown     \* bound on what the daemon writes

ASSUME ProxyAssumption ==
    /\ Window \in Nat \ {0} /\ Buffer \in Nat \ {0}
    /\ MaxUp \in Nat /\ MaxDown \in Nat

VARIABLES
    client,     \* the client's end: open, closing (it sent Close), closed
                \* (the Close has been read) or gone
    daemon,     \* the daemon's end: open or closed
    handler,    \* connecting, proxying or returned
    up,         \* the task WebSocket -> socket, and the message it holds
    down,       \* the task socket -> WebSocket, and the bytes it holds
    wsIn,       \* frames on their way from the client
    wsOut,      \* frames on their way to the client, each a run of bytes
    sockIn,     \* bytes on their way from the daemon
    sockOut,    \* messages on their way to the daemon
    sent,       \* history: how many messages and bytes were sent
    got         \* history: what the daemon and the client have received

peers == <<client, daemon>>
pipes == <<wsIn, wsOut, sockIn, sockOut>>
proxyVars == <<peers, handler, up, down, pipes, sent, got>>

Task(pc, holds) == [pc |-> pc, holds |-> holds]
Over == Task("over", <<>>)

-----------------------------------------------------------------------------
(* The peers.                                                              *)

ClientSend ==
    /\ client = "open" /\ sent.up < MaxUp /\ Len(wsIn) < Window
    /\ sent' = [sent EXCEPT !.up = @ + 1]
    /\ wsIn' = Append(wsIn, sent'.up)
    /\ UNCHANGED <<peers, handler, up, down, wsOut, sockIn, sockOut, got>>

\* The client sends a Close frame, or its connection breaks.
ClientLeave ==
    /\ client = "open"
    /\ client' \in {"closing", "gone"}
    /\ UNCHANGED <<daemon, handler, up, down, pipes, sent, got>>

ClientReceive ==
    /\ client # "gone" /\ wsOut # <<>>
    /\ got' = [got EXCEPT !.down = @ \o Head(wsOut)]
    /\ wsOut' = Tail(wsOut)
    /\ UNCHANGED <<peers, handler, up, down, wsIn, sockIn, sockOut, sent>>

DaemonWrite ==
    /\ daemon = "open" /\ sent.down < MaxDown /\ Len(sockIn) < Window + Buffer
    /\ handler # "connecting" /\ (up # Over \/ down # Over)
    /\ sent' = [sent EXCEPT !.down = @ + 1]
    /\ sockIn' = Append(sockIn, sent'.down)
    /\ UNCHANGED <<peers, handler, up, down, wsIn, wsOut, sockOut, got>>

DaemonRead ==
    /\ daemon = "open" /\ sockOut # <<>>
    /\ got' = [got EXCEPT !.up = Append(@, Head(sockOut))]
    /\ sockOut' = Tail(sockOut)
    /\ UNCHANGED <<peers, handler, up, down, wsIn, wsOut, sockIn, sent>>

DaemonClose ==
    /\ daemon = "open"
    /\ daemon' = "closed"
    /\ UNCHANGED <<client, handler, up, down, pipes, sent, got>>

-----------------------------------------------------------------------------
(* The handler.                                                            *)

\* The socket is connected and both tasks are spawned.
Connect ==
    /\ handler = "connecting" /\ daemon = "open"
    /\ handler' = "proxying"
    /\ up' = Task("reading", <<>>) /\ down' = Task("reading", <<>>)
    /\ UNCHANGED <<peers, pipes, sent, got>>

\* The client is told with Close 1011, and the WebSocket dropped.
Unavailable ==
    /\ handler = "connecting" /\ daemon = "closed"
    /\ handler' = "returned"
    /\ UNCHANGED <<peers, up, down, pipes, sent, got>>

\* Mutant: join! in place of select!.
ReturnBoth ==
    /\ handler = "proxying" /\ up = Over /\ down = Over
    /\ handler' = "returned"
    /\ UNCHANGED <<peers, up, down, pipes, sent, got>>

\* select!: either task being over ends the wait; the other goes on.
Return ==
    /\ handler = "proxying" /\ (up = Over \/ down = Over)
    /\ handler' = "returned"
    /\ UNCHANGED <<peers, up, down, pipes, sent, got>>

-----------------------------------------------------------------------------
(* The task socket -> WebSocket.                                           *)

\* read(): up to a buffer of what is there becomes one frame.
DownRead ==
    /\ down.pc = "reading" /\ sockIn # <<>>
    /\ \E n \in 1..Buffer :
          /\ n <= Len(sockIn)
          /\ down' = Task("writing", SubSeq(sockIn, 1, n))
          /\ sockIn' = SubSeq(sockIn, n + 1, Len(sockIn))
    /\ UNCHANGED <<peers, handler, up, wsIn, wsOut, sockOut, sent, got>>

\* read() returns 0 or an error.
DownEof ==
    /\ down.pc = "reading" /\ sockIn = <<>> /\ daemon = "closed"
    /\ down' = Over
    /\ UNCHANGED <<peers, handler, up, pipes, sent, got>>

\* A Close the other task has read, or a broken connection.
WsRefuses == client \in {"closed", "gone"}

\* Mutant: the buffer is sent whole, as it was read into.
DownSendBuffer ==
    /\ down.pc = "writing" /\ ~ WsRefuses /\ Len(wsOut) < Window
    /\ wsOut' = Append(wsOut, down.holds \o [i \in 1..(Buffer - Len(down.holds)) |-> 0])
    /\ down' = Task("reading", <<>>)
    /\ UNCHANGED <<peers, handler, up, wsIn, sockIn, sockOut, sent, got>>

\* Mutant: frames are queued for the client without waiting.
DownSendQueued ==
    /\ down.pc = "writing" /\ ~ WsRefuses
    /\ wsOut' = Append(wsOut, down.holds)
    /\ down' = Task("reading", <<>>)
    /\ UNCHANGED <<peers, handler, up, wsIn, sockIn, sockOut, sent, got>>

\* send(): waits while the client takes nothing.
DownSend ==
    /\ down.pc = "writing" /\ ~ WsRefuses /\ Len(wsOut) < Window
    /\ wsOut' = Append(wsOut, down.holds)
    /\ down' = Task("reading", <<>>)
    /\ UNCHANGED <<peers, handler, up, wsIn, sockIn, sockOut, sent, got>>

DownSendFails ==
    /\ down.pc = "writing" /\ WsRefuses
    /\ down' = Over
    /\ UNCHANGED <<peers, handler, up, pipes, sent, got>>

-----------------------------------------------------------------------------
(* The task WebSocket -> socket.                                           *)

\* A Binary or Text message; Ping and Pong are nothing to this task.
UpReceive ==
    /\ up.pc = "reading" /\ wsIn # <<>>
    /\ up' = Task("writing", <<Head(wsIn)>>)
    /\ wsIn' = Tail(wsIn)
    /\ UNCHANGED <<peers, handler, down, wsOut, sockIn, sockOut, sent, got>>

\* The Close, which comes after what was sent before it; or the error of a
\* broken connection, which may lose what was still on its way.
UpEnd ==
    /\ up.pc = "reading"
    /\ \/ client = "closing" /\ wsIn = <<>> /\ client' = "closed"
       \/ client = "gone" /\ UNCHANGED client
    /\ up' = Over
    /\ UNCHANGED <<daemon, handler, down, pipes, sent, got>>

\* Mutant: one loop serves both directions in turn.
UpWriteInTurn ==
    /\ up.pc = "writing" /\ daemon = "open" /\ Len(sockOut) < Window
    /\ down.pc = "reading"
    /\ sockOut' = sockOut \o up.holds
    /\ up' = Task("reading", <<>>)
    /\ UNCHANGED <<peers, handler, down, wsIn, wsOut, sockIn, sent, got>>

\* Mutant: what was written may be written again.
UpWriteAgain ==
    /\ up.pc = "writing" /\ daemon = "open" /\ Len(sockOut) < Window
    /\ sockOut' = sockOut \o up.holds
    /\ up' \in {up, Task("reading", <<>>)}
    /\ UNCHANGED <<peers, handler, down, wsIn, wsOut, sockIn, sent, got>>

\* write_all(): waits while the daemon takes nothing.
UpWrite ==
    /\ up.pc = "writing" /\ daemon = "open" /\ Len(sockOut) < Window
    /\ sockOut' = sockOut \o up.holds
    /\ up' = Task("reading", <<>>)
    /\ UNCHANGED <<peers, handler, down, wsIn, wsOut, sockIn, sent, got>>

UpWriteFails ==
    /\ up.pc = "writing" /\ daemon = "closed"
    /\ up' = Over
    /\ UNCHANGED <<peers, handler, down, pipes, sent, got>>

-----------------------------------------------------------------------------
ProxyInit ==
    /\ client = "open" /\ daemon \in {"open", "closed"}
    /\ handler = "connecting" /\ up = Over /\ down = Over
    /\ wsIn = <<>> /\ wsOut = <<>> /\ sockIn = <<>> /\ sockOut = <<>>
    /\ sent = [up |-> 0, down |-> 0]
    /\ got = [up |-> <<>>, down |-> <<>>]

Peers == \/ ClientSend \/ ClientLeave \/ ClientReceive
         \/ DaemonWrite \/ DaemonRead \/ DaemonClose

Handler == Connect \/ Unavailable \/ Return
Down == DownRead \/ DownEof \/ DownSend \/ DownSendFails
Up == UpReceive \/ UpEnd \/ UpWrite \/ UpWriteFails

ProxyNext == Peers \/ Handler \/ Down \/ Up

ProxySpec == ProxyInit /\ [][ProxyNext]_proxyVars

\* tokio polls the handler and both tasks.  The client need not send, leave
\* or read, and the daemon need not read, write or close.
FairProxySpec ==
    /\ ProxySpec
    /\ WF_proxyVars(Handler) /\ WF_proxyVars(Down) /\ WF_proxyVars(Up)

-----------------------------------------------------------------------------
(* Properties.                                                             *)

\* A task holds something exactly while it writes, and no more than it reads
\* at a time.
TaskType(task, most) ==
    /\ task \in [pc: {"reading", "writing", "over"}, holds: Seq(Nat)]
    /\ task.pc = "writing" <=> Len(task.holds) > 0
    /\ Len(task.holds) <= most

\* At most a window of the items of S is on its way.
PipeType(pipe, S, most) == pipe \in Seq(S) /\ Len(pipe) <= most

\* Type invariant.  What is on its way is bounded, whoever does not read.
ProxyTypeOK ==
    /\ client \in {"open", "closing", "closed", "gone"} /\ daemon \in {"open", "closed"}
    /\ handler \in {"connecting", "proxying", "returned"}
    /\ TaskType(up, 1) /\ TaskType(down, Buffer)
    /\ handler = "connecting" => up = Over /\ down = Over
    /\ PipeType(wsIn, Nat, Window) /\ PipeType(sockOut, Nat, Window)
    /\ PipeType(wsOut, Seq(Nat), Window) /\ PipeType(sockIn, Nat, Window + Buffer)
    /\ \A k \in DOMAIN wsOut : Len(wsOut[k]) \in 1..Buffer
    /\ sent \in [up: Nat, down: Nat] /\ got \in [up: Seq(Nat), down: Seq(Nat)]

\* The items of s are the ones that follow item n.
Follows(s, n) == \A i \in DOMAIN s : s[i] = n + i

\* The last item received, or on its way in one of the first k frames.
Reached(k) == IF k = 0 THEN Len(got.down) ELSE wsOut[k][Len(wsOut[k])]

UpInOrder ==
    /\ Follows(got.up, 0) /\ Follows(sockOut, Len(got.up))
    /\ Len(got.up \o sockOut) <= sent.up
    /\ handler = "connecting" \/ up # Over =>
          /\ Follows(up.holds \o wsIn, Len(got.up \o sockOut))
          /\ Len(got.up \o sockOut \o up.holds \o wsIn) = sent.up

DownInOrder ==
    /\ Follows(got.down, 0)
    /\ \A k \in DOMAIN wsOut : wsOut[k] # <<>> /\ Follows(wsOut[k], Reached(k - 1))
    /\ \A k \in 0..Len(wsOut) : Reached(k) <= sent.down
    /\ handler = "connecting" \/ down # Over =>
          /\ Follows(down.holds \o sockIn, Reached(Len(wsOut)))
          /\ Reached(Len(wsOut)) + Len(down.holds \o sockIn) = sent.down

\* Until a direction's task is over, everything that was sent has been received
\* or is on its way, in order and once, however the bytes were cut into
\* frames; and what was received is then, and ever after, a prefix of what
\* was sent.
NothingLost == UpInOrder /\ DownInOrder

UpStream == INSTANCE ByteStream WITH sent <- sent.up, got <- got.up
DownStream == INSTANCE ByteStream WITH sent <- sent.down, got <- got.down

\* Each direction is a stream to those at its ends.
ImplementsStreams == UpStream!Spec /\ DownStream!Spec

\* What the client sends reaches a daemon that reads what it is sent, unless
\* one of them goes away: a client that reads nothing does not hold up its
\* own input.
InputArrives ==
    WF_proxyVars(DaemonRead) =>
        \A n \in 1..MaxUp :
            sent.up >= n ~> \/ Len(got.up) >= n
                            \/ client = "gone" \/ daemon = "closed"

\* write_all() waits for a daemon that stays and takes nothing.
DaemonHoldsUp == up.pc = "writing" /\ daemon = "open" /\ Len(sockOut) >= Window

\* A client that closes or breaks off ends the handler, unless the daemon
\* keeps the connection and never again reads from it: then, and only then,
\* the handler may wait for ever.  The other task may stay in any case,
\* waiting for the daemon to write.
HandlerReturns == client # "open" ~> (handler = "returned" \/ []DaemonHoldsUp)
=============================================================================
