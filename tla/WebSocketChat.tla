--------------------------- MODULE WebSocketChat ---------------------------
(***************************************************************************)
(* networking/websocket_chat: each accepted connection has a detached      *)
(* thread that shakes hands, enters its socket in the list clients, reads  *)
(* frames and writes each of them to every socket of the list while it     *)
(* holds clients_mutex, with blocking writes.  An exception in start ends  *)
(* the process and so all its threads.                                     *)
(*                                                                         *)
(* Points of the thread of a connection (pc):                              *)
(*   handshake  waiting for accept or for the request                      *)
(*   register   101 was sent           count      about to ++client_count  *)
(*   read       in read_some           lock       has a frame to broadcast *)
(*   write      broadcasting           leave      about to leave the list  *)
(*   uncount    about to --client_count           gone  thread has ended   *)
(*                                                                         *)
(* TCP is external: what a peer sends is a stream, so one read_some may    *)
(* return several frames, or a part of one.                                *)
(***************************************************************************)
EXTENDS Naturals, Sequences, FiniteSets, SequencesExt

CONSTANTS Peers,     \* the peers, each of which connects once
          Messages,  \* Messages[c]: number of frames c sends
          Buffer,    \* frames a socket holds before a write to it blocks
          MaxSplits, \* bound on frames that arrive in two parts
          Closers,   \* the peers that may close (a bound)
          Free,      \* clients_mutex has no owner
          Garbled    \* what decode_frame makes of a part of a frame

ASSUME ChatAssumption ==
  /\ IsFiniteSet(Peers) /\ Free \notin Peers
  /\ Messages \in [Peers -> Nat]
  /\ Buffer \in Nat \ {0} /\ MaxSplits \in Nat /\ Closers \subseteq Peers

VARIABLES running,       \* start() is in its loop, and the process there
          mutex,         \* clients_mutex: its owner, or Free
          clients,       \* clients
          client_count,  \* client_count
          pc,            \* where the thread of each connection is
          frame,         \* frame[c]: the payload it decoded last
          target,        \* index in clients of the next write
          wire,          \* external: wire[c], parts of frames sent, not read
          inbox,         \* external: inbox[c], broadcasts written, not received
          open,          \* open[c]: the peer has not closed its end
          said,          \* said[c]: frames the peer has sent
          splits,        \* frames sent in two parts so far
          order,         \* history: the frames in the order of their broadcasts
          joined,        \* joined[c]: Len(order) when c entered clients
          written,       \* history: written[c], broadcasts written to c
          misread        \* history: read_some gave c not exactly one frame

vars == <<running, mutex, clients, client_count, pc, frame, target, wire, inbox, open,
          said, splits, order, joined, written, misread>>
peer == <<wire, inbox, open, said, splits>>
histories == <<order, joined, written, misread>>

Frames == Peers \X Nat  \* a frame: who sent it, and which one it is
ASSUME GarbledAssumption == Garbled \notin Frames

Whole(f) == [frame |-> f, part |-> "whole"]
FirstPart(f) == [frame |-> f, part |-> "first"]
SecondPart(f) == [frame |-> f, part |-> "second"]

Init == /\ running = TRUE
        /\ mutex = Free
        /\ clients = <<>>
        /\ client_count = 0
        /\ pc = [c \in Peers |-> "handshake"]
        /\ frame = [c \in Peers |-> Garbled]
        /\ target = 1
        /\ wire = [c \in Peers |-> <<>>]
        /\ inbox = [c \in Peers |-> <<>>]
        /\ open = [c \in Peers |-> TRUE]
        /\ said = [c \in Peers |-> 0]
        /\ splits = 0
        /\ order = <<>>
        /\ joined = [c \in Peers |-> 0]
        /\ written = [c \in Peers |-> <<>>]
        /\ misread = [c \in Peers |-> FALSE]

At(c, point) == pc[c] = point
GoTo(c, point) == pc' = [pc EXCEPT ![c] = point]

-----------------------------------------------------------------------------
(* handle_handshake                                                        *)

\* The request is answered with 101, or it is refused, or the socket has failed.
Handshake(c) ==
  /\ At(c, "handshake")
  /\ \/ GoTo(c, "register")
     \/ GoTo(c, "gone")
  /\ UNCHANGED <<mutex, clients, client_count, frame, target, peer, histories>>

Register(c) ==
  /\ At(c, "register") /\ mutex = Free
  /\ clients' = Append(clients, c)
  /\ joined' = [joined EXCEPT ![c] = Len(order)]
  /\ GoTo(c, "count")
  /\ UNCHANGED <<mutex, client_count, frame, target, peer, order, written, misread>>

Count(c) ==
  /\ At(c, "count")
  /\ client_count' = client_count + 1
  /\ GoTo(c, "read")
  /\ UNCHANGED <<mutex, clients, frame, target, peer, histories>>

\* Wrong variant: the elements are moved to the end and not erased.
LeaveStays(c) ==
  /\ At(c, "leave") /\ mutex = Free
  /\ GoTo(c, "uncount")
  /\ UNCHANGED <<mutex, clients, client_count, frame, target, peer, histories>>

\* The thread takes its socket off the list, where it is once (NoGhosts) unless a
\* broadcast has taken it off before.
Leave(c) ==
  /\ At(c, "leave") /\ mutex = Free
  /\ clients' = RemoveFirst(clients, c)
  /\ GoTo(c, "uncount")
  /\ UNCHANGED <<mutex, client_count, frame, target, peer, histories>>

Uncount(c) ==
  /\ At(c, "uncount")
  /\ client_count' = client_count - 1
  /\ GoTo(c, "gone")
  /\ UNCHANGED <<mutex, clients, frame, target, peer, histories>>

-----------------------------------------------------------------------------
(* handle_frames                                                           *)

\* What decode_frame makes of the parts that one read_some returned: the first
\* frame if it is complete; what follows it in the buffer is not looked at.
Decoded(parts) ==
  IF parts[1].part = "whole" \/ (parts[1].part = "first" /\ Len(parts) > 1)
    THEN parts[1].frame
    ELSE Garbled

IsOneFrame(parts) == \/ Len(parts) = 1 /\ parts[1].part = "whole"
                     \/ Len(parts) = 2 /\ parts[1].part = "first"

Read(c) ==
  /\ At(c, "read") /\ wire[c] # <<>>
  /\ \E n \in 1..Len(wire[c]) :
       LET parts == SubSeq(wire[c], 1, n) IN
       /\ wire' = [wire EXCEPT ![c] = SubSeq(@, n + 1, Len(@))]
       /\ frame' = [frame EXCEPT ![c] = Decoded(parts)]
       /\ misread' = [misread EXCEPT ![c] = @ \/ ~IsOneFrame(parts)]
  /\ GoTo(c, "lock")
  /\ UNCHANGED <<mutex, clients, client_count, target, inbox, open, said, splits,
                 order, joined, written>>

\* decode_frame throws on a part that is too short, or whose length field, read
\* out of the middle of a frame, is too large.
ReadThrows(c) ==
  /\ At(c, "read") /\ wire[c] # <<>>
  /\ Head(wire[c]).part # "whole"
  /\ wire' = [wire EXCEPT ![c] = Tail(@)]
  /\ misread' = [misread EXCEPT ![c] = TRUE]
  /\ GoTo(c, "leave")
  /\ UNCHANGED <<mutex, clients, client_count, frame, target, inbox, open, said,
                 splits, order, joined, written>>

\* read_some throws at the end of the stream.
ReadEnd(c) ==
  /\ At(c, "read") /\ wire[c] = <<>> /\ ~open[c]
  /\ GoTo(c, "leave")
  /\ UNCHANGED <<mutex, clients, client_count, frame, target, peer, histories>>

\* Wrong variant: a frame that finds the mutex taken is dropped (try_lock).
LockOrDrop(c) ==
  /\ At(c, "lock")
  /\ IF mutex = Free
       THEN mutex' = c /\ target' = 1 /\ order' = Append(order, frame[c]) /\ GoTo(c, "write")
       ELSE GoTo(c, "read") /\ UNCHANGED <<mutex, target, order>>
  /\ UNCHANGED <<clients, client_count, frame, peer, joined, written, misread>>

Lock(c) ==
  /\ At(c, "lock") /\ mutex = Free
  /\ mutex' = c
  /\ target' = 1
  /\ order' = Append(order, frame[c])
  /\ GoTo(c, "write")
  /\ UNCHANGED <<clients, client_count, frame, peer, joined, written, misread>>

\* A write goes to the socket's buffer; it blocks while that is full.
Write(c) ==
  /\ At(c, "write") /\ target <= Len(clients)
  /\ LET d == clients[target] IN
     /\ open[d] => Len(inbox[d]) < Buffer
     /\ inbox' = IF open[d] THEN [inbox EXCEPT ![d] = Append(@, frame[c])] ELSE inbox
     /\ written' = [written EXCEPT ![d] = Append(@, frame[c])]
  /\ target' = target + 1
  /\ UNCHANGED <<mutex, clients, client_count, pc, frame, wire, open, said, splits,
                 order, joined, misread>>

\* Wrong variant: after an erase the iterator skips the next client.
WriteFailsAndSkips(c) ==
  /\ At(c, "write") /\ target <= Len(clients)
  /\ ~open[clients[target]]
  /\ clients' = RemoveAt(clients, target)
  /\ target' = target + 1
  /\ UNCHANGED <<mutex, client_count, pc, frame, peer, histories>>

\* A write to a closed peer may fail, which takes it off the list.
WriteFails(c) ==
  /\ At(c, "write") /\ target <= Len(clients)
  /\ ~open[clients[target]]
  /\ clients' = RemoveAt(clients, target)
  /\ UNCHANGED <<mutex, client_count, pc, frame, target, peer, histories>>

\* Wrong variant: lock() without the guard that unlocks.
UnlockForgotten(c) ==
  /\ At(c, "write") /\ target > Len(clients)
  /\ GoTo(c, "read")
  /\ UNCHANGED <<mutex, clients, client_count, frame, target, peer, histories>>

Unlock(c) ==
  /\ At(c, "write") /\ target > Len(clients)
  /\ mutex' = Free
  /\ GoTo(c, "read")
  /\ UNCHANGED <<clients, client_count, frame, target, peer, histories>>

-----------------------------------------------------------------------------
(* The peers                                                               *)

Upgraded(c) == pc[c] \notin {"handshake", "gone"}

Send(c) ==
  /\ Upgraded(c) /\ open[c] /\ said[c] < Messages[c]
  /\ said' = [said EXCEPT ![c] = @ + 1]
  /\ \/ /\ wire' = [wire EXCEPT ![c] = Append(@, Whole(<<c, said'[c]>>))]
        /\ UNCHANGED splits
     \/ /\ splits < MaxSplits /\ splits' = splits + 1
        /\ wire' = [wire EXCEPT ![c] =
                      @ \o <<FirstPart(<<c, said'[c]>>), SecondPart(<<c, said'[c]>>)>>]
  /\ UNCHANGED <<mutex, clients, client_count, pc, frame, target, inbox, open, histories>>

Receive(c) ==
  /\ open[c] /\ inbox[c] # <<>>
  /\ inbox' = [inbox EXCEPT ![c] = Tail(@)]
  /\ UNCHANGED <<mutex, clients, client_count, pc, frame, target, wire, open, said,
                 splits, histories>>

Close(c) ==
  /\ c \in Closers /\ open[c]
  /\ open' = [open EXCEPT ![c] = FALSE]
  /\ inbox' = [inbox EXCEPT ![c] = <<>>]
  /\ UNCHANGED <<mutex, clients, client_count, pc, frame, target, wire, said, splits,
                 histories>>

-----------------------------------------------------------------------------
Lasts == running /\ running' = running

\* What the thread of c does once it has answered the request.
Handler(c) == /\ Lasts
              /\ \/ Register(c) \/ Count(c) \/ Leave(c) \/ Uncount(c)
                 \/ Read(c) \/ ReadThrows(c) \/ ReadEnd(c)
                 \/ Lock(c) \/ Write(c) \/ WriteFails(c) \/ Unlock(c)

Receives(c) == Lasts /\ Receive(c)

\* accept, or the construction of a thread, throws: start and main return, and all
\* threads end with the process, wherever they are.
StartFails ==
  /\ running
  /\ running' = FALSE
  /\ UNCHANGED <<mutex, clients, client_count, pc, frame, target, peer, histories>>

Next == \/ \E c \in Peers : \/ Handler(c) \/ Receives(c)
                            \/ Lasts /\ (Handshake(c) \/ Send(c) \/ Close(c))
        \/ StartFails

Spec == Init /\ [][Next]_vars

\* Threads run, which says nothing of who gets a contended mutex, and open peers
\* receive; nobody has to connect, to send a request or a frame, or to close.
FairSpec == /\ Spec
            /\ \A c \in Peers : WF_vars(Handler(c)) /\ WF_vars(Receives(c))

-----------------------------------------------------------------------------
(* Properties                                                              *)

Payloads == Frames \cup {Garbled}
Parts == [frame : Frames, part : {"whole", "first", "second"}]

\* Every variable stays in its type; in particular the count is never negative.
TypeOK ==
  /\ running \in BOOLEAN
  /\ mutex \in Peers \cup {Free}
  /\ clients \in Seq(Peers)
  /\ client_count \in Nat
  /\ pc \in [Peers -> {"handshake", "register", "count", "read", "lock",
                       "write", "leave", "uncount", "gone"}]
  /\ frame \in [Peers -> Payloads]
  /\ target \in Nat \ {0}
  /\ wire \in [Peers -> Seq(Parts)]
  /\ inbox \in [Peers -> Seq(Payloads)]
  /\ open \in [Peers -> BOOLEAN]
  /\ said \in [Peers -> Nat]
  /\ splits \in 0..MaxSplits
  /\ order \in Seq(Payloads)
  /\ joined \in [Peers -> Nat]
  /\ written \in [Peers -> Seq(Payloads)]
  /\ misread \in [Peers -> BOOLEAN]

\* Everybody sees the same conversation: the broadcasts written to a client are
\* the consecutive broadcasts since it joined, none twice, none left out, in the
\* one order of all; between broadcasts, up to the last one.
SameConversation ==
  \A c \in Peers :
    /\ written[c] = SubSeq(order, joined[c] + 1, joined[c] + Len(written[c]))
    /\ (\E i \in DOMAIN clients : clients[i] = c) /\ mutex = Free
         => joined[c] + Len(written[c]) = Len(order)

\* Nothing is left of a connection whose thread has ended: no entry in clients,
\* on which every later broadcast would write, and no share of client_count.
NoGhosts ==
  /\ \A i \in DOMAIN clients : pc[clients[i]] \in {"count", "read", "lock", "write", "leave"}
  /\ \A i, j \in DOMAIN clients : clients[i] = clients[j] => i = j
  /\ client_count = Cardinality({c \in Peers : pc[c] \in {"read", "lock", "write", "leave", "uncount"}})

\* The broadcasts of c's frames, in their order (SelectSeq, which TLAPS cannot
\* expand, written out).
IsOf(f, c) == f # Garbled /\ f[1] = c
From(c) ==
  LET of[n \in 0..Len(order)] ==
        IF n = 0 THEN <<>>
        ELSE IF IsOf(order[n], c) THEN Append(of[n - 1], order[n])
        ELSE of[n - 1]
  IN  of[Len(order)]

Unread(c) == [i \in DOMAIN wire[c] |-> wire[c][i].frame]
Pending(c) == IF At(c, "lock") THEN <<frame[c]>> ELSE <<>>
AllWhole(c) == \A i \in DOMAIN wire[c] : wire[c][i].part = "whole"

AllOfItThere(c) ==
  From(c) \o Pending(c) \o Unread(c) = [n \in 1..said[c] |-> <<c, n>>]

\* A peer's frames are broadcast in the order sent and none is lost, as long as
\* each read_some of handle_frames returned exactly one frame; the code has
\* nothing to ensure that.
NothingLostFrameByFrame ==
  \A c \in Peers : ~misread[c] /\ AllWhole(c) => AllOfItThere(c)

\* README:3, "broadcasts messages to all connected clients": every frame a peer
\* has sent whole is broadcast, or is about to be, or waits to be read.
NoFrameLost == \A c \in Peers : splits = 0 => AllOfItThere(c)

\* If the peers receive what is sent to them, clients_mutex does not stay taken,
\* although the broadcast writes under it and a write may block; unless the process
\* ends.
BroadcastEnds == \A c \in Peers : []<>(mutex # c \/ ~running)
=============================================================================
