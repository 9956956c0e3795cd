------------------------------- MODULE Gateway -------------------------------
(***************************************************************************)
(* The WebSocket gateway (app/gateway/internal/gateway/server.go,          *)
(* bridge_pipe.go).                                                        *)
(*                                                                         *)
(* A session is a WebSocket of a client that cannot speak libp2p.  It has  *)
(* a handler (the reader), a writer with a bounded queue, and for each     *)
(* stream a pump that reads the stream and queues frames for the client.   *)
(* A stream leads into the mesh or, through a pipe in memory, to another   *)
(* session of the same gateway.  closeAllStreams ends a session from       *)
(* whichever goroutine comes first, and that one waits for the writer.     *)
(*                                                                         *)
(* A step is a critical section of a session or of the server, one frame,  *)
(* or one read of a pump.  A process that finds the queue full first ends  *)
(* the session and then fails to send.  The end of a mesh stream that lies *)
(* outside is an end like any other that the environment moves.  The       *)
(* invite code is left out: an authentication succeeds or not.             *)
(***************************************************************************)
EXTENDS Naturals, FiniteSets

CONSTANTS
  Conns,        \* WebSocket connections
  Names,        \* names of clients
  AsClient, AsService,  \* who asks for which name, in which mode
  Pipes,        \* streams that can be made (bound)
  QueueSize,    \* outBufSize
  MaxStreams,   \* maxStreams
  FirstDialId,  \* where the clients' own stream IDs start
  MaxFaults,    \* ends of sessions, or of the gateway, for no reason of theirs (bound)
  MaxFrames,    \* frames about streams that are open, and pings (bound)
  None, Mesh    \* nobody; the other end of a stream into the mesh

ASSUME GatewayAssumption ==
  /\ AsClient \subseteq Conns \X Names /\ AsService \subseteq Conns \X Names
  /\ QueueSize \in Nat \ {0} /\ MaxStreams \in Nat /\ FirstDialId \in Nat
  /\ MaxFaults \in Nat /\ MaxFrames \in Nat
  /\ None \notin Conns /\ Mesh \notin Conns /\ None # Mesh

Ends == Pipes \X {1, 2}
Peer(e) == <<e[1], 3 - e[2]>>

VARIABLES
  phase,        \* the handler: what it does next
  arg,          \* ... and the stream end it does it with
  name,         \* the name of the session
  clients,      \* s.clients
  service,      \* s.serviceConn
  online,       \* the client is there
  ws,           \* the WebSocket is open on this side
  out,          \* length of c.out
  closed,       \* c.closed
  writer,       \* writeLoop: "run", "done" (writerDone is closed), "gone"
  closer,       \* the process in closeAllStreams that waits for the writer
  dials, nextID,\* stream IDs handed out by the client, by the gateway
  held, sid,    \* session and stream ID of an end
  listed,       \* the end is in c.streams
  shut, dead,   \* CloseWrite, Close or Reset of this end
  data,         \* frames waiting to be read at this end (0 or 1)
  fin,          \* st.done is closed
  pump,         \* pumpStreamToClient: "none", "read", "eof", "gone"
  told,         \* the last frame about the stream queued for the client
  inbound,      \* dispatchInbound: the end it is about to file or announce
  stopping,     \* the context of the gateway is cancelled
  faults, frames \* how many of them there were
desk    == <<phase, arg>>
book    == <<name, clients, service>>
link    == <<online, ws>>
session == <<closed, closer>>
ids     == <<dials, nextID>>
place   == <<held, sid>>
pipe    == <<shut, dead, data>>
stream  == <<listed, fin, pump>>
gate    == <<stopping, faults, frames>>
vars    == <<desk, book, link, out, session, writer, ids, place, pipe, stream, told,
             inbound, gate>>

Room   == frames + faults < MaxFrames
Counts == Room /\ frames' = frames + 1
Faulty == Room /\ faults < MaxFaults /\ faults' = faults + 1

Set(f, x, v) == [f EXCEPT ![x] = v]
SetAll(f, xs, v) == [x \in DOMAIN f |-> IF x \in xs THEN v ELSE f[x]]

Init ==
  /\ phase = [c \in Conns |-> "auth"] /\ arg = [c \in Conns |-> None]
  /\ name = [c \in Conns |-> None]
  /\ clients = [n \in Names |-> None] /\ service = None
  /\ online = [c \in Conns |-> TRUE] /\ ws = [c \in Conns |-> TRUE]
  /\ out = [c \in Conns |-> 0] /\ closed = [c \in Conns |-> FALSE]
  /\ writer = [c \in Conns |-> "run"] /\ closer = [c \in Conns |-> None]
  /\ dials = [c \in Conns |-> 0] /\ nextID = [c \in Conns |-> 0]
  /\ held = [e \in Ends |-> None] /\ sid = [e \in Ends |-> 0]
  /\ listed = [e \in Ends |-> FALSE]
  /\ shut = [e \in Ends |-> FALSE] /\ dead = [e \in Ends |-> FALSE]
  /\ data = [e \in Ends |-> 0] /\ fin = [e \in Ends |-> FALSE]
  /\ pump = [e \in Ends |-> "none"] /\ told = [e \in Ends |-> "none"]
  /\ inbound = [at |-> "idle", end |-> None] /\ stopping = FALSE 
  /\ faults = 0 /\ frames = 0

-----------------------------------------------------------------------------
(* Sessions *)

Handler(c)  == <<"handler", c>>
Writer(c)   == <<"writer", c>>
Canceler(c) == <<"cancel", c>>
Pump(e)     == <<"pump", e>>
Dispatcher  == <<"dispatch", None>>

Free(p) == \A c \in Conns : closer[c] # p

\* The streams a session lists, and what it lists under an ID.
Listed(c) == {e \in Ends : listed[e] /\ held[e] = c}
At(c, id) == {e \in Listed(c) : sid[e] = id}

\* closeAllStreams up to its wait for the writer, by process p.
Shuts(p, c) ==
  /\ closed' = Set(closed, c, TRUE)
  /\ closer' = Set(closer, c, p)
  /\ listed' = SetAll(listed, Listed(c), FALSE)
  /\ dead' = SetAll(dead, Listed(c), TRUE)
  /\ fin' = SetAll(fin, Listed(c), TRUE)
  /\ UNCHANGED <<pump, shut, data>>

\* The rest of closeAllStreams: the writer is through, the WebSocket is closed.
Closes(c) ==
  /\ closer[c] # None /\ writer[c] # "run"
  /\ closer' = Set(closer, c, None)
  /\ ws' = Set(ws, c, FALSE)
  /\ UNCHANGED <<desk, book, online, out, closed, writer, ids, place, pipe, stream, told,
                 inbound, gate>>

\* send: the frame is queued.
Queues(c) ==
  /\ ~closed[c] /\ out[c] < QueueSize
  /\ out' = Set(out, c, out[c] + 1)

\* writeLoop: a frame is written, or it cannot be.
Writes(c) ==
  /\ writer[c] = "run" /\ out[c] > 0 /\ online[c] /\ ws[c]
  /\ out' = Set(out, c, out[c] - 1)
  /\ UNCHANGED <<desk, book, link, session, writer, ids, place, pipe, stream, told,
                 inbound, gate>>

Stuck(c) == IF out[c] > 0 THEN ~(online[c] /\ ws[c]) ELSE closed[c]

\* Mutant of WriterEnds: the session is closed before the end is announced.
WriterWaits(c) ==
  /\ writer[c] = "run" /\ Stuck(c) /\ Free(Writer(c))
  /\ IF closed[c]
     THEN writer' = Set(writer, c, "done") /\ UNCHANGED <<session, pipe, stream>>
     ELSE Shuts(Writer(c), c) /\ UNCHANGED writer
  /\ UNCHANGED <<desk, book, link, out, ids, place, told, inbound, gate>>

WriterEnds(c) ==
  /\ writer[c] = "run" /\ Stuck(c)
  /\ writer' = Set(writer, c, "done")
  /\ UNCHANGED <<desk, book, link, out, session, ids, place, pipe, stream, told,
                 inbound, gate>>

\* ... or its deadline passes.
WriteFails(c) ==
  /\ writer[c] = "run" /\ out[c] > 0 /\ ~Stuck(c) /\ Faulty
  /\ writer' = Set(writer, c, "done")
  /\ UNCHANGED <<desk, book, link, out, session, ids, place, pipe, stream, told, inbound,
                 stopping, frames>>

\* ... and its deferred closeAllStreams.
WriterCloses(c) ==
  /\ writer[c] = "done"
  /\ writer' = Set(writer, c, "gone")
  /\ IF closed[c] THEN UNCHANGED <<session, pipe, stream>> ELSE Shuts(Writer(c), c)
  /\ UNCHANGED <<desk, book, link, out, ids, place, told, inbound, gate>>

\* context.AfterFunc of the session.
Cancels(c) ==
  /\ stopping /\ phase[c] # "gone" /\ (ws[c] \/ ~closed[c])
  /\ ws' = Set(ws, c, FALSE)
  /\ IF closed[c] THEN UNCHANGED <<session, pipe, stream>> ELSE Shuts(Canceler(c), c)
  /\ UNCHANGED <<desk, book, online, out, writer, ids, place, told, inbound, gate>>

Track(c, id) == ~closed[c] /\ Cardinality(Listed(c)) < MaxStreams /\ At(c, id) = {}

-----------------------------------------------------------------------------
(* handleWS: authentication and the end *)

At_(c, ph) == phase[c] = ph /\ Free(Handler(c))
Goto(c, ph) == phase' = Set(phase, c, ph)
Resumes(c) == Goto(c, "loop") /\ arg' = Set(arg, c, None)

Reads(c, ph) == At_(c, ph) /\ online[c] /\ ws[c]

\* Not an Auth frame, or the wrong code or mode.
Rejected(c) ==
  /\ Reads(c, "auth") /\ Faulty
  /\ Goto(c, "reject")
  /\ UNCHANGED <<arg, book, link, out, session, writer, ids, place, pipe, stream, told,
                 inbound, stopping, frames>>

\* The mode is service: the one place for it is taken, or free.
Serves(c, n) ==
  /\ Reads(c, "auth") /\ <<c, n>> \in AsService
  /\ IF service = None
     THEN service' = c /\ name' = Set(name, c, n) /\ Goto(c, "name")
     ELSE Goto(c, "reject") /\ UNCHANGED <<name, service>>
  /\ UNCHANGED <<arg, clients, link, out, session, writer, ids, place, pipe, stream, told,
                 inbound, gate>>

\* A name belongs to one session (of either mode) at a time.
Registers(c, n) ==
  /\ \/ Reads(c, "auth") /\ <<c, n>> \in AsClient
     \/ At_(c, "name") /\ name[c] = n
  /\ name' = Set(name, c, n)
  /\ IF clients[n] = None
     THEN clients' = Set(clients, n, c) /\ Goto(c, "greet")
     ELSE Goto(c, "reject") /\ UNCHANGED clients
  /\ UNCHANGED <<arg, service, link, out, session, writer, ids, place, pipe, stream,
                 told, inbound, gate>>

\* Frames whose fate does not matter to the handler: AuthErr, AuthOk, DialErr.
Then == [reject |-> "leave", greet |-> "loop", refuse |-> "loop"]

Replies(c) ==
  /\ phase[c] \in DOMAIN Then /\ Free(Handler(c))
  /\ \/ Queues(c)
        /\ told' = IF phase[c] = "refuse" THEN Set(told, arg[c], "refused") ELSE told
     \/ closed[c] /\ UNCHANGED <<out, told>>
  /\ Goto(c, Then[phase[c]]) /\ arg' = Set(arg, c, None)
  /\ UNCHANGED <<book, link, session, writer, ids, place, pipe, stream, inbound, gate>>

\* The read fails, and the deferred calls run: name, service, closeAllStreams, ws.
Unregisters(c) ==
  /\ \/ phase[c] \in {"auth", "loop"} /\ ~(online[c] /\ ws[c])
     \/ phase[c] = "leave"
  /\ Free(Handler(c))
  /\ clients' = [n \in Names |-> IF clients[n] = c THEN None ELSE clients[n]]
  /\ Goto(c, "unserve")
  /\ UNCHANGED <<arg, name, service, link, out, session, writer, ids, place, pipe, stream,
                 told, inbound, gate>>

Unserves(c) ==
  /\ At_(c, "unserve")
  /\ service' = IF service = c THEN None ELSE service
  /\ Goto(c, "close")
  /\ IF closed[c] THEN UNCHANGED <<session, pipe, stream>> ELSE Shuts(Handler(c), c)
  /\ UNCHANGED <<arg, name, clients, link, out, writer, ids, place, told, inbound, gate>>

Ends_(c) ==
  /\ At_(c, "close")
  /\ ws' = Set(ws, c, FALSE) /\ Goto(c, "gone")
  /\ UNCHANGED <<arg, book, online, out, session, writer, ids, place, pipe, stream, told,
                 inbound, gate>>

\* A process that finds the queue of an open session full ends the session first.
Overflows(p, c) ==
  /\ Free(p) /\ ~closed[c] /\ out[c] = QueueSize /\ Faulty
  /\ Shuts(p, c)
  /\ UNCHANGED <<desk, book, link, out, writer, ids, place, told, inbound, stopping, frames>>

-----------------------------------------------------------------------------
(* handleDial *)

Unused == {p \in Pipes : held[<<p, 1>>] = None}
NewPipe == CHOOSE p \in Unused : TRUE

\* The stream of a dial, from session c into the mesh or to session t.
Makes(e, c, t) ==
  /\ e = <<NewPipe, 1>>
  /\ held' = [held EXCEPT ![e] = c, ![Peer(e)] = t]
  /\ arg' = Set(arg, c, e)
  /\ dials' = Set(dials, c, dials[c] + 1)

\* close of the underlying streams and of st.done; what else is forgotten.
Kills(es, gone) ==
  /\ listed' = SetAll(listed, gone, FALSE)
  /\ dead' = SetAll(dead, es, TRUE)
  /\ fin' = SetAll(fin, es, TRUE)

\* A target of the mesh is reached, or not, or there is no such target.
MeshFails(c) ==
  /\ Reads(c, "loop") /\ Unused # {}
  /\ \E e \in Ends : Makes(e, c, Mesh) /\ sid' = Set(sid, e, FirstDialId + dials[c])
                     /\ dead' = SetAll(dead, {e, Peer(e)}, TRUE)
  /\ Goto(c, "refuse")
  /\ UNCHANGED <<book, link, out, session, writer, nextID, shut, data, stream, told,
                 inbound, gate>>

MeshOpens(c) ==
  /\ Reads(c, "loop") /\ Unused # {}
  /\ \E e \in Ends :
       LET id == FirstDialId + dials[c] IN
       /\ Makes(e, c, Mesh) /\ sid' = Set(sid, e, id)
       /\ IF Track(c, id)
          THEN Goto(c, "answer") /\ listed' = Set(listed, e, TRUE) /\ UNCHANGED <<dead, fin>>
          ELSE Goto(c, "refuse") /\ Kills({e}, {})
  /\ UNCHANGED <<book, link, out, session, writer, nextID, shut, data, pump, told,
                 inbound, gate>>

\* bridgeDial: the end of the caller is filed.
Bridges(c, n) ==
  /\ Reads(c, "loop") /\ Unused # {}
  /\ \E e \in Ends :
       LET t == clients[n]  id == FirstDialId + dials[c] IN
       /\ Makes(e, c, t) /\ sid' = Set(sid, e, id)
       /\ CASE t \in {None, c} -> Goto(c, "refuse") /\ Kills({e, Peer(e)}, {})
            [] OTHER -> IF Track(c, id)
                        THEN Goto(c, "bridge") /\ listed' = Set(listed, e, TRUE)
                             /\ UNCHANGED <<dead, fin>>
                        ELSE Goto(c, "refuse") /\ Kills({e, Peer(e)}, {})
  /\ UNCHANGED <<book, link, out, session, writer, nextID, shut, data, pump, told,
                 inbound, gate>>

\* Mutant of TrackTarget: the end of the caller stays on its table.
TrackTargetOnly(c) ==
  LET a == arg[c]  b == Peer(arg[c])  t == held[Peer(arg[c])] IN
  /\ At_(c, "bridge")
  /\ nextID' = Set(nextID, t, nextID[t] + 1) /\ sid' = Set(sid, b, nextID[t] + 1)
  /\ IF Track(t, nextID[t] + 1)
     THEN Goto(c, "open") /\ listed' = Set(listed, b, TRUE) /\ UNCHANGED <<dead, fin>>
     ELSE Goto(c, "refuse") /\ dead' = Set(dead, b, TRUE) /\ UNCHANGED <<listed, fin>>
  /\ UNCHANGED <<arg, book, link, out, session, writer, dials, held, shut, data, pump, told,
                 inbound, gate>>

\* ... the end of the target, under an ID of the gateway, ...
TrackTarget(c) ==
  LET a == arg[c]  b == Peer(arg[c])  t == held[Peer(arg[c])] IN
  /\ At_(c, "bridge")
  /\ nextID' = Set(nextID, t, nextID[t] + 1) /\ sid' = Set(sid, b, nextID[t] + 1)
  /\ IF Track(t, nextID[t] + 1)
     THEN Goto(c, "open") /\ listed' = Set(listed, b, TRUE) /\ UNCHANGED <<dead, fin>>
     ELSE Goto(c, "refuse") /\ Kills(At(c, sid[a]) \union {b}, At(c, sid[a]))
  /\ UNCHANGED <<arg, book, link, out, session, writer, dials, held, shut, data, pump, told,
                 inbound, gate>>

\* rollback, by ID on both sessions.
RollsBack(a, b) ==
  LET es == At(held[a], sid[a]) \union At(held[b], sid[b]) IN Kills(es, es)

Pumped(e) == {x \in {e, Peer(e)} : held[x] # Mesh}

\* Mutant of TellsTarget: the caller is answered, and the pumps start, before that.
AnswersEarly(c) ==
  LET a == arg[c] IN
  /\ At_(c, "open")
  /\ Queues(c) /\ told' = Set(told, a, "opened")
  /\ pump' = SetAll(pump, Pumped(a), "read") /\ Resumes(c)
  /\ UNCHANGED <<book, link, session, writer, ids, place, shut, data, listed, dead, fin,
                 inbound, gate>>

\* ... the target is told, ...
TellsTarget(c) ==
  LET b == Peer(arg[c])  t == held[Peer(arg[c])] IN
  /\ At_(c, "open")
  /\ \/ Queues(t) /\ told' = Set(told, b, "opened") /\ Goto(c, "answer")
        /\ UNCHANGED <<listed, dead, fin>>
     \/ closed[t] /\ RollsBack(arg[c], b) /\ Goto(c, "refuse") /\ UNCHANGED <<out, told>>
  /\ UNCHANGED <<arg, book, link, session, writer, ids, place, shut, data, pump, inbound, gate>>

\* ... and the caller: DialOk, then the pumps start.
Answers(c) ==
  LET a == arg[c] IN
  /\ At_(c, "answer")
  /\ \/ /\ Queues(c) /\ told' = Set(told, a, "opened")
        /\ pump' = SetAll(pump, Pumped(a), "read") /\ Resumes(c)
        /\ UNCHANGED <<listed, dead, fin>>
     \/ /\ closed[c] /\ UNCHANGED <<out, told, pump>>
        /\ IF held[Peer(a)] = Mesh
           THEN Resumes(c) /\ UNCHANGED <<listed, dead, fin>>
           ELSE Goto(c, "undo") /\ RollsBack(a, Peer(a)) /\ UNCHANGED arg
  /\ UNCHANGED <<book, link, session, writer, ids, place, shut, data, inbound, gate>>

Undoes(c) ==
  LET b == Peer(arg[c])  t == held[Peer(arg[c])] IN
  /\ At_(c, "undo")
  /\ \/ Queues(t) /\ told' = Set(told, b, "reset")
     \/ closed[t] /\ UNCHANGED <<out, told>>
  /\ Resumes(c)
  /\ UNCHANGED <<book, link, session, writer, ids, place, pipe, stream, inbound, gate>>

-----------------------------------------------------------------------------
(* Frames of the client about a stream it knows *)

Frame(c, e) == Counts /\ Reads(c, "loop") /\ e \in Listed(c) /\ told[e] # "none"

\* Data: Write waits for room at the other end, or for the end of the stream.
Data(c, e) ==
  LET other == Peer(e) IN
  /\ Frame(c, e) /\ ~shut[e] /\ ~dead[e] /\ ~dead[other]
  /\ IF data[other] = 0
     THEN data' = Set(data, other, 1) /\ UNCHANGED desk
     ELSE Goto(c, "write") /\ arg' = Set(arg, c, e) /\ UNCHANGED data
  /\ UNCHANGED <<book, link, out, session, writer, ids, place, shut, dead, stream, told,
                 inbound, stopping, faults>>

Written(c) ==
  LET e == arg[c]  other == Peer(arg[c]) IN
  /\ At_(c, "write")
  /\ \/ data[other] = 0 /\ data' = Set(data, other, 1)
     \/ (dead[other] \/ (held[other] = Mesh /\ dead[e])) /\ UNCHANGED data
  /\ Resumes(c)
  /\ UNCHANGED <<book, link, out, session, writer, ids, place, shut, dead, stream, told,
                 inbound, gate>>

\* Close: half of the stream; FullyHalfClosed knows a pipe's own halves only.
CloseFrame(c, e) ==
  /\ Frame(c, e)
  /\ shut' = Set(shut, e, TRUE)
  /\ IF held[Peer(e)] # Mesh /\ dead[e] THEN Kills({e}, {e}) ELSE UNCHANGED <<listed, dead, fin>>
  /\ UNCHANGED <<desk, book, link, out, session, writer, ids, place, data, pump, told,
                 inbound, stopping, faults>>

ResetFrame(c, e) ==
  /\ Frame(c, e)
  /\ Kills({e}, {e}) /\ told' = Set(told, e, "self")
  /\ UNCHANGED <<desk, book, link, out, session, writer, ids, place, shut, data, pump,
                 inbound, stopping, faults>>

Ping(c) ==
  /\ Reads(c, "loop") /\ Counts /\ Queues(c)
  /\ UNCHANGED <<desk, book, link, session, writer, ids, place, pipe, stream, told, inbound,
                 stopping, faults>>

-----------------------------------------------------------------------------
(* pumpStreamToClient *)

Reading(e) == pump[e] = "read" /\ Free(Pump(e))

\* What Read returns: data first, then the end of the other side, or an error.
HasData(e) == data[e] > 0
AtEOF(e)   == data[e] = 0 /\ shut[Peer(e)] /\ ~dead[e]
Fails(e)   == dead[e] \/ (dead[Peer(e)] /\ (data[e] = 0 \/ held[Peer(e)] = Mesh))

PumpsData(e) ==
  LET c == held[e] IN
  /\ Reading(e) /\ HasData(e)
  /\ data' = Set(data, e, 0)
  /\ \/ Queues(c) /\ UNCHANGED pump
     \/ closed[c] /\ pump' = Set(pump, e, "leave") /\ UNCHANGED out
  /\ UNCHANGED <<desk, book, link, session, writer, ids, place, listed, shut, dead, fin,
                 told, inbound, gate>>

\* Mutant of PumpsEOF: what is still in the pipe is not drained.
PumpsEOFAtOnce(e) ==
  LET c == held[e] IN
  /\ Reading(e) /\ shut[Peer(e)] /\ ~dead[e]
  /\ \/ Queues(c) /\ told' = Set(told, e, "closed")
     \/ closed[c] /\ UNCHANGED <<out, told>>
  /\ pump' = Set(pump, e, "eof")
  /\ UNCHANGED <<desk, book, link, session, writer, ids, place, pipe, listed, fin, inbound, gate>>

PumpsEOF(e) ==
  LET c == held[e] IN
  /\ Reading(e) /\ AtEOF(e)
  /\ \/ Queues(c) /\ told' = Set(told, e, "closed")
     \/ closed[c] /\ UNCHANGED <<out, told>>
  /\ pump' = Set(pump, e, "eof")
  /\ UNCHANGED <<desk, book, link, session, writer, ids, place, pipe, listed, fin, inbound, gate>>

PumpsReset(e) ==
  LET c == held[e] IN
  /\ Reading(e) /\ Fails(e)
  /\ \/ Queues(c) /\ told' = IF told[e] = "self" THEN told ELSE Set(told, e, "reset")
     \/ closed[c] /\ UNCHANGED <<out, told>>
  /\ dead' = Set(dead, e, TRUE) /\ fin' = Set(fin, e, TRUE)
  /\ pump' = Set(pump, e, "leave")
  /\ UNCHANGED <<desk, book, link, session, writer, ids, place, shut, data, listed, inbound, gate>>

PumpWakes(e) ==
  /\ pump[e] = "eof" /\ fin[e]
  /\ pump' = Set(pump, e, "leave")
  /\ UNCHANGED <<desk, book, link, out, session, writer, ids, place, pipe, listed, fin, told,
                 inbound, gate>>

\* The deferred untrack: whatever is listed under the ID goes.
PumpLeaves(e) ==
  /\ pump[e] = "leave"
  /\ pump' = Set(pump, e, "gone")
  /\ listed' = SetAll(listed, At(held[e], sid[e]), FALSE)
  /\ UNCHANGED <<desk, book, link, out, session, writer, ids, place, pipe, fin, told,
                 inbound, gate>>

-----------------------------------------------------------------------------
(* dispatchInbound *)

Arrives ==
  /\ inbound.at = "idle" /\ ~stopping /\ Unused # {}
  /\ LET e == <<NewPipe, 2>> IN
     /\ held' = [held EXCEPT ![e] = service, ![Peer(e)] = Mesh]
     /\ IF service = None
        THEN dead' = SetAll(dead, {e, Peer(e)}, TRUE) /\ UNCHANGED inbound
        ELSE inbound' = [at |-> "file", end |-> e] /\ UNCHANGED dead
  /\ UNCHANGED <<desk, book, link, out, session, writer, ids, sid, shut, data, stream, told,
                 gate>>

Files ==
  LET e == inbound.end  c == held[inbound.end] IN
  /\ inbound.at = "file"
  /\ nextID' = Set(nextID, c, nextID[c] + 1) /\ sid' = Set(sid, e, nextID[c] + 1)
  /\ IF Track(c, nextID[c] + 1)
     THEN /\ listed' = Set(listed, e, TRUE) /\ inbound' = [inbound EXCEPT !.at = "announce"]
          /\ UNCHANGED <<dead, fin>>
     ELSE Kills({e}, {}) /\ inbound' = [at |-> "idle", end |-> None]
  /\ UNCHANGED <<desk, book, link, out, session, writer, dials, held, shut, data, pump, told,
                 gate>>

Announces ==
  LET e == inbound.end  c == held[inbound.end] IN
  /\ inbound.at = "announce" /\ Free(Dispatcher)
  /\ \/ /\ Queues(c) /\ told' = Set(told, e, "opened") /\ pump' = Set(pump, e, "read")
        /\ UNCHANGED <<listed, dead>>
     \/ /\ closed[c] /\ UNCHANGED <<out, told, pump>>
        /\ dead' = Set(dead, e, TRUE) /\ listed' = SetAll(listed, At(c, sid[e]), FALSE)
  /\ inbound' = [at |-> "idle", end |-> None]
  /\ UNCHANGED <<desk, book, link, session, writer, ids, place, shut, data, fin, gate>>

-----------------------------------------------------------------------------
(* Queues that are full, clients that go, and the other end in the mesh *)

HandlerOverflows(c) ==
  \/ phase[c] \in DOMAIN Then \union {"answer"} /\ Overflows(Handler(c), c)
  \/ phase[c] \in {"open", "undo"} /\ Overflows(Handler(c), held[Peer(arg[c])])

PumpOverflows(e) ==
  /\ Reading(e) /\ (HasData(e) \/ AtEOF(e) \/ Fails(e))
  /\ Overflows(Pump(e), held[e])

DispatcherOverflows ==
  inbound.at = "announce" /\ Overflows(Dispatcher, held[inbound.end])

Disconnects(c) ==
  /\ Faulty
  /\ online[c] /\ online' = Set(online, c, FALSE)
  /\ UNCHANGED <<desk, book, ws, out, session, writer, ids, place, pipe, stream, told,
                 inbound, stopping, frames>>

Stops ==
  /\ Faulty
  /\ ~stopping /\ stopping' = TRUE
  /\ \E c \in Conns : \A d \in Conns \ {c} : phase[d] = "gone" \* (bound)
  /\ UNCHANGED <<desk, book, link, out, session, writer, ids, place, pipe, stream, told,
                 inbound, frames>>

Outside(e) == held[e] = Mesh /\ ~dead[e] /\ ~dead[Peer(e)]

RemoteWrites(e) ==
  /\ Outside(e) /\ ~shut[e] /\ Counts
  /\ \/ data[Peer(e)] = 0 /\ data' = Set(data, Peer(e), 1) /\ UNCHANGED <<shut, dead>>
     \/ shut' = Set(shut, e, TRUE) /\ UNCHANGED <<data, dead>>
     \/ dead' = Set(dead, e, TRUE) /\ UNCHANGED <<shut, data>>
  /\ UNCHANGED <<desk, book, link, out, session, writer, ids, place, stream, told,
                 inbound, stopping, faults>>

RemoteReads(e) ==
  /\ Outside(e) /\ data[e] > 0 /\ data' = Set(data, e, 0)
  /\ UNCHANGED <<desk, book, link, out, session, writer, ids, place, shut, dead, stream,
                 told, inbound, gate>>

-----------------------------------------------------------------------------

Handles(c) ==
  \/ Rejected(c) \/ \E n \in Names : Serves(c, n) \/ Registers(c, n)
  \/ Replies(c) \/ HandlerOverflows(c)
  \/ TrackTarget(c) \/ TellsTarget(c) \/ Answers(c) \/ Undoes(c) \/ Written(c)
  \/ Unregisters(c) \/ Unserves(c) \/ Ends_(c)

PingOverflows(c) == Reads(c, "loop") /\ Overflows(Handler(c), c)

Asks(c) ==
  \/ MeshFails(c) \/ MeshOpens(c) \/ \E n \in Names : Bridges(c, n)
  \/ \E e \in Ends : Data(c, e) \/ CloseFrame(c, e) \/ ResetFrame(c, e)
  \/ Ping(c) \/ PingOverflows(c)

Pumps(e) ==
  \/ PumpsData(e) \/ PumpsEOF(e) \/ PumpsReset(e) \/ PumpWakes(e) \/ PumpLeaves(e)
  \/ PumpOverflows(e)

WritesOn(c) == Writes(c) \/ WriterEnds(c) \/ WriterCloses(c)

Dispatches == Files \/ Announces \/ DispatcherOverflows

\* The goroutines run; a socket takes a frame or its deadline passes; a peer in the
\* mesh goes on reading what it is sent.  (One condition for all of them is weaker
\* than one for each, and enough as long as the bounds leave nobody busy for ever.)
Runs ==
  \/ \E c \in Conns : Handles(c) \/ WritesOn(c) \/ Closes(c) \/ Cancels(c)
  \/ \E e \in Ends : Pumps(e) \/ RemoteReads(e)
  \/ Dispatches

Next ==
  \/ Runs
  \/ \E c \in Conns : Asks(c) \/ Disconnects(c) \/ WriteFails(c)
  \/ \E e \in Ends : RemoteWrites(e)
  \/ Arrives \/ Stops

Fairness == WF_vars(Runs)

Spec == Init /\ [][Next]_vars
FairSpec == Spec /\ Fairness

-----------------------------------------------------------------------------
(* Properties *)

\* No frame of a stream is queued for a client before the frame that opens it: both
\* pumps of a bridge start after both clients are told (bridgeDial).
AnswerFirst ==
  \A e \in Ends : pump[e] = "read" => told[e] \notin {"none", "refused"}

\* A client is told of the end of a stream when everything before it was delivered.
EOFAfterData ==
  \A e \in Ends : told[e] = "closed" /\ held[Peer(e)] # None => data[e] = 0

\* A session ends whoever ends it: the client that goes, a queue that is full, the
\* gateway that stops.  Its name and the place of the service are free again, and no
\* goroutine of it stays.
SessionEnds ==
  \A c \in Conns :
    closed[c] \/ ~online[c] \/ stopping
      ~> /\ phase[c] = "gone" /\ writer[c] = "gone" /\ service # c
         /\ \A n \in Names : clients[n] # c
         /\ \A e \in Ends : held[e] = c => pump[e] \in {"none", "gone"}

\* When one side of a stream goes, the session on the other side hears of it and gives
\* the place of the stream back: the client is told, or went itself, unless it has seen
\* the end of the data before.
EndIsPassedOn ==
  \A e \in Ends :
    (listed[e] \/ told[e] = "opened") /\ (dead[e] \/ dead[Peer(e)])
      ~> \/ ~listed[e] /\ told[e] # "opened"
         \/ told[e] = "closed" \/ closed[held[e]]
=============================================================================
