---------------------------- MODULE GatewayProofs ----------------------------
(* Theorems about Gateway. *)
EXTENDS Gateway, FiniteSetTheorems, TLAPS

Phases == {"auth", "name", "reject", "greet", "loop", "refuse", "bridge", "open", "answer", "undo", "write",
           "leave", "unserve", "close", "gone"}
Tales == {"none", "refused", "opened", "closed", "reset", "self"}

Types ==
  /\ phase \in [Conns -> Phases] /\ arg \in [Conns -> Ends \union {None}]
  /\ clients \in [Names -> Conns \union {None}] /\ service \in Conns \union {None}
  /\ held \in [Ends -> Conns \union {None, Mesh}] /\ sid \in [Ends -> Nat]
  /\ dials \in [Conns -> Nat] /\ nextID \in [Conns -> Nat]
  /\ listed \in [Ends -> BOOLEAN] /\ shut \in [Ends -> BOOLEAN] /\ dead \in [Ends -> BOOLEAN]
  /\ data \in [Ends -> {0, 1}] /\ fin \in [Ends -> BOOLEAN]
  /\ pump \in [Ends -> {"none", "read", "eof", "leave", "gone"}] /\ told \in [Ends -> Tales]
  /\ inbound \in [at : {"idle", "file", "announce"}, end : Ends \union {None}]

\* The stream of the end e was made.
Made(e) == held[e] # None \/ held[Peer(e)] # None

\* A pipe is used from its first end on; nothing is known of one that is not.
Untouched ==
  /\ \A e \in Ends : e[2] = 1 /\ held[e] = None => held[Peer(e)] = None
  /\ \A e \in Ends : ~Made(e) => pump[e] = "none" /\ listed[e] = FALSE

Busy == {"refuse", "bridge", "open", "answer", "undo"}

\* The stream e is being made: no pump runs yet.
Young(e) == e \in Ends /\ Made(e) /\ pump[e] = "none" /\ pump[Peer(e)] = "none"

\* What a session is busy with is its own affair.
Dialling(c) ==
  /\ Young(arg[c])
  /\ \A d \in Conns \ {c} : phase[d] \in Busy => arg[d] # arg[c] /\ arg[d] # Peer(arg[c])
  /\ inbound.at # "idle" => inbound.end # arg[c] /\ inbound.end # Peer(arg[c])
  /\ phase[c] = "bridge" => listed[Peer(arg[c])] = FALSE /\ held[Peer(arg[c])] \in Conns
  /\ phase[c] = "answer" => held[Peer(arg[c])] = Mesh \/ told[Peer(arg[c])] \notin {"none", "refused"}

Writing(c) == arg[c] \in Ends /\ held[arg[c]] = c /\ shut[arg[c]] = FALSE

Dispatching ==
  inbound.at # "idle" =>
    /\ Young(inbound.end) /\ held[inbound.end] \in Conns
    /\ inbound.at = "file" => listed[inbound.end] = FALSE

Drained == \A e \in Ends : told[e] = "closed" => shut[Peer(e)] = TRUE /\ data[e] = 0

\* No two streams of a session are listed under the same ID.
OneStreamPerID ==
  \A e, f \in Ends :
    listed[e] = TRUE /\ listed[f] = TRUE /\ held[e] = held[f] /\ sid[e] = sid[f] => e = f

IInv ==
  /\ Types /\ Untouched
  /\ \A c \in Conns : phase[c] \in Busy => Dialling(c)
  /\ \A c \in Conns : phase[c] = "write" => Writing(c)
  /\ Dispatching /\ Drained /\ AnswerFirst /\ OneStreamPerID

LEMMA Constants ==
  None \notin Conns /\ Mesh \notin Conns /\ None # Mesh /\ FirstDialId \in Nat
BY GatewayAssumption

\* The two ends of a stream.
LEMMA Peers ==
  /\ \A e \in Ends : Peer(e) \in Ends /\ Peer(Peer(e)) = e /\ Peer(e) # e
  /\ \A e, f \in Ends : Peer(e) = Peer(f) => e = f
  /\ \A e \in Ends : e[2] = 1 \/ Peer(e)[2] = 1
BY DEF Ends, Peer

\* The end a dial, or the mesh, begins with.
LEMMA NewEnd ==
  ASSUME Untouched, Unused # {}
  PROVE  /\ <<NewPipe, 1>> \in Ends /\ <<NewPipe, 2>> \in Ends
         /\ ~Made(<<NewPipe, 1>>) /\ ~Made(<<NewPipe, 2>>)
         /\ Peer(<<NewPipe, 1>>) = <<NewPipe, 2>> /\ Peer(<<NewPipe, 2>>) = <<NewPipe, 1>>
<1>1. NewPipe \in Pipes /\ held[<<NewPipe, 1>>] = None
  BY DEF Unused, NewPipe
<1> HIDE DEF NewPipe
<1>2. /\ <<NewPipe, 1>> \in Ends /\ <<NewPipe, 2>> \in Ends
      /\ Peer(<<NewPipe, 1>>) = <<NewPipe, 2>> /\ Peer(<<NewPipe, 2>>) = <<NewPipe, 1>>
  BY <1>1 DEF Ends, Peer
<1> QED
  BY <1>1, <1>2 DEF Untouched, Made

LEMMA Starting == Init => IInv
<1> SUFFICES ASSUME Init PROVE IInv
  OBVIOUS
<1> USE Constants, Peers DEF Init
<1>1. Types
  BY DEF Types, Phases, Tales
<1>2. Untouched /\ Dispatching /\ Drained /\ AnswerFirst /\ OneStreamPerID
  BY DEF Untouched, Dispatching, Drained, AnswerFirst, OneStreamPerID
<1>3. \A c \in Conns : phase[c] = "auth"
  OBVIOUS
<1> QED
  BY <1>1, <1>2, <1>3 DEF IInv, Busy

\* Steps that make no stream: nobody begins to dial, to write or to dispatch, and what is
\* told, read and written is what may be.
CalmDesks ==
  /\ \A c \in Conns : phase'[c] \in Busy \/ phase'[c] = "write" => phase'[c] = phase[c] /\ arg'[c] = arg[c]
  /\ held' = held /\ sid' = sid /\ inbound' = inbound

CalmPumps == \A e \in Ends : (pump[e] = "none" => pump'[e] = "none") /\ (pump'[e] = "read" => pump[e] = "read")

CalmTales ==
  \A e \in Ends :
    \/ told'[e] = told[e] \/ told'[e] \in {"opened", "reset", "self"}
    \/ told'[e] = "closed" /\ shut[Peer(e)] = TRUE /\ data'[e] = 0
    \/ /\ told'[e] = "refused" /\ pump[e] = "none"
       /\ \A c \in Conns : phase'[c] = "answer" => e # Peer(arg[c])

CalmPipes ==
  /\ \A e \in Ends : shut[e] = TRUE => shut'[e] = TRUE
  /\ \A c \in Conns : phase'[c] = "write" => shut'[arg[c]] = shut[arg[c]]
  /\ \A e \in Ends : data'[e] \in {0, data[e]} \/ (shut[Peer(e)] = FALSE /\ shut'[Peer(e)] = FALSE)
  /\ \A e \in Ends : listed'[e] = TRUE => listed[e] = TRUE

LEMMA Quiet ==
  ASSUME IInv, Types', CalmDesks, CalmPumps, CalmTales, CalmPipes
  PROVE  IInv'
<1> USE Peers DEF IInv, CalmDesks, CalmPumps, CalmTales, CalmPipes
<1>1. \A e \in Ends : (Made(e) <=> Made(e)') /\ (Young(e) => Young(e)')
  BY DEF Made, Young
<1>2. \A e \in Ends : listed[e] = FALSE => listed'[e] = FALSE
  BY DEF Types
<1>3. Untouched'
  BY <1>1, <1>2 DEF Untouched
<1>4. ASSUME NEW c \in Conns, phase'[c] \in Busy PROVE Dialling(c)'
  <2>1. phase'[c] = phase[c] /\ arg'[c] = arg[c] /\ Dialling(c)
    BY <1>4
  <2>2. \A d \in Conns : phase'[d] \in Busy => phase[d] \in Busy /\ arg'[d] = arg[d]
    OBVIOUS
  <2>3. phase[c] = "answer" => held[Peer(arg[c])] = Mesh \/ told'[Peer(arg[c])] \notin {"none", "refused"}
    <3> SUFFICES ASSUME phase[c] = "answer" PROVE held[Peer(arg[c])] = Mesh \/ told'[Peer(arg[c])] \notin {"none", "refused"}
      OBVIOUS
    <3>1. Peer(arg[c]) \in Ends /\ phase'[c] = "answer"
      BY <2>1 DEF Dialling, Young
    <3>2. held[Peer(arg[c])] = Mesh \/ told[Peer(arg[c])] \notin {"none", "refused"}
      BY <2>1 DEF Dialling
    <3> QED
      BY <3>1, <3>2
  <2> QED
    BY <1>1, <1>2, <2>1, <2>2, <2>3 DEF Dialling, Young
<1>5. ASSUME NEW c \in Conns, phase'[c] = "write" PROVE Writing(c)'
  BY <1>5 DEF Writing
<1>6. Dispatching'
  BY <1>1, <1>2 DEF Dispatching, Young
<1>7. Drained'
  BY DEF Drained
<1>8. AnswerFirst'
  BY DEF AnswerFirst
<1>9. OneStreamPerID'
  BY DEF OneStreamPerID
<1> QED
  BY <1>3, <1>4, <1>5, <1>6, <1>7, <1>8, <1>9

\* closeAllStreams, and what else takes streams off the tables.
LEMMA Unlisting ==
  ASSUME Types, NEW xs \in SUBSET Ends, NEW ys \in SUBSET Ends, listed' = SetAll(listed, xs, FALSE),
         dead' = SetAll(dead, ys, TRUE), fin' = SetAll(fin, ys, TRUE)
  PROVE  /\ listed' \in [Ends -> BOOLEAN] /\ dead' \in [Ends -> BOOLEAN] /\ fin' \in [Ends -> BOOLEAN]
         /\ \A e \in Ends : listed'[e] = TRUE => listed[e] = TRUE
BY DEF Types, SetAll

LEMMA Shutting ==
  ASSUME Types, NEW p, NEW c, Shuts(p, c)
  PROVE  /\ listed' \in [Ends -> BOOLEAN] /\ dead' \in [Ends -> BOOLEAN] /\ fin' \in [Ends -> BOOLEAN]
         /\ \A e \in Ends : listed'[e] = TRUE => listed[e] = TRUE
         /\ UNCHANGED <<pump, shut, data>>
<1>1. Listed(c) \in SUBSET Ends
  BY DEF Listed
<1> HIDE DEF Listed
<1> QED
  BY <1>1, Unlisting DEF Shuts

\* Steps of the writer, of the context, of the client and of the gateway, and those of a
\* queue that is full.
LEMMA SessionSteps ==
  ASSUME IInv,
         \/ \E c \in Conns : \/ Writes(c) \/ WriterEnds(c) \/ WriterCloses(c) \/ WriteFails(c) \/ Closes(c) \/ Cancels(c)
                             \/ Disconnects(c) \/ Ping(c) \/ PingOverflows(c) \/ HandlerOverflows(c)
         \/ \E e \in Ends : PumpOverflows(e)
         \/ DispatcherOverflows \/ Stops \/ UNCHANGED vars
  PROVE  IInv'
<1>1. UNCHANGED <<desk, book, ids, place, told, inbound>>
  BY DEF Writes, WriterEnds, WriterCloses, WriteFails, Closes, Cancels, Disconnects, Ping, PingOverflows, HandlerOverflows,
    PumpOverflows, DispatcherOverflows, Stops, Overflows, vars
<1>2. UNCHANGED <<pipe, stream>> \/ \E p, c : Shuts(p, c)
  <2>1. CASE \E c \in Conns : \/ Writes(c) \/ WriterEnds(c) \/ WriterCloses(c) \/ WriteFails(c) \/ Closes(c) \/ Cancels(c)
                              \/ Disconnects(c) \/ Ping(c)
    BY <2>1 DEF Writes, WriterEnds, WriterCloses, WriteFails, Closes, Cancels, Disconnects, Ping
  <2>2. CASE \/ \E c \in Conns : PingOverflows(c) \/ HandlerOverflows(c)
             \/ \E e \in Ends : PumpOverflows(e)
             \/ DispatcherOverflows
    BY <2>2 DEF PingOverflows, HandlerOverflows, PumpOverflows, DispatcherOverflows, Overflows
  <2>3. CASE Stops \/ UNCHANGED vars
    BY <2>3 DEF Stops, vars
  <2> QED
    BY <2>1, <2>2, <2>3
<1>3. /\ listed' \in [Ends -> BOOLEAN] /\ dead' \in [Ends -> BOOLEAN] /\ fin' \in [Ends -> BOOLEAN]
      /\ \A e \in Ends : listed'[e] = TRUE => listed[e] = TRUE
      /\ UNCHANGED <<pump, shut, data>>
  <2>1. CASE UNCHANGED <<pipe, stream>>
    BY <2>1 DEF pipe, stream, IInv, Types
  <2> QED
    BY <1>2, <2>1, Shutting DEF IInv
<1>4. Types'
  BY <1>1, <1>3 DEF Types, IInv, desk, book, ids, place
<1>5. CalmDesks /\ CalmPumps /\ CalmTales /\ CalmPipes
  BY <1>1, <1>3 DEF CalmDesks, CalmPumps, CalmTales, CalmPipes, desk, place
<1> QED
  BY <1>4, <1>5, Quiet

\* Steps of the handler that authenticate the client, or end the session.
LEMMA AccountSteps ==
  ASSUME IInv, NEW c \in Conns,
         \/ Rejected(c) \/ Unregisters(c) \/ Unserves(c) \/ Ends_(c)
         \/ \E n \in Names : Serves(c, n) \/ Registers(c, n)
  PROVE  IInv'
<1>1. /\ UNCHANGED <<arg, ids, place, told, inbound>>
      /\ \E ph \in Phases \ (Busy \union {"write"}) : phase' = Set(phase, c, ph)
  <2>1. CASE Rejected(c) \/ Unregisters(c) \/ Unserves(c) \/ Ends_(c)
    BY <2>1 DEF Rejected, Unregisters, Unserves, Ends_, Goto, Phases, Busy
  <2>2. CASE \E n \in Names : Serves(c, n) \/ Registers(c, n)
    BY <2>2 DEF Serves, Registers, Goto, Phases, Busy
  <2> QED
    BY <2>1, <2>2
<1>2. /\ phase' \in [Conns -> Phases]
      /\ \A d \in Conns : phase'[d] \in Busy \union {"write"} => phase'[d] = phase[d]
  BY <1>1 DEF Set, IInv, Types
<1>3. clients' \in [Names -> Conns \union {None}] /\ service' \in Conns \union {None}
  BY DEF Rejected, Unregisters, Unserves, Ends_, Serves, Registers, Set, IInv, Types, book
<1>4. UNCHANGED <<pipe, stream>> \/ \E p, d : Shuts(p, d)
  BY DEF Rejected, Unregisters, Unserves, Ends_, Serves, Registers
<1>5. /\ listed' \in [Ends -> BOOLEAN] /\ dead' \in [Ends -> BOOLEAN] /\ fin' \in [Ends -> BOOLEAN]
      /\ \A e \in Ends : listed'[e] = TRUE => listed[e] = TRUE
      /\ UNCHANGED <<pump, shut, data>>
  <2>1. CASE UNCHANGED <<pipe, stream>>
    BY <2>1 DEF pipe, stream, IInv, Types
  <2> QED
    BY <1>4, <2>1, Shutting DEF IInv
<1>6. Types'
  BY <1>1, <1>2, <1>3, <1>5 DEF Types, IInv, ids, place
<1>7. CalmDesks /\ CalmPumps /\ CalmTales /\ CalmPipes
  BY <1>1, <1>2, <1>5 DEF CalmDesks, CalmPumps, CalmTales, CalmPipes, place
<1> QED
  BY <1>6, <1>7, Quiet

\* A frame whose fate does not matter to the handler.
LEMMA RepliesStep ==
  ASSUME IInv, NEW c \in Conns, Replies(c)
  PROVE  IInv'
<1>0. DOMAIN Then = {"reject", "greet", "refuse"} /\ \A ph \in DOMAIN Then : Then[ph] \in {"leave", "loop"}
  BY DEF Then
<1>1. /\ phase[c] \in {"reject", "greet", "refuse"} /\ UNCHANGED <<book, ids, place, pipe, stream, inbound>>
      /\ arg' = Set(arg, c, None)
      /\ told' = told \/ (phase[c] = "refuse" /\ told' = Set(told, arg[c], "refused"))
  BY <1>0 DEF Replies
<1>2. phase' = Set(phase, c, "leave") \/ phase' = Set(phase, c, "loop")
  BY <1>0 DEF Replies, Goto
<1>3. /\ phase' \in [Conns -> Phases] /\ phase'[c] \in {"leave", "loop"}
      /\ \A d \in Conns \ {c} : phase'[d] = phase[d]
  BY <1>2 DEF Set, IInv, Types, Phases
<1>4. arg' \in [Conns -> Ends \union {None}] /\ \A d \in Conns \ {c} : arg'[d] = arg[d]
  BY <1>1 DEF Set, IInv, Types
<1>5. CASE told' = told
  <2>1. Types'
    BY <1>1, <1>3, <1>4, <1>5 DEF IInv, Types, book, ids, place, pipe, stream
  <2>2. CalmDesks /\ CalmPumps /\ CalmTales /\ CalmPipes
    BY <1>1, <1>3, <1>4, <1>5 DEF CalmDesks, CalmPumps, CalmTales, CalmPipes, place, pipe, stream, Busy
  <2> QED
    BY <2>1, <2>2, Quiet
<1>6. CASE phase[c] = "refuse" /\ told' = Set(told, arg[c], "refused")
  <2>1. Dialling(c)
    BY <1>6 DEF IInv, Busy
  <2>2. /\ told' \in [Ends -> Tales] /\ told'[arg[c]] = "refused"
        /\ \A e \in Ends \ {arg[c]} : told'[e] = told[e]
    BY <1>6, <2>1 DEF Set, IInv, Types, Tales, Dialling, Young
  <2>3. Types'
    BY <1>1, <1>3, <1>4, <2>2 DEF IInv, Types, book, ids, place, pipe, stream
  <2>4. \A d \in Conns : phase'[d] = "answer" => arg[c] # Peer(arg[d])
    BY <1>3, <1>6, <2>1, Peers DEF IInv, Busy, Dialling, Young
  <2>5. pump[arg[c]] = "none"
    BY <2>1 DEF Dialling, Young
  <2>6. CalmTales
    BY <2>2, <2>4, <2>5 DEF CalmTales
  <2>7. CalmDesks /\ CalmPumps /\ CalmPipes
    BY <1>1, <1>3, <1>4 DEF CalmDesks, CalmPumps, CalmPipes, place, pipe, stream, Busy
  <2> QED
    BY <2>3, <2>6, <2>7, Quiet
<1> QED
  BY <1>1, <1>5, <1>6

\* The handler goes back to its loop.
LEMMA Returning ==
  ASSUME IInv, NEW c \in Conns, Resumes(c)
  PROVE  /\ phase' \in [Conns -> Phases] /\ arg' \in [Conns -> Ends \union {None}]
         /\ phase'[c] = "loop" /\ arg'[c] = None
         /\ \A d \in Conns \ {c} : phase'[d] = phase[d] /\ arg'[d] = arg[d]
BY DEF Resumes, Goto, Set, IInv, Types, Phases

LEMMA UndoesStep ==
  ASSUME IInv, NEW c \in Conns, Undoes(c)
  PROVE  IInv'
<1>1. /\ phase[c] = "undo" /\ Resumes(c) /\ UNCHANGED <<book, ids, place, pipe, stream, inbound>>
      /\ told' = told \/ told' = Set(told, Peer(arg[c]), "reset")
  BY DEF Undoes, At_
<1>2. told' \in [Ends -> Tales] /\ CalmTales
  <2>1. Peer(arg[c]) \in Ends
    BY <1>1, Peers DEF IInv, Busy, Dialling, Young
  <2> QED
    BY <1>1, <2>1 DEF CalmTales, Set, IInv, Types, Tales
<1>3. Types'
  BY <1>1, <1>2, Returning DEF IInv, Types, book, ids, place, pipe, stream
<1>4. CalmDesks /\ CalmPumps /\ CalmPipes
  BY <1>1, Returning DEF CalmDesks, CalmPumps, CalmPipes, place, pipe, stream, Busy
<1> QED
  BY <1>2, <1>3, <1>4, Quiet

\* Write goes on when there is room, and fails when the stream ends.
LEMMA WrittenStep ==
  ASSUME IInv, NEW c \in Conns, Written(c)
  PROVE  IInv'
<1>1. /\ phase[c] = "write" /\ Resumes(c) /\ UNCHANGED <<book, ids, place, shut, dead, stream, told, inbound>>
      /\ data' = data \/ data' = Set(data, Peer(arg[c]), 1)
  BY DEF Written, At_
<1>2. Writing(c) /\ Peer(arg[c]) \in Ends /\ Peer(Peer(arg[c])) = arg[c]
  BY <1>1, Peers DEF IInv, Writing
<1>3. /\ data' \in [Ends -> {0, 1}]
      /\ \A e \in Ends : data'[e] = data[e] \/ shut[Peer(e)] = FALSE
  BY <1>1, <1>2 DEF Set, IInv, Types, Writing
<1>4. Types'
  BY <1>1, <1>3, Returning DEF IInv, Types, book, ids, place, stream
<1>5. CalmPipes
  BY <1>1, <1>3 DEF CalmPipes, stream
<1>6. CalmDesks /\ CalmPumps /\ CalmTales
  BY <1>1, Returning DEF CalmDesks, CalmPumps, CalmTales, place, stream, Busy
<1> QED
  BY <1>4, <1>5, <1>6, Quiet

\* The client, or the mesh, ends one half of a stream or all of it.
LEMMA FrameSteps ==
  ASSUME IInv, NEW c \in Conns, NEW e \in Ends, CloseFrame(c, e) \/ ResetFrame(c, e)
  PROVE  IInv'
<1>1. /\ phase[c] = "loop" /\ held[e] = c /\ UNCHANGED <<desk, book, ids, place, data, pump, inbound>>
      /\ \/ UNCHANGED <<listed, dead, fin>>
         \/ listed' = SetAll(listed, {e}, FALSE) /\ dead' = SetAll(dead, {e}, TRUE) /\ fin' = SetAll(fin, {e}, TRUE)
      /\ shut' = shut \/ shut' = Set(shut, e, TRUE)
      /\ told' = told \/ told' = Set(told, e, "self")
  BY DEF CloseFrame, ResetFrame, Frame, Reads, At_, Listed, Kills
<1>2. /\ listed' \in [Ends -> BOOLEAN] /\ dead' \in [Ends -> BOOLEAN] /\ fin' \in [Ends -> BOOLEAN]
      /\ \A f \in Ends : listed'[f] = TRUE => listed[f] = TRUE
  <2>1. CASE UNCHANGED <<listed, dead, fin>>
    BY <2>1 DEF IInv, Types
  <2>2. CASE listed' = SetAll(listed, {e}, FALSE) /\ dead' = SetAll(dead, {e}, TRUE) /\ fin' = SetAll(fin, {e}, TRUE)
    BY <2>2, Unlisting DEF IInv
  <2> QED
    BY <1>1, <2>1, <2>2
<1>3. /\ shut' \in [Ends -> BOOLEAN] /\ told' \in [Ends -> Tales]
      /\ \A f \in Ends : (shut'[f] = shut[f] \/ (f = e /\ shut'[f] = TRUE)) /\ (told'[f] = told[f] \/ told'[f] = "self")
  BY <1>1 DEF Set, IInv, Types, Tales
<1>4. Types'
  BY <1>1, <1>2, <1>3 DEF IInv, Types, desk, book, ids, place
<1>5. \A d \in Conns : phase[d] = "write" => arg[d] \in Ends /\ arg[d] # e
  BY <1>1 DEF IInv, Writing
<1>6. CalmPipes
  BY <1>1, <1>2, <1>3, <1>5 DEF CalmPipes, desk
<1>7. CalmDesks /\ CalmPumps /\ CalmTales
  BY <1>1, <1>3 DEF CalmDesks, CalmPumps, CalmTales, desk, place
<1> QED
  BY <1>4, <1>6, <1>7, Quiet

\* Steps of a pump.
LEMMA PumpSteps ==
  ASSUME IInv, NEW e \in Ends, PumpsData(e) \/ PumpsEOF(e) \/ PumpsReset(e) \/ PumpWakes(e) \/ PumpLeaves(e)
  PROVE  IInv'
<1>1. /\ pump[e] \in {"read", "eof", "leave"} /\ UNCHANGED <<desk, book, ids, place, shut, inbound>>
      /\ pump' = pump \/ (\E w \in {"eof", "leave", "gone"} : pump' = Set(pump, e, w))
      /\ fin' = fin \/ fin' = Set(fin, e, TRUE)
      /\ dead' = dead \/ dead' = Set(dead, e, TRUE)
      /\ listed' = listed \/ listed' = SetAll(listed, At(held[e], sid[e]), FALSE)
      /\ data' = data \/ data' = Set(data, e, 0)
      /\ told' = told \/ told' = Set(told, e, "reset")
         \/ (told' = Set(told, e, "closed") /\ data' = data /\ data[e] = 0 /\ shut[Peer(e)])
  <2>1. CASE PumpsData(e)
    BY <2>1 DEF PumpsData, Reading
  <2>2. CASE PumpsEOF(e)
    BY <2>2 DEF PumpsEOF, Reading, AtEOF, pipe
  <2>3. CASE PumpsReset(e)
    BY <2>3 DEF PumpsReset, Reading
  <2>4. CASE PumpWakes(e) \/ PumpLeaves(e)
    BY <2>4 DEF PumpWakes, PumpLeaves, pipe
  <2> QED
    BY <2>1, <2>2, <2>3, <2>4
<1>2. Types'
  <2>1. /\ pump' \in [Ends -> {"none", "read", "eof", "leave", "gone"}]
    BY <1>1 DEF IInv, Types, Set
  <2>4. fin' \in [Ends -> BOOLEAN]
    BY <1>1 DEF IInv, Types, Set
  <2>5. dead' \in [Ends -> BOOLEAN]
    BY <1>1 DEF IInv, Types, Set
  <2>6. data' \in [Ends -> {0, 1}]
    BY <1>1 DEF IInv, Types, Set
  <2>2. told' \in [Ends -> Tales]
    BY <1>1 DEF IInv, Types, Set, Tales
  <2>3. listed' \in [Ends -> BOOLEAN]
    BY <1>1 DEF IInv, Types, SetAll
  <2> QED
    BY <1>1, <2>1, <2>2, <2>3, <2>4, <2>5, <2>6 DEF IInv, Types, desk, book, ids, place
<1>3. \A f \in Ends : pump'[f] = pump[f] \/ (f = e /\ pump'[f] # "read")
  BY <1>1 DEF Set, IInv, Types
<1>4. CalmPumps
  BY <1>1, <1>3 DEF CalmPumps
<1>5. CalmTales
  BY <1>1 DEF CalmTales, Set, IInv, Types
<1>6. \A f \in Ends : data'[f] \in {0, data[f]} /\ (listed'[f] = TRUE => listed[f] = TRUE)
  BY <1>1 DEF Set, SetAll, IInv, Types
<1>7. CalmDesks /\ CalmPipes
  BY <1>1, <1>6 DEF CalmDesks, CalmPipes, desk, place
<1> QED
  BY <1>2, <1>4, <1>5, <1>7, Quiet

\* The other end in the mesh.
LEMMA RemoteSteps ==
  ASSUME IInv, NEW e \in Ends, RemoteWrites(e) \/ RemoteReads(e)
  PROVE  IInv'
<1>1. /\ held[e] = Mesh /\ UNCHANGED <<desk, book, ids, place, stream, told, inbound>>
      /\ dead' = dead \/ dead' = Set(dead, e, TRUE)
      /\ shut' = shut \/ shut' = Set(shut, e, TRUE)
      /\ data' = data \/ data' = Set(data, e, 0) \/ (data' = Set(data, Peer(e), 1) /\ ~shut[e] /\ shut' = shut)
  BY DEF RemoteWrites, RemoteReads, Outside
<1>2. Peer(e) \in Ends /\ Peer(Peer(e)) = e
  BY Peers
<1>3. Types'
  BY <1>1, <1>2 DEF IInv, Types, Set, desk, book, ids, place, stream
<1>4. \A d \in Conns : phase[d] = "write" => arg[d] \in Ends /\ arg[d] # e
  BY <1>1, Constants DEF IInv, Writing
<1>5. \A f \in Ends : shut'[f] = shut[f] \/ (f = e /\ shut'[f] = TRUE)
  BY <1>1 DEF Set, IInv, Types
<1>6. \A f \in Ends : data'[f] \in {0, data[f]} \/ (f = Peer(e) /\ shut[e] = FALSE /\ shut' = shut)
  BY <1>1, <1>2 DEF Set, IInv, Types
<1>7. CalmPipes
  BY <1>1, <1>2, <1>4, <1>5, <1>6 DEF CalmPipes, desk, stream
<1>8. CalmDesks /\ CalmPumps /\ CalmTales
  BY <1>1 DEF CalmDesks, CalmPumps, CalmTales, desk, place, stream
<1> QED
  BY <1>3, <1>7, <1>8, Quiet

\* Session c dials: a stream is made, and filed unless there is no place for it.
LEMMA Making ==
  ASSUME IInv, NEW c \in Conns, phase[c] = "loop", Unused # {},
         NEW e, NEW t \in Conns \union {None, Mesh}, NEW ph \in {"refuse", "answer", "bridge"}, NEW id \in Nat,
         Makes(e, c, t), phase' = Set(phase, c, ph), sid' = Set(sid, e, id),
         ph = "answer" => t = Mesh, ph = "bridge" => t \in Conns,
         dead' \in [Ends -> BOOLEAN], fin' \in [Ends -> BOOLEAN],
         listed' = listed \/ (listed' = Set(listed, e, TRUE) /\ At(c, id) = {}),
         UNCHANGED <<clients, service, nextID, shut, data, pump, told, inbound>>
  PROVE  IInv'
<1> DEFINE b == Peer(e)
<1> USE Constants DEF IInv
<1>1. /\ e \in Ends /\ b \in Ends /\ b # e /\ Peer(b) = e /\ ~Made(e)
      /\ \A f \in Ends \ {e, b} : Peer(f) \in Ends \ {e, b}
  <2>1. e = <<NewPipe, 1>>
    BY DEF Makes
  <2> QED
    BY <2>1, NewEnd, Peers
<1>2. held[e] = None /\ held[b] = None /\ pump[e] = "none" /\ pump[b] = "none" /\ listed[e] = FALSE /\ listed[b] = FALSE
  BY <1>1 DEF Made, Untouched
<1>3. /\ held' \in [Ends -> Conns \union {None, Mesh}] /\ held'[e] = c /\ held'[b] = t
      /\ \A f \in Ends \ {e, b} : held'[f] = held[f]
  BY <1>1 DEF Makes, Types
<1>4. /\ arg' \in [Conns -> Ends \union {None}] /\ arg'[c] = e
      /\ \A d \in Conns \ {c} : arg'[d] = arg[d]
  BY <1>1 DEF Makes, Set, Types
<1>5. phase' \in [Conns -> Phases] /\ phase'[c] = ph /\ \A d \in Conns \ {c} : phase'[d] = phase[d]
  BY DEF Set, Types, Phases
<1>6. sid' \in [Ends -> Nat] /\ sid'[e] = id /\ \A f \in Ends \ {e} : sid'[f] = sid[f]
  BY <1>1 DEF Set, Types
<1>7. dials' \in [Conns -> Nat]
  BY DEF Makes, Set, Types
<1>8. /\ listed' \in [Ends -> BOOLEAN] /\ \A f \in Ends \ {e} : listed'[f] = listed[f]
      /\ listed'[e] = TRUE => \A f \in Ends : listed[f] = TRUE /\ held[f] = c => sid[f] # id
  <2>1. /\ listed' \in [Ends -> BOOLEAN] /\ \A f \in Ends \ {e} : listed'[f] = listed[f]
    BY <1>1 DEF Set, Types
  <2>2. listed'[e] = TRUE => At(c, id) = {}
    BY <1>2
  <2> QED
    BY <2>1, <2>2 DEF At, Listed
<1> HIDE DEF b
<1>9. Types'
  BY <1>3, <1>4, <1>5, <1>6, <1>7, <1>8 DEF Types
<1>10. /\ Made(e)' /\ Made(b)'
       /\ \A f \in Ends : Made(f) => f # e /\ f # b /\ Made(f)'
  BY <1>1, <1>2, <1>3 DEF Made, b
<1>11. Untouched'
  <2>1. ASSUME NEW f \in Ends, f[2] = 1, held'[f] = None PROVE held'[Peer(f)] = None
    <3>1. f # e
      BY <1>3, <2>1
    <3>2. f # b
      BY <1>1, <2>1 DEF b, Makes, Peer
    <3> QED
      BY <1>1, <1>3, <2>1, <3>1, <3>2 DEF Untouched
  <2>2. ASSUME NEW f \in Ends, ~Made(f)' PROVE pump'[f] = "none" /\ listed'[f] = FALSE
    <3>1. f # e /\ ~Made(f)
      BY <1>10, <2>2
    <3> QED
      BY <1>8, <3>1 DEF Untouched
  <2> QED
    BY <2>1, <2>2 DEF Untouched
<1>12. ASSUME NEW f, Young(f) PROVE Young(f)' /\ f # e /\ f # b /\ Peer(f) # e /\ Peer(f) # b
  BY <1>1, <1>10, <1>12 DEF Young, b
<1>13. ASSUME NEW d \in Conns \ {c}, phase'[d] \in Busy PROVE Dialling(d)'
  <2>1. Dialling(d) /\ phase'[d] = phase[d] /\ arg'[d] = arg[d]
    BY <1>4, <1>5, <1>13
  <2>2. Young(arg[d])' /\ arg[d] \in Ends \ {e, b} /\ Peer(arg[d]) \in Ends \ {e, b}
    BY <1>1, <1>12, <2>1 DEF Dialling, Young
  <2>3. \A g \in Conns \ {d} : phase'[g] \in Busy => arg'[g] # arg[d] /\ arg'[g] # Peer(arg[d])
    BY <1>4, <1>5, <2>1, <2>2 DEF Dialling
  <2> QED
    BY <1>3, <1>8, <2>1, <2>2, <2>3 DEF Dialling
<1>14. Dialling(c)'
  <2>1. Young(e)'
    BY <1>1, <1>2, <1>10 DEF Young, b
  <2>2. \A d \in Conns \ {c} : phase'[d] \in Busy => arg'[d] # e /\ arg'[d] # b
    BY <1>4, <1>5, <1>12 DEF Dialling
  <2>3. inbound'.at # "idle" => inbound'.end # e /\ inbound'.end # b
    BY <1>12 DEF Dispatching
  <2>4. ph = "bridge" => listed'[b] = FALSE /\ held'[b] \in Conns
    BY <1>1, <1>2, <1>3, <1>8
  <2>5. ph = "answer" => held'[b] = Mesh
    BY <1>3
  <2> QED
    BY <1>4, <1>5, <2>1, <2>2, <2>3, <2>4, <2>5 DEF Dialling, b
<1>15. ASSUME NEW d \in Conns, phase'[d] = "write" PROVE Writing(d)'
  <2>1. d # c /\ Writing(d) /\ arg'[d] = arg[d]
    BY <1>4, <1>5, <1>15
  <2>2. arg[d] # e /\ arg[d] # b
    BY <1>2, <2>1 DEF Writing
  <2> QED
    BY <1>3, <2>1, <2>2 DEF Writing
<1>16. Dispatching'
  BY <1>3, <1>8, <1>12 DEF Dispatching, Young
<1>17. Drained' /\ AnswerFirst'
  BY DEF Drained, AnswerFirst
<1>18. OneStreamPerID'
  <2> SUFFICES ASSUME NEW f \in Ends, NEW g \in Ends, listed'[f] = TRUE, listed'[g] = TRUE,
                      held'[f] = held'[g], sid'[f] = sid'[g], f # g
               PROVE  FALSE
    BY DEF OneStreamPerID
  <2>1. f # b /\ g # b
    BY <1>1, <1>2, <1>8
  <2>2. CASE f # e /\ g # e
    BY <1>3, <1>6, <1>8, <2>1, <2>2 DEF OneStreamPerID
  <2>3. CASE f = e \/ g = e
    BY <1>3, <1>6, <1>8, <2>1, <2>3
  <2> QED
    BY <2>2, <2>3
<1> QED
  BY <1>9, <1>11, <1>13, <1>14, <1>15, <1>16, <1>17, <1>18

LEMMA DialSteps ==
  ASSUME IInv, NEW c \in Conns, MeshFails(c) \/ MeshOpens(c) \/ \E n \in Names : Bridges(c, n)
  PROVE  IInv'
<1>1. FirstDialId + dials[c] \in Nat
  BY Constants DEF IInv, Types
<1>2. dead \in [Ends -> BOOLEAN] /\ fin \in [Ends -> BOOLEAN]
  BY DEF IInv, Types
<1>3. \A xs, ys : /\ dead' = SetAll(dead, xs, TRUE) => dead' \in [Ends -> BOOLEAN]
                  /\ fin' = SetAll(fin, ys, TRUE) => fin' \in [Ends -> BOOLEAN]
  BY <1>2 DEF SetAll
<1>4. listed \in [Ends -> BOOLEAN] /\ (listed' = SetAll(listed, {}, FALSE) => listed' = listed)
  BY DEF SetAll, IInv, Types
<1> DEFINE id == FirstDialId + dials[c]
<1>5. CASE MeshFails(c)
  <2>1. PICK e \in Ends : Makes(e, c, Mesh) /\ sid' = Set(sid, e, id) /\ dead' = SetAll(dead, {e, Peer(e)}, TRUE)
    BY <1>5 DEF MeshFails
  <2>2. /\ phase[c] = "loop" /\ Unused # {} /\ phase' = Set(phase, c, "refuse")
        /\ UNCHANGED <<clients, service, nextID, shut, data, pump, told, inbound, listed, fin>>
    BY <1>5 DEF MeshFails, Reads, At_, Goto, book, stream
  <2> HIDE DEF id
  <2> QED
    BY <1>1, <1>2, <1>3, <2>1, <2>2, Making DEF id
<1>6. CASE MeshOpens(c)
  <2>1. PICK e \in Ends :
          /\ Makes(e, c, Mesh) /\ sid' = Set(sid, e, id)
          /\ IF Track(c, id)
             THEN Goto(c, "answer") /\ listed' = Set(listed, e, TRUE) /\ UNCHANGED <<dead, fin>>
             ELSE Goto(c, "refuse") /\ Kills({e}, {})
    BY <1>6 DEF MeshOpens
  <2>2. /\ phase[c] = "loop" /\ Unused # {}
        /\ UNCHANGED <<clients, service, nextID, shut, data, pump, told, inbound>>
    BY <1>6 DEF MeshOpens, Reads, At_, book
  <2> HIDE DEF id
  <2>3. dead' \in [Ends -> BOOLEAN] /\ fin' \in [Ends -> BOOLEAN]
    BY <1>2, <1>3, <2>1 DEF Kills
  <2>4. CASE phase' = Set(phase, c, "answer") /\ listed' = Set(listed, e, TRUE) /\ At(c, id) = {}
    BY <1>1, <2>1, <2>2, <2>3, <2>4, Making DEF id
  <2>5. CASE phase' = Set(phase, c, "refuse") /\ listed' = listed
    BY <1>1, <2>1, <2>2, <2>3, <2>5, Making DEF id
  <2> QED
    BY <1>4, <2>1, <2>4, <2>5 DEF Track, Kills, Goto
<1>7. ASSUME NEW n \in Names, Bridges(c, n) PROVE IInv'
  <2> DEFINE t == clients[n]
  <2>1. PICK e \in Ends :
          /\ Makes(e, c, t) /\ sid' = Set(sid, e, id)
          /\ CASE t \in {None, c} -> Goto(c, "refuse") /\ Kills({e, Peer(e)}, {})
               [] OTHER -> IF Track(c, id)
                           THEN Goto(c, "bridge") /\ listed' = Set(listed, e, TRUE) /\ UNCHANGED <<dead, fin>>
                           ELSE Goto(c, "refuse") /\ Kills({e, Peer(e)}, {})
    BY <1>7 DEF Bridges
  <2>2. /\ phase[c] = "loop" /\ Unused # {} /\ t \in Conns \union {None}
        /\ UNCHANGED <<clients, service, nextID, shut, data, pump, told, inbound>>
    BY <1>7 DEF Bridges, Reads, At_, book, IInv, Types
  <2> HIDE DEF id, t
  <2>3. dead' \in [Ends -> BOOLEAN] /\ fin' \in [Ends -> BOOLEAN]
    BY <1>2, <1>3, <2>1 DEF Kills
  <2>4. CASE t \in Conns /\ phase' = Set(phase, c, "bridge") /\ listed' = Set(listed, e, TRUE) /\ At(c, id) = {}
    BY <1>1, <2>1, <2>2, <2>3, <2>4, Making DEF id
  <2>5. CASE phase' = Set(phase, c, "refuse") /\ listed' = listed
    BY <1>1, <2>1, <2>2, <2>3, <2>5, Making DEF id
  <2> QED
    BY <1>4, <2>1, <2>2, <2>4, <2>5 DEF Track, Kills, Goto
<1> QED
  BY <1>5, <1>6, <1>7

\* A stream is filed under an ID of the gateway, unless there is no place for it.
LEMMA Filing ==
  ASSUME IInv, NEW b \in Ends, listed[b] = FALSE, held[b] \in Conns, NEW n \in Nat, n = nextID[held[b]] + 1,
         nextID' = Set(nextID, held[b], n), sid' = Set(sid, b, n), held' = held,
         \/ listed' = Set(listed, b, TRUE) /\ At(held[b], n) = {} /\ UNCHANGED <<dead, fin>>
         \/ \E xs, ys \in SUBSET Ends : Kills(xs, ys)
  PROVE  /\ sid' \in [Ends -> Nat] /\ nextID' \in [Conns -> Nat]
         /\ listed' \in [Ends -> BOOLEAN] /\ dead' \in [Ends -> BOOLEAN] /\ fin' \in [Ends -> BOOLEAN]
         /\ \A e \in Ends \ {b} : listed[e] = FALSE => listed'[e] = FALSE
         /\ OneStreamPerID'
<1> USE DEF IInv
<1>1. nextID' \in [Conns -> Nat]
  BY DEF Set, Types
<1>2. sid' \in [Ends -> Nat] /\ sid'[b] = n /\ \A e \in Ends \ {b} : sid'[e] = sid[e]
  BY DEF Set, Types
<1>3. CASE listed' = Set(listed, b, TRUE) /\ At(held[b], n) = {} /\ UNCHANGED <<dead, fin>>
  <2>1. listed' \in [Ends -> BOOLEAN] /\ \A e \in Ends \ {b} : listed'[e] = listed[e]
    BY <1>3 DEF Set, Types
  <2>2. \A e \in Ends : listed[e] = TRUE /\ held[e] = held[b] => sid[e] # n
    BY <1>3 DEF At, Listed
  <2>3. OneStreamPerID'
    BY <1>2, <2>1, <2>2 DEF OneStreamPerID
  <2> QED
    BY <1>1, <1>2, <1>3, <2>1, <2>3 DEF Types
<1>4. CASE \E xs, ys \in SUBSET Ends : Kills(xs, ys)
  <2>1. /\ listed' \in [Ends -> BOOLEAN] /\ dead' \in [Ends -> BOOLEAN] /\ fin' \in [Ends -> BOOLEAN]
        /\ \A e \in Ends : listed'[e] = TRUE => listed[e] = TRUE
    BY <1>4, Unlisting DEF Kills
  <2>2. \A e \in Ends : listed[e] = FALSE => listed'[e] = FALSE
    BY <2>1
  <2>3. OneStreamPerID'
    BY <1>2, <2>1, <2>2 DEF OneStreamPerID
  <2> QED
    BY <1>1, <1>2, <2>1, <2>2, <2>3
<1> QED
  BY <1>3, <1>4

LEMMA TrackTargetStep ==
  ASSUME IInv, NEW c \in Conns, TrackTarget(c)
  PROVE  IInv'
<1> DEFINE b == Peer(arg[c])
           n == nextID[held[b]] + 1
<1> USE DEF IInv
<1>1. /\ phase[c] = "bridge" /\ UNCHANGED <<arg, book, dials, held, shut, data, pump, told, inbound>>
      /\ nextID' = Set(nextID, held[b], n) /\ sid' = Set(sid, b, n)
      /\ \/ phase' = Set(phase, c, "open") /\ listed' = Set(listed, b, TRUE) /\ At(held[b], n) = {} /\ UNCHANGED <<dead, fin>>
         \/ phase' = Set(phase, c, "refuse") /\ Kills(At(c, sid[arg[c]]) \union {b}, At(c, sid[arg[c]]))
  BY DEF TrackTarget, At_, Track, Goto
<1>2. Dialling(c) /\ b \in Ends /\ listed[b] = FALSE /\ held[b] \in Conns
  BY <1>1, Peers DEF Busy, Dialling, Young
<1>3. n \in Nat
  BY <1>2 DEF Types
<1>4. At(c, sid[arg[c]]) \in SUBSET Ends /\ At(c, sid[arg[c]]) \union {b} \in SUBSET Ends
  BY <1>2 DEF At, Listed
<1> HIDE DEF n, b
<1>5. \/ listed' = Set(listed, b, TRUE) /\ At(held[b], n) = {} /\ UNCHANGED <<dead, fin>>
      \/ \E xs, ys \in SUBSET Ends : Kills(xs, ys)
  BY <1>1, <1>4
<1>6. /\ sid' \in [Ends -> Nat] /\ nextID' \in [Conns -> Nat]
      /\ listed' \in [Ends -> BOOLEAN] /\ dead' \in [Ends -> BOOLEAN] /\ fin' \in [Ends -> BOOLEAN]
      /\ \A e \in Ends \ {b} : listed[e] = FALSE => listed'[e] = FALSE
      /\ OneStreamPerID'
  BY <1>1, <1>2, <1>3, <1>5, Filing DEF n
<1>7. /\ phase' \in [Conns -> Phases] /\ phase'[c] \in {"open", "refuse"}
      /\ \A d \in Conns \ {c} : phase'[d] = phase[d]
  BY <1>1 DEF Set, Types, Phases
<1>8. Types'
  BY <1>1, <1>6, <1>7 DEF Types, book
<1>9. \A e \in Ends : (Made(e) <=> Made(e)') /\ (Young(e) <=> Young(e)')
  BY <1>1 DEF Made, Young
<1>10. Untouched'
  <2>1. \A e \in Ends : ~Made(e)' => e # b /\ ~Made(e)
    BY <1>2, <1>9, Constants DEF Made
  <2> QED
    BY <1>1, <1>6, <2>1 DEF Untouched
<1>11. ASSUME NEW d \in Conns, phase'[d] \in Busy PROVE Dialling(d)'
  <2>1. Dialling(d) /\ Young(arg[d])'
    BY <1>1, <1>7, <1>9, <1>11, <1>2 DEF Dialling, Young
  <2>2. \A g \in Conns \ {d} : phase'[g] \in Busy => arg[g] # arg[d] /\ arg[g] # Peer(arg[d])
    BY <1>1, <1>7, <2>1 DEF Dialling, Busy
  <2>3. phase'[d] = "bridge" => d # c /\ Peer(arg[d]) \in Ends \ {b}
    BY <1>1, <1>2, <1>7, <2>1, Peers DEF b, Busy, Dialling, Young
  <2>4. phase'[d] = "answer" => phase[d] = "answer"
    BY <1>7
  <2> QED
    BY <1>1, <1>6, <1>7, <2>1, <2>2, <2>3, <2>4 DEF Dialling
<1>12. ASSUME NEW d \in Conns, phase'[d] = "write" PROVE Writing(d)'
  BY <1>1, <1>7, <1>12 DEF Writing
<1>13. Dispatching'
  BY <1>1, <1>2, <1>6, <1>9 DEF Dispatching, Dialling, Young, b
<1>14. Drained' /\ AnswerFirst'
  BY <1>1 DEF Drained, AnswerFirst
<1> QED
  BY <1>6, <1>8, <1>10, <1>11, <1>12, <1>13, <1>14

\* The mesh brings a stream to the service.
LEMMA ArrivesStep ==
  ASSUME IInv, Arrives
  PROVE  IInv'
<1> USE Constants DEF IInv
<1>0. PICK e, b : e = <<NewPipe, 2>> /\ b = <<NewPipe, 1>>
  OBVIOUS
<1>1. /\ e \in Ends /\ b \in Ends /\ b # e /\ Peer(b) = e /\ Peer(e) = b /\ ~Made(e) /\ ~Made(b)
      /\ \A f \in Ends \ {e, b} : Peer(f) \in Ends \ {e, b}
  BY <1>0, NewEnd, Peers DEF Arrives
<1>2. /\ inbound.at = "idle" /\ UNCHANGED <<desk, book, ids, sid, shut, data, stream, told>>
      /\ held' = [held EXCEPT ![e] = service, ![Peer(e)] = Mesh]
      /\ \/ dead' = SetAll(dead, {e, Peer(e)}, TRUE) /\ inbound' = inbound
         \/ service # None /\ inbound' = [at |-> "file", end |-> e] /\ dead' = dead
  BY <1>0 DEF Arrives
<1>3. held[e] = None /\ held[b] = None /\ pump[e] = "none" /\ pump[b] = "none" /\ listed[e] = FALSE /\ listed[b] = FALSE
  BY <1>1 DEF Made, Untouched
<1>4. service \in Conns \union {None}
  BY DEF Types
<1>5. /\ held' \in [Ends -> Conns \union {None, Mesh}] /\ held'[e] = service /\ held'[b] = Mesh
      /\ \A f \in Ends \ {e, b} : held'[f] = held[f]
  BY <1>1, <1>2, <1>4 DEF Types
<1>6. dead' \in [Ends -> BOOLEAN]
  BY <1>2 DEF SetAll, Types
<1>7. /\ inbound' \in [at : {"idle", "file", "announce"}, end : Ends \union {None}]
      /\ \/ inbound'.at = "idle"
         \/ inbound'.at = "file" /\ inbound'.end = e /\ service \in Conns
  <2>1. CASE inbound' = inbound
    BY <1>2, <2>1 DEF Types
  <2>2. CASE service # None /\ inbound' = [at |-> "file", end |-> e]
    BY <1>1, <1>4, <2>2
  <2> QED
    BY <1>2, <2>1, <2>2
<1>8. Types'
  BY <1>2, <1>5, <1>6, <1>7 DEF Types, desk, book, ids, stream
<1>9. /\ Made(e)' /\ Made(b)'
      /\ \A f \in Ends : Made(f) => f # e /\ f # b /\ Made(f)'
  BY <1>1, <1>3, <1>5 DEF Made
<1>10. Untouched'
  <2>1. ASSUME NEW f \in Ends, f[2] = 1, held'[f] = None PROVE held'[Peer(f)] = None
    <3>1. f # b /\ f # e
      BY <1>0, <1>5, <2>1
    <3> QED
      BY <1>1, <1>5, <2>1, <3>1 DEF Untouched
  <2>2. ASSUME NEW f \in Ends, ~Made(f)' PROVE pump'[f] = "none" /\ listed'[f] = FALSE
    BY <1>2, <1>9, <2>2 DEF Untouched, stream
  <2> QED
    BY <2>1, <2>2 DEF Untouched
<1>11. ASSUME NEW f, Young(f) PROVE Young(f)' /\ f # e /\ f # b /\ Peer(f) # e /\ Peer(f) # b
  BY <1>1, <1>2, <1>9, <1>11 DEF Young, stream
<1>12. Young(e)'
  BY <1>1, <1>2, <1>3, <1>9 DEF Young, stream
<1>13. ASSUME NEW d \in Conns, phase'[d] \in Busy PROVE Dialling(d)'
  <2>1. Dialling(d) /\ Young(arg[d])
    BY <1>2, <1>13 DEF Dialling, desk
  <2>2. Young(arg[d])' /\ arg[d] \in Ends \ {e, b} /\ Peer(arg[d]) \in Ends \ {e, b}
    BY <1>1, <1>2, <1>11, <2>1 DEF Young, desk
  <2> QED
    BY <1>2, <1>5, <1>7, <2>1, <2>2 DEF Dialling, desk, stream
<1>14. ASSUME NEW d \in Conns, phase'[d] = "write" PROVE Writing(d)'
  <2>1. Writing(d) /\ arg[d] # e /\ arg[d] # b
    BY <1>2, <1>3, <1>14 DEF Writing, desk
  <2> QED
    BY <1>2, <1>5, <2>1 DEF Writing, desk
<1>15. Dispatching'
  BY <1>1, <1>2, <1>3, <1>5, <1>7, <1>12 DEF Dispatching, stream
<1>16. Drained' /\ AnswerFirst'
  BY <1>2 DEF Drained, AnswerFirst, stream
<1>17. OneStreamPerID'
  <2>1. \A f \in Ends : listed'[f] = TRUE => listed[f] = TRUE /\ f # e /\ f # b
    BY <1>2, <1>3 DEF stream
  <2> QED
    BY <1>2, <1>5, <2>1 DEF OneStreamPerID
<1> QED
  BY <1>8, <1>10, <1>13, <1>14, <1>15, <1>16, <1>17

\* dispatchInbound files the stream; there may be no place for it.
LEMMA FilesStep ==
  ASSUME IInv, Files
  PROVE  IInv'
<1> USE DEF IInv
<1>0. PICK b : b = inbound.end
  OBVIOUS
<1>1. PICK n : n = nextID[held[b]] + 1
  OBVIOUS
<1>2. /\ inbound.at = "file" /\ UNCHANGED <<desk, book, dials, held, shut, data, pump, told>>
      /\ nextID' = Set(nextID, held[b], n) /\ sid' = Set(sid, b, n)
      /\ \/ listed' = Set(listed, b, TRUE) /\ At(held[b], n) = {} /\ UNCHANGED <<dead, fin>>
            /\ inbound' = [inbound EXCEPT !.at = "announce"]
         \/ Kills({b}, {}) /\ inbound' = [at |-> "idle", end |-> None]
  BY <1>0, <1>1 DEF Files, Track
<1>3. b \in Ends /\ listed[b] = FALSE /\ held[b] \in Conns /\ Young(b)
  BY <1>0, <1>2 DEF Dispatching, Young
<1>4. n \in Nat
  BY <1>1, <1>3 DEF Types
<1>5. \/ listed' = Set(listed, b, TRUE) /\ At(held[b], n) = {} /\ UNCHANGED <<dead, fin>>
      \/ \E xs, ys \in SUBSET Ends : Kills(xs, ys)
  BY <1>2, <1>3
<1>6. /\ sid' \in [Ends -> Nat] /\ nextID' \in [Conns -> Nat]
      /\ listed' \in [Ends -> BOOLEAN] /\ dead' \in [Ends -> BOOLEAN] /\ fin' \in [Ends -> BOOLEAN]
      /\ \A e \in Ends \ {b} : listed[e] = FALSE => listed'[e] = FALSE
      /\ OneStreamPerID'
  BY <1>1, <1>2, <1>3, <1>4, <1>5, Filing
<1>7. /\ inbound' \in [at : {"idle", "file", "announce"}, end : Ends \union {None}]
      /\ inbound'.at \in {"idle", "announce"} /\ (inbound'.at = "announce" => inbound'.end = b)
  <2>1. CASE inbound' = [inbound EXCEPT !.at = "announce"]
    BY <1>0, <2>1 DEF Types
  <2>2. CASE inbound' = [at |-> "idle", end |-> None]
    BY <2>2
  <2> QED
    BY <1>2, <2>1, <2>2
<1>8. Types'
  BY <1>2, <1>6, <1>7 DEF Types, desk, book
<1>9. \A e \in Ends : (Made(e) <=> Made(e)') /\ (Young(e) <=> Young(e)')
  BY <1>2 DEF Made, Young
<1>10. Untouched'
  <2>1. \A e \in Ends : ~Made(e)' => e # b /\ ~Made(e)
    BY <1>3, <1>9 DEF Young
  <2> QED
    BY <1>2, <1>6, <2>1 DEF Untouched
<1>11. ASSUME NEW d \in Conns, phase'[d] \in Busy PROVE Dialling(d)'
  <2>1. Dialling(d) /\ Young(arg[d]) /\ b # arg[d] /\ b # Peer(arg[d])
    BY <1>0, <1>2, <1>11 DEF Dialling, desk
  <2>2. Young(arg[d])' /\ Peer(arg[d]) \in Ends \ {b}
    BY <1>2, <1>9, <2>1, Peers DEF Young, desk
  <2> QED
    BY <1>2, <1>6, <1>7, <2>1, <2>2 DEF Dialling, desk
<1>12. ASSUME NEW d \in Conns, phase'[d] = "write" PROVE Writing(d)'
  BY <1>2, <1>12 DEF Writing, desk
<1>13. Dispatching'
  BY <1>2, <1>3, <1>7, <1>9 DEF Dispatching
<1>14. Drained' /\ AnswerFirst'
  BY <1>2 DEF Drained, AnswerFirst
<1> QED
  BY <1>6, <1>8, <1>10, <1>11, <1>12, <1>13, <1>14

\* ... and announces it to the service; the pump starts then.
LEMMA AnnouncesStep ==
  ASSUME IInv, Announces
  PROVE  IInv'
<1> USE DEF IInv
<1>0. PICK b : b = inbound.end
  OBVIOUS
<1>1. /\ inbound.at = "announce" /\ UNCHANGED <<desk, book, ids, place, shut, data, fin>>
      /\ inbound' = [at |-> "idle", end |-> None]
      /\ \/ told' = Set(told, b, "opened") /\ pump' = Set(pump, b, "read") /\ UNCHANGED <<listed, dead>>
         \/ told' = told /\ pump' = pump /\ dead' = Set(dead, b, TRUE)
            /\ listed' = SetAll(listed, At(held[b], sid[b]), FALSE)
  BY <1>0 DEF Announces
<1>2. b \in Ends /\ Young(b)
  BY <1>0, <1>1 DEF Dispatching, Young
<1>3. /\ told' \in [Ends -> Tales] /\ pump' \in [Ends -> {"none", "read", "eof", "leave", "gone"}]
      /\ \A e \in Ends \ {b} : told'[e] = told[e] /\ pump'[e] = pump[e]
      /\ \/ told'[b] = "opened"
         \/ told'[b] = told[b] /\ pump'[b] = pump[b]
  BY <1>1, <1>2 DEF Set, Types, Tales
<1>4. dead' \in [Ends -> BOOLEAN]
  BY <1>1 DEF Set, Types
<1>5. listed' \in [Ends -> BOOLEAN] /\ \A e \in Ends : listed'[e] = TRUE => listed[e] = TRUE
  BY <1>1 DEF SetAll, Types
<1>6. inbound' \in [at : {"idle", "file", "announce"}, end : Ends \union {None}] /\ inbound'.at = "idle"
  BY <1>1
<1>7. Types'
  BY <1>1, <1>3, <1>4, <1>5, <1>6 DEF Types, desk, book, ids, place
<1>8. \A e \in Ends : /\ Made(e) <=> Made(e)'
                      /\ Young(e) /\ b # e /\ b # Peer(e) => Young(e)'
                      /\ listed[e] = FALSE => listed'[e] = FALSE
  BY <1>1, <1>3, <1>5, Peers DEF Made, Young, place, Types
<1>9. Untouched'
  BY <1>1, <1>2, <1>3, <1>8 DEF Untouched, Young, place
<1>10. ASSUME NEW d \in Conns, phase'[d] \in Busy PROVE Dialling(d)'
  <2>1. Dialling(d) /\ Young(arg[d]) /\ b # arg[d] /\ b # Peer(arg[d]) /\ Peer(arg[d]) \in Ends
    BY <1>0, <1>1, <1>10, Peers DEF Dialling, Young, desk
  <2>2. Young(arg[d])'
    BY <1>1, <1>8, <2>1 DEF Young, desk
  <2> QED
    BY <1>1, <1>3, <1>6, <1>8, <2>1, <2>2 DEF Dialling, desk, place
<1>11. ASSUME NEW d \in Conns, phase'[d] = "write" PROVE Writing(d)'
  BY <1>1, <1>11 DEF Writing, desk, place
<1>12. Dispatching'
  BY <1>6 DEF Dispatching
<1>13. Drained' /\ AnswerFirst'
  BY <1>1, <1>3 DEF Drained, AnswerFirst
<1>14. OneStreamPerID'
  BY <1>1, <1>5 DEF OneStreamPerID, place
<1> QED
  BY <1>7, <1>9, <1>10, <1>11, <1>12, <1>13, <1>14

\* The target of a bridge is told, or everything is rolled back.
LEMMA TellsTargetStep ==
  ASSUME IInv, NEW c \in Conns, TellsTarget(c)
  PROVE  IInv'
<1> USE DEF IInv
<1>0. PICK b : b = Peer(arg[c])
  OBVIOUS
<1>1. /\ phase[c] = "open" /\ UNCHANGED <<arg, book, ids, place, shut, data, pump, inbound>>
      /\ \/ told' = Set(told, b, "opened") /\ phase' = Set(phase, c, "answer") /\ UNCHANGED <<listed, dead, fin>>
         \/ RollsBack(arg[c], b) /\ phase' = Set(phase, c, "refuse") /\ told' = told
  BY <1>0 DEF TellsTarget, At_, Goto
<1>2. Dialling(c) /\ arg[c] \in Ends /\ b \in Ends
  BY <1>0, <1>1, Peers DEF Busy, Dialling, Young
<1>3. /\ phase' \in [Conns -> Phases] /\ phase'[c] \in {"answer", "refuse"}
      /\ \A d \in Conns \ {c} : phase'[d] = phase[d]
  BY <1>1 DEF Set, Types, Phases
<1>4. /\ told' \in [Ends -> Tales] /\ \A e \in Ends : told'[e] = told[e] \/ told'[e] = "opened"
      /\ phase'[c] = "answer" => told'[b] = "opened"
  BY <1>1, <1>2 DEF Set, Types, Tales
<1>5. /\ listed' \in [Ends -> BOOLEAN] /\ dead' \in [Ends -> BOOLEAN] /\ fin' \in [Ends -> BOOLEAN]
      /\ \A e \in Ends : listed'[e] = TRUE => listed[e] = TRUE
  <2>1. CASE UNCHANGED <<listed, dead, fin>>
    BY <2>1 DEF Types
  <2>2. CASE RollsBack(arg[c], b)
    <3>1. At(held[arg[c]], sid[arg[c]]) \union At(held[b], sid[b]) \in SUBSET Ends
      BY DEF At, Listed
    <3> QED
      BY <2>2, <3>1, Unlisting DEF RollsBack, Kills
  <2> QED
    BY <1>1, <2>1, <2>2
<1>6. Types'
  BY <1>1, <1>3, <1>4, <1>5 DEF Types, book, ids, place
<1>7. \A e \in Ends : (Made(e) <=> Made(e)') /\ (Young(e) <=> Young(e)') /\ (listed[e] = FALSE => listed'[e] = FALSE)
  BY <1>1, <1>5 DEF Made, Young, place, Types
<1>8. Untouched'
  BY <1>1, <1>7 DEF Untouched, place
<1>9. ASSUME NEW d \in Conns, phase'[d] \in Busy PROVE Dialling(d)'
  <2>1. Dialling(d) /\ Young(arg[d])' /\ arg'[d] = arg[d]
    BY <1>1, <1>2, <1>3, <1>7, <1>9 DEF Dialling, Young
  <2>2. \A g \in Conns \ {d} : phase'[g] \in Busy => arg'[g] # arg[d] /\ arg'[g] # Peer(arg[d])
    BY <1>1, <1>3, <2>1 DEF Dialling, Busy
  <2>3. phase'[d] = "answer" => held'[Peer(arg[d])] = Mesh \/ told'[Peer(arg[d])] \notin {"none", "refused"}
    BY <1>0, <1>1, <1>3, <1>4, <2>1, Peers DEF Dialling, Young, place
  <2>4. phase'[d] = "bridge" => phase[d] = "bridge" /\ Peer(arg[d]) \in Ends
    BY <1>3, <2>1, Peers DEF Dialling, Young
  <2> QED
    BY <1>1, <1>7, <2>1, <2>2, <2>3, <2>4 DEF Dialling, place
<1>10. ASSUME NEW d \in Conns, phase'[d] = "write" PROVE Writing(d)'
  BY <1>1, <1>3, <1>10 DEF Writing, place
<1>11. Dispatching'
  BY <1>1, <1>7 DEF Dispatching, Young, place
<1>12. Drained' /\ AnswerFirst'
  BY <1>1, <1>4 DEF Drained, AnswerFirst
<1>13. OneStreamPerID'
  BY <1>1, <1>5 DEF OneStreamPerID, place
<1> QED
  BY <1>6, <1>8, <1>9, <1>10, <1>11, <1>12, <1>13

\* The caller is told, and the pumps of the stream start; or everything is rolled back.
LEMMA AnswersStep ==
  ASSUME IInv, NEW c \in Conns, Answers(c)
  PROVE  IInv'
<1> USE DEF IInv
<1>0. PICK a, b : a = arg[c] /\ b = Peer(arg[c])
  OBVIOUS
<1>1. /\ phase[c] = "answer" /\ UNCHANGED <<book, ids, place, shut, data, inbound>>
      /\ \/ /\ told' = Set(told, a, "opened") /\ pump' = SetAll(pump, Pumped(a), "read") /\ Resumes(c)
            /\ UNCHANGED <<listed, dead, fin>>
         \/ Resumes(c) /\ UNCHANGED <<told, pump, listed, dead, fin>>
         \/ phase' = Set(phase, c, "undo") /\ RollsBack(a, b) /\ UNCHANGED <<arg, told, pump>>
  BY <1>0 DEF Answers, At_, Goto
<1>2. Dialling(c) /\ Young(a) /\ a \in Ends /\ b \in Ends /\ Peer(b) = a
  BY <1>0, <1>1, Peers DEF Busy, Dialling, Young
<1>3. CASE /\ told' = Set(told, a, "opened") /\ pump' = SetAll(pump, Pumped(a), "read") /\ Resumes(c)
           /\ UNCHANGED <<listed, dead, fin>>
  <2>1. told' \in [Ends -> Tales] /\ told'[a] = "opened" /\ \A e \in Ends \ {a} : told'[e] = told[e]
    BY <1>2, <1>3 DEF Set, Types, Tales
  <2>2. \A e \in Ends : e \in Pumped(a) => e = a \/ (e = b /\ held[b] # Mesh)
    BY <1>0, <1>2 DEF Pumped
  <2>3. /\ pump' \in [Ends -> {"none", "read", "eof", "leave", "gone"}]
        /\ \A e \in Ends : pump'[e] = pump[e] \/ e = a \/ (e = b /\ held[b] # Mesh)
    BY <1>3, <2>2 DEF SetAll, Types
  <2>4. /\ phase' \in [Conns -> Phases] /\ arg' \in [Conns -> Ends \union {None}] /\ phase'[c] = "loop"
        /\ \A d \in Conns \ {c} : phase'[d] = phase[d] /\ arg'[d] = arg[d]
    BY <1>3, Returning
  <2>5. Types'
    BY <1>1, <1>3, <2>1, <2>3, <2>4 DEF Types, book, ids, place
  <2>6. \A e \in Ends : (Made(e) <=> Made(e)') /\ (Young(e) /\ e # a /\ e # b => Young(e)')
    BY <1>0, <1>1, <1>2, <2>3, Peers DEF Made, Young, place
  <2>7. Untouched'
    BY <1>0, <1>1, <1>2, <1>3, <2>3, <2>6, Peers DEF Untouched, Young, Made, place
  <2>8. ASSUME NEW d \in Conns, phase'[d] \in Busy PROVE Dialling(d)'
    <3>1. /\ d # c /\ Dialling(d) /\ phase'[d] = phase[d] /\ arg'[d] = arg[d]
          /\ Young(arg[d]) /\ arg[d] # a /\ arg[d] # b /\ Peer(arg[d]) # a /\ Peer(arg[d]) \in Ends
      BY <1>0, <1>1, <1>2, <2>4, <2>8, Peers DEF Dialling, Young, Busy
    <3>2. Young(arg[d])'
      BY <2>6, <3>1 DEF Young
    <3>3. \A g \in Conns \ {d} : phase'[g] \in Busy => arg'[g] # arg[d] /\ arg'[g] # Peer(arg[d])
      BY <2>4, <3>1 DEF Dialling, Busy
    <3> QED
      BY <1>1, <1>3, <2>1, <3>1, <3>2, <3>3 DEF Dialling, place
  <2>9. ASSUME NEW d \in Conns, phase'[d] = "write" PROVE Writing(d)'
    BY <1>1, <2>4, <2>9 DEF Writing, place
  <2>10. Dispatching'
    BY <1>0, <1>1, <1>2, <1>3, <2>6 DEF Dispatching, Dialling, place, Young
  <2>11. Drained'
    BY <1>1, <2>1 DEF Drained
  <2>12. AnswerFirst'
    BY <1>0, <1>1, <1>2, <2>1, <2>3 DEF AnswerFirst, Dialling
  <2>13. OneStreamPerID'
    BY <1>1, <1>3 DEF OneStreamPerID, place
  <2> QED
    BY <2>5, <2>7, <2>8, <2>9, <2>10, <2>11, <2>12, <2>13
<1>4. CASE Resumes(c) /\ UNCHANGED <<told, pump, listed, dead, fin>>
  <2>1. Types'
    BY <1>1, <1>4, Returning DEF Types, book, ids, place
  <2>2. CalmDesks /\ CalmPumps /\ CalmTales /\ CalmPipes
    BY <1>1, <1>4, Returning DEF CalmDesks, CalmPumps, CalmTales, CalmPipes, place, Busy
  <2> QED
    BY <2>1, <2>2, Quiet
<1>5. CASE phase' = Set(phase, c, "undo") /\ RollsBack(a, b) /\ UNCHANGED <<arg, told, pump>>
  <2>1. /\ phase' \in [Conns -> Phases] /\ phase'[c] = "undo"
        /\ \A d \in Conns \ {c} : phase'[d] = phase[d]
    BY <1>5 DEF Set, Types, Phases
  <2>2. /\ listed' \in [Ends -> BOOLEAN] /\ dead' \in [Ends -> BOOLEAN] /\ fin' \in [Ends -> BOOLEAN]
        /\ \A e \in Ends : listed'[e] = TRUE => listed[e] = TRUE
    <3>1. At(held[a], sid[a]) \union At(held[b], sid[b]) \in SUBSET Ends
      BY DEF At, Listed
    <3> QED
      BY <1>5, <3>1, Unlisting DEF RollsBack, Kills
  <2>3. Types'
    BY <1>1, <1>5, <2>1, <2>2 DEF Types, book, ids, place
  <2>4. \A e \in Ends : (Made(e) <=> Made(e)') /\ (Young(e) <=> Young(e)') /\ (listed[e] = FALSE => listed'[e] = FALSE)
    BY <1>1, <1>5, <2>2 DEF Made, Young, place, Types
  <2>5. Untouched'
    BY <1>1, <1>5, <2>4 DEF Untouched, place
  <2>6. ASSUME NEW d \in Conns, phase'[d] \in Busy PROVE Dialling(d)'
    <3>1. Dialling(d) /\ Young(arg[d])' /\ (phase'[d] # "undo" => phase'[d] = phase[d]) /\ Peer(arg[d]) \in Ends
      BY <1>1, <1>2, <1>5, <2>1, <2>4, <2>6, Peers DEF Dialling, Young
    <3>2. \A g \in Conns \ {d} : phase'[g] \in Busy => arg[g] # arg[d] /\ arg[g] # Peer(arg[d])
      BY <1>1, <2>1, <3>1 DEF Dialling, Busy
    <3> QED
      BY <1>1, <1>5, <2>4, <3>1, <3>2 DEF Dialling, place
  <2>7. ASSUME NEW d \in Conns, phase'[d] = "write" PROVE Writing(d)'
    BY <1>1, <1>5, <2>1, <2>7 DEF Writing, place
  <2>8. Dispatching'
    BY <1>1, <2>4 DEF Dispatching, Young, place
  <2>9. Drained' /\ AnswerFirst'
    BY <1>1, <1>5 DEF Drained, AnswerFirst
  <2>10. OneStreamPerID'
    BY <1>1, <2>2 DEF OneStreamPerID, place
  <2> QED
    BY <2>3, <2>5, <2>6, <2>7, <2>8, <2>9, <2>10
<1> QED
  BY <1>1, <1>3, <1>4, <1>5

\* A frame is written to the stream, or the handler waits for room.
LEMMA DataStep ==
  ASSUME IInv, NEW c \in Conns, NEW e \in Ends, Data(c, e)
  PROVE  IInv'
<1> USE DEF IInv
<1>1. /\ phase[c] = "loop" /\ held[e] = c /\ shut[e] = FALSE
      /\ UNCHANGED <<book, ids, place, shut, dead, stream, told, inbound>>
      /\ \/ data' = Set(data, Peer(e), 1) /\ UNCHANGED desk
         \/ phase' = Set(phase, c, "write") /\ arg' = Set(arg, c, e) /\ data' = data
  BY DEF Data, Frame, Reads, At_, Listed, Goto, Types
<1>2. Peer(e) \in Ends /\ Peer(Peer(e)) = e
  BY Peers
<1>3. CASE data' = Set(data, Peer(e), 1) /\ UNCHANGED desk
  <2>1. data' \in [Ends -> {0, 1}] /\ \A f \in Ends : data'[f] = data[f] \/ shut[Peer(f)] = FALSE
    BY <1>1, <1>2, <1>3 DEF Set, Types
  <2>2. Types'
    BY <1>1, <1>3, <2>1 DEF Types, desk, book, ids, place, stream
  <2>3. CalmDesks /\ CalmPumps /\ CalmTales /\ CalmPipes
    BY <1>1, <1>3, <2>1 DEF CalmDesks, CalmPumps, CalmTales, CalmPipes, desk, place, stream
  <2> QED
    BY <2>2, <2>3, Quiet
<1>4. CASE phase' = Set(phase, c, "write") /\ arg' = Set(arg, c, e) /\ data' = data
  <2>1. /\ phase' \in [Conns -> Phases] /\ phase'[c] = "write" /\ \A d \in Conns \ {c} : phase'[d] = phase[d]
    BY <1>4 DEF Set, Types, Phases
  <2>2. /\ arg' \in [Conns -> Ends \union {None}] /\ arg'[c] = e /\ \A d \in Conns \ {c} : arg'[d] = arg[d]
    BY <1>4 DEF Set, Types
  <2>3. Types'
    BY <1>1, <1>4, <2>1, <2>2 DEF Types, book, ids, place, stream
  <2>4. \A f \in Ends : (Made(f) <=> Made(f)') /\ (Young(f) <=> Young(f)')
    BY <1>1 DEF Made, Young, place, stream
  <2>5. Untouched' /\ Dispatching' /\ Drained' /\ AnswerFirst' /\ OneStreamPerID'
    BY <1>1, <1>4, <2>4 DEF Untouched, Dispatching, Young, Drained, AnswerFirst, OneStreamPerID, place, stream
  <2>6. ASSUME NEW d \in Conns, phase'[d] \in Busy PROVE Dialling(d)'
    <3>1. d # c /\ Dialling(d) /\ phase'[d] = phase[d] /\ arg'[d] = arg[d] /\ Young(arg[d])'
      BY <2>1, <2>2, <2>4, <2>6 DEF Dialling, Young, Busy
    <3>2. \A g \in Conns \ {d} : phase'[g] \in Busy => arg'[g] # arg[d] /\ arg'[g] # Peer(arg[d])
      BY <2>1, <2>2, <3>1 DEF Dialling, Busy
    <3> QED
      BY <1>1, <3>1, <3>2 DEF Dialling, place, stream
  <2>7. ASSUME NEW d \in Conns, phase'[d] = "write" PROVE Writing(d)'
    BY <1>1, <2>1, <2>2, <2>7 DEF Writing, place
  <2> QED
    BY <2>3, <2>5, <2>6, <2>7
<1> QED
  BY <1>1, <1>3, <1>4

LEMMA Keeping == IInv /\ [Next]_vars => IInv'
<1> SUFFICES ASSUME IInv, [Next]_vars PROVE IInv'
  OBVIOUS
<1>1. ASSUME NEW c \in Conns, Handles(c) PROVE IInv'
  <2>1. CASE Rejected(c) \/ Unregisters(c) \/ Unserves(c) \/ Ends_(c) \/ \E n \in Names : Serves(c, n) \/ Registers(c, n)
    BY <2>1, AccountSteps
  <2>2. CASE HandlerOverflows(c)
    BY <2>2, SessionSteps
  <2> QED
    BY <1>1, <2>1, <2>2, RepliesStep, TrackTargetStep, TellsTargetStep, AnswersStep, UndoesStep, WrittenStep DEF Handles
<1>2. ASSUME NEW c \in Conns, Asks(c) PROVE IInv'
  <2>1. CASE MeshFails(c) \/ MeshOpens(c) \/ \E n \in Names : Bridges(c, n)
    BY <2>1, DialSteps
  <2>2. CASE \E e \in Ends : Data(c, e) \/ CloseFrame(c, e) \/ ResetFrame(c, e)
    BY <2>2, DataStep, FrameSteps
  <2>3. CASE Ping(c) \/ PingOverflows(c)
    BY <2>3, SessionSteps
  <2> QED
    BY <1>2, <2>1, <2>2, <2>3 DEF Asks
<1>3. ASSUME NEW e \in Ends, Pumps(e) PROVE IInv'
  <2>1. CASE PumpOverflows(e)
    BY <2>1, SessionSteps
  <2> QED
    BY <1>3, <2>1, PumpSteps DEF Pumps
<1>4. CASE Dispatches
  <2>1. CASE DispatcherOverflows
    BY <2>1, SessionSteps
  <2> QED
    BY <1>4, <2>1, FilesStep, AnnouncesStep DEF Dispatches
<1>5. CASE \E e \in Ends : RemoteWrites(e) \/ RemoteReads(e)
  BY <1>5, RemoteSteps
<1>6. CASE \/ \E c \in Conns : WritesOn(c) \/ Closes(c) \/ Cancels(c) \/ Disconnects(c) \/ WriteFails(c)
           \/ Stops \/ UNCHANGED vars
  BY <1>6, SessionSteps DEF WritesOn
<1> QED
  BY <1>1, <1>2, <1>3, <1>4, <1>5, <1>6, ArrivesStep DEF Next, Runs

\* In every reachable state a stream that is being made belongs to one handler, or to the
\* dispatcher, and no pump of it runs.
THEOREM Invariance == Spec => []IInv
<1> QED
  BY Starting, Keeping, PTL DEF Spec

\* No frame of a stream is queued for a client before the frame that opens it (bridgeDial,
\* handleDial, dispatchInbound), for any number of sessions, names and streams.
THEOREM TheAnswerComesFirst == Spec => []AnswerFirst
<1>1. IInv => AnswerFirst
  BY DEF IInv
<1> QED
  BY <1>1, Invariance, PTL

\* A client is told of the end of a stream when everything before it was delivered: a half
\* that is closed is not written to again, and what is in the pipe goes first.
THEOREM TheEndComesLast == Spec => []EOFAfterData
<1>1. IInv => EOFAfterData
  BY DEF IInv, Drained, EOFAfterData
<1> QED
  BY <1>1, Invariance, PTL

\* A session lists no two streams under one ID, though the client and the gateway hand
\* them out independently (track): while a stream is listed, what goes by its ID, a frame of
\* the client, untrack, rollback, means it.
THEOREM StreamIDsAreUnique == Spec => []OneStreamPerID
<1>1. IInv => OneStreamPerID
  BY DEF IInv
<1> QED
  BY <1>1, Invariance, PTL

-----------------------------------------------------------------------------
(* How many streams a session lists, and what is left when it has ended *)

\* No session lists more streams than it may.
WithinQuota == \A c \in Conns : IsFiniteSet(Listed(c)) /\ Cardinality(Listed(c)) <= MaxStreams

\* A session whose streams were closed lists none.
ClosedListsNothing == \A c \in Conns : closed[c] => Listed(c) = {}

Orderly == closed \in [Conns -> BOOLEAN] /\ WithinQuota /\ ClosedListsNothing

\* What is listed keeps its session.
Keeps == \A e \in Ends : listed[e] = TRUE => held'[e] = held[e]

\* Nothing more is listed.
Fewer == closed' = closed /\ \A e \in Ends : listed'[e] = TRUE => listed[e] = TRUE

\* One stream more is listed, by a session that may.
Tracks ==
  closed' = closed /\ \E e \in Ends, id \in Nat : listed' = Set(listed, e, TRUE) /\ Track(held'[e], id)

LEMMA KeepsOrder ==
  ASSUME IInv, Types', Orderly, Keeps, Fewer \/ Tracks \/ \E p, d : Shuts(p, d)
  PROVE  Orderly'
<1>0. MaxStreams \in Nat
  BY GatewayAssumption
<1>1. ASSUME NEW c \in Conns, Listed(c)' \subseteq Listed(c)
      PROVE  IsFiniteSet(Listed(c)') /\ Cardinality(Listed(c)') <= MaxStreams
  <2>1. /\ IsFiniteSet(Listed(c)') /\ Cardinality(Listed(c)') <= Cardinality(Listed(c))
        /\ Cardinality(Listed(c)) \in Nat /\ Cardinality(Listed(c)') \in Nat
    BY <1>1, FS_Subset, FS_CardinalityType DEF Orderly, WithinQuota
  <2> QED
    BY <1>0, <2>1 DEF Orderly, WithinQuota
<1>2. CASE Fewer
  <2>1. \A c \in Conns : Listed(c)' \subseteq Listed(c)
    BY <1>2 DEF Fewer, Keeps, Listed, IInv, Types
  <2> QED
    BY <1>1, <1>2, <2>1 DEF Orderly, WithinQuota, ClosedListsNothing, Fewer
<1>3. ASSUME NEW p, NEW d, Shuts(p, d) PROVE Orderly'
  <2>1. \A e \in Ends : listed'[e] = TRUE => listed[e] = TRUE /\ ~(held[e] = d)
    BY <1>3 DEF Shuts, SetAll, Listed, IInv, Types
  <2>2. \A c \in Conns : Listed(c)' \subseteq Listed(c) /\ (c = d => Listed(c)' = {})
    BY <2>1 DEF Keeps, Listed, IInv, Types
  <2>3. closed' \in [Conns -> BOOLEAN] /\ \A c \in Conns : c # d => closed'[c] = closed[c]
    BY <1>3 DEF Shuts, Set, Orderly
  <2> QED
    BY <1>1, <2>2, <2>3 DEF Orderly, WithinQuota, ClosedListsNothing
<1>4. CASE Tracks
  <2>1. PICK e \in Ends : listed' = Set(listed, e, TRUE) /\ \E id \in Nat : Track(held'[e], id)
    BY <1>4 DEF Tracks
  <2>2. ~closed[held'[e]] /\ Cardinality(Listed(held'[e])) < MaxStreams
    BY <2>1 DEF Track
  <2>3. \A f \in Ends : listed'[f] = TRUE /\ f # e => listed[f] = TRUE
    BY <2>1 DEF Set, IInv, Types
  <2>4. ASSUME NEW c \in Conns, c # held'[e] PROVE Listed(c)' \subseteq Listed(c)
    BY <2>3, <2>4 DEF Keeps, Listed, IInv, Types
  <2>5. ASSUME NEW c \in Conns, c = held'[e]
        PROVE  IsFiniteSet(Listed(c)') /\ Cardinality(Listed(c)') <= MaxStreams
    <3> DEFINE more == Listed(c) \union {e}
    <3>1. Listed(c)' \subseteq more
      BY <2>3 DEF Keeps, Listed, IInv, Types
    <3>2. IsFiniteSet(Listed(c)) /\ Cardinality(Listed(c)) \in Nat
      BY FS_CardinalityType DEF Orderly, WithinQuota
    <3>3. /\ IsFiniteSet(more)
          /\ Cardinality(more) = Cardinality(Listed(c)) \/ Cardinality(more) = Cardinality(Listed(c)) + 1
      BY <3>2, FS_AddElement
    <3> HIDE DEF more
    <3>4. IsFiniteSet(Listed(c)') /\ Cardinality(Listed(c)') <= Cardinality(more) /\ Cardinality(Listed(c)') \in Nat
      BY <3>1, <3>3, FS_Subset, FS_CardinalityType
    <3> QED
      BY <1>0, <2>2, <2>5, <3>2, <3>3, <3>4
  <2>6. closed' = closed
    BY <1>4 DEF Tracks
  <2> QED
    BY <1>1, <2>2, <2>4, <2>5, <2>6 DEF Orderly, WithinQuota, ClosedListsNothing
<1> QED
  BY <1>2, <1>3, <1>4

\* What a step may do to the tables.
Moves == Keeps /\ (Fewer \/ Tracks \/ \E p, d : Shuts(p, d))

\* A step that leaves the sessions alone and lists nothing more.
LEMMA Leaving ==
  ASSUME IInv, held' = held, closed' = closed,
         listed' = listed \/ \E xs : listed' = SetAll(listed, xs, FALSE)
  PROVE  Moves
<1>1. \A e \in Ends : listed'[e] = TRUE => listed[e] = TRUE
  BY DEF SetAll, IInv, Types
<1> QED
  BY <1>1 DEF Moves, Keeps, Fewer

LEMMA HandlersMove ==
  ASSUME IInv, NEW c \in Conns, Handles(c)
  PROVE  Moves
<1>1. CASE \/ Rejected(c) \/ Unregisters(c) \/ Ends_(c) \/ \E n \in Names : Serves(c, n) \/ Registers(c, n)
           \/ Replies(c) \/ Undoes(c) \/ Written(c)
  <2>1. UNCHANGED <<held, closed, listed>>
    BY <1>1 DEF Rejected, Unregisters, Ends_, Serves, Registers, Replies, Undoes, Written, place, session, stream
  <2> QED
    BY <2>1, Leaving
<1>2. CASE Unserves(c)
  <2>1. held' = held /\ (UNCHANGED <<closed, listed>> \/ Shuts(Handler(c), c))
    BY <1>2 DEF Unserves, place, session, stream
  <2> QED
    BY <2>1, Leaving DEF Moves, Keeps
<1>3. CASE HandlerOverflows(c)
  <2>1. held' = held /\ \E p, d : Shuts(p, d)
    BY <1>3 DEF HandlerOverflows, Overflows, place
  <2> QED
    BY <2>1 DEF Moves, Keeps
<1>4. CASE TrackTarget(c)
  <2> DEFINE b == Peer(arg[c])
             t == held[Peer(arg[c])]
  <2>1. held' = held /\ closed' = closed /\ phase[c] = "bridge"
    BY <1>4 DEF TrackTarget, session, At_
  <2>2. Dialling(c)
    BY <2>1 DEF IInv, Busy
  <2>3. b \in Ends /\ t \in Conns
    BY <2>1, <2>2, Peers DEF Dialling, Young
  <2>4. nextID[t] + 1 \in Nat
    BY <2>3 DEF IInv, Types
  <2>5. \/ Track(t, nextID[t] + 1) /\ listed' = Set(listed, b, TRUE)
        \/ \E xs : listed' = SetAll(listed, xs, FALSE)
    BY <1>4 DEF TrackTarget, Kills
  <2>6. CASE Track(t, nextID[t] + 1) /\ listed' = Set(listed, b, TRUE)
    <3>1. Track(held'[b], nextID[t] + 1)
      BY <2>1, <2>6
    <3> QED
      BY <2>1, <2>3, <2>4, <2>6, <3>1 DEF Moves, Keeps, Tracks
  <2> QED
    BY <2>1, <2>5, <2>6, Leaving
<1>5. CASE TellsTarget(c) \/ Answers(c)
  <2>1. held' = held /\ closed' = closed
    BY <1>5 DEF TellsTarget, Answers, place, session
  <2>2. listed' = listed \/ \E xs : listed' = SetAll(listed, xs, FALSE)
    BY <1>5 DEF TellsTarget, Answers, RollsBack, Kills
  <2> QED
    BY <2>1, <2>2, Leaving
<1> QED
  BY <1>1, <1>2, <1>3, <1>4, <1>5 DEF Handles

LEMMA DialsMove ==
  ASSUME IInv, NEW c \in Conns, MeshFails(c) \/ MeshOpens(c) \/ \E n \in Names : Bridges(c, n)
  PROVE  Moves
<1> DEFINE id == FirstDialId + dials[c]
<1>1. id \in Nat
  BY Constants DEF IInv, Types
<1>2. Unused # {} /\ closed' = closed
  BY DEF MeshFails, MeshOpens, Bridges, session
<1>3. \E e \in Ends : \E t :
        /\ Makes(e, c, t)
        /\ \/ listed' = listed
           \/ \E xs : listed' = SetAll(listed, xs, FALSE)
           \/ Track(c, id) /\ listed' = Set(listed, e, TRUE)
  <2>1. CASE MeshFails(c)
    BY <2>1 DEF MeshFails, stream
  <2>2. CASE MeshOpens(c)
    BY <2>2 DEF MeshOpens, Kills
  <2>3. ASSUME NEW n \in Names, Bridges(c, n)
        PROVE  \E e \in Ends : \E t :
                 /\ Makes(e, c, t)
                 /\ \/ listed' = listed
                    \/ \E xs : listed' = SetAll(listed, xs, FALSE)
                    \/ Track(c, id) /\ listed' = Set(listed, e, TRUE)
    BY <2>3 DEF Bridges, Kills
  <2> QED
    BY <2>1, <2>2, <2>3
<1> HIDE DEF id
<1>4. PICK e \in Ends : \E t :
        /\ Makes(e, c, t)
        /\ \/ listed' = listed
           \/ \E xs : listed' = SetAll(listed, xs, FALSE)
           \/ Track(c, id) /\ listed' = Set(listed, e, TRUE)
  BY <1>3
<1>5. e = <<NewPipe, 1>> /\ \E t : held' = [held EXCEPT ![e] = c, ![Peer(e)] = t]
  BY <1>4 DEF Makes
<1>6. Peer(e) \in Ends /\ Peer(e) # e /\ ~Made(e) /\ ~Made(Peer(e))
  BY <1>2, <1>5, NewEnd, Peers DEF IInv
<1>7. held'[e] = c /\ \A f \in Ends : f # e /\ f # Peer(e) => held'[f] = held[f]
  BY <1>5, <1>6 DEF IInv, Types
<1>8. Keeps
  BY <1>6, <1>7 DEF Keeps, IInv, Untouched
<1>9. CASE Track(c, id) /\ listed' = Set(listed, e, TRUE)
  BY <1>1, <1>2, <1>7, <1>8, <1>9 DEF Moves, Tracks
<1>10. CASE listed' = listed \/ \E xs : listed' = SetAll(listed, xs, FALSE)
  <2>1. \A f \in Ends : listed'[f] = TRUE => listed[f] = TRUE
    BY <1>10 DEF SetAll, IInv, Types
  <2> QED
    BY <1>2, <1>8, <2>1 DEF Moves, Fewer
<1> QED
  BY <1>4, <1>9, <1>10

LEMMA ArrivalsMove ==
  ASSUME IInv, Arrives
  PROVE  Moves
<1> DEFINE e == <<NewPipe, 2>>
<1>1. Unused # {} /\ held' = [held EXCEPT ![e] = service, ![Peer(e)] = Mesh] /\ UNCHANGED <<closed, listed>>
  BY DEF Arrives, session, stream
<1>2. e \in Ends /\ Peer(e) \in Ends /\ ~Made(e) /\ ~Made(Peer(e))
  BY <1>1, NewEnd, Peers DEF IInv
<1> HIDE DEF e
<1>3. \A f \in Ends : f # e /\ f # Peer(e) => held'[f] = held[f]
  BY <1>1, <1>2 DEF IInv, Types
<1>4. Keeps
  BY <1>2, <1>3 DEF Keeps, IInv, Untouched
<1> QED
  BY <1>1, <1>4 DEF Moves, Fewer

LEMMA DispatchesMove ==
  ASSUME IInv, Dispatches
  PROVE  Moves
<1>1. CASE Files
  <2> DEFINE e == inbound.end
             d == held[inbound.end]
  <2>1. held' = held /\ closed' = closed /\ inbound.at = "file"
    BY <1>1 DEF Files, session
  <2>2. e \in Ends /\ d \in Conns
    BY <2>1 DEF IInv, Dispatching, Young
  <2>3. nextID[d] + 1 \in Nat
    BY <2>2 DEF IInv, Types
  <2>4. \/ Track(d, nextID[d] + 1) /\ listed' = Set(listed, e, TRUE)
        \/ \E xs : listed' = SetAll(listed, xs, FALSE)
    BY <1>1 DEF Files, Kills
  <2>5. CASE Track(d, nextID[d] + 1) /\ listed' = Set(listed, e, TRUE)
    <3>1. Track(held'[e], nextID[d] + 1)
      BY <2>1, <2>5
    <3> QED
      BY <2>1, <2>2, <2>3, <2>5, <3>1 DEF Moves, Keeps, Tracks
  <2> QED
    BY <2>1, <2>4, <2>5, Leaving
<1>2. CASE Announces
  <2>1. held' = held /\ closed' = closed /\ (listed' = listed \/ \E xs : listed' = SetAll(listed, xs, FALSE))
    BY <1>2 DEF Announces, place, session
  <2> QED
    BY <2>1, Leaving
<1>3. CASE DispatcherOverflows
  <2>1. held' = held /\ \E p, d : Shuts(p, d)
    BY <1>3 DEF DispatcherOverflows, Overflows, place
  <2> QED
    BY <2>1 DEF Moves, Keeps
<1> QED
  BY <1>1, <1>2, <1>3 DEF Dispatches

LEMMA OthersMove ==
  ASSUME IInv,
         \/ \E c \in Conns : \/ \E e \in Ends : Data(c, e) \/ CloseFrame(c, e) \/ ResetFrame(c, e)
                             \/ Ping(c) \/ PingOverflows(c)
                             \/ WritesOn(c) \/ Closes(c) \/ Cancels(c) \/ Disconnects(c) \/ WriteFails(c)
         \/ \E e \in Ends : Pumps(e) \/ RemoteWrites(e) \/ RemoteReads(e)
         \/ Stops \/ UNCHANGED vars
  PROVE  Moves
<1>1. ASSUME NEW c \in Conns, NEW e \in Ends, Data(c, e) \/ CloseFrame(c, e) \/ ResetFrame(c, e) PROVE Moves
  <2>1. held' = held /\ closed' = closed
    BY <1>1 DEF Data, CloseFrame, ResetFrame, place, session
  <2>2. listed' = listed \/ \E xs : listed' = SetAll(listed, xs, FALSE)
    BY <1>1 DEF Data, CloseFrame, ResetFrame, Kills, stream
  <2> QED
    BY <2>1, <2>2, Leaving
<1>2. ASSUME NEW c \in Conns, Ping(c) \/ Writes(c) \/ WriterEnds(c) \/ Closes(c) \/ Disconnects(c) \/ WriteFails(c)
      PROVE  Moves
  <2>1. UNCHANGED <<held, closed, listed>>
    BY <1>2 DEF Ping, Writes, WriterEnds, Closes, Disconnects, WriteFails, place, session, stream
  <2> QED
    BY <2>1, Leaving
<1>3. ASSUME NEW c \in Conns, WriterCloses(c) \/ Cancels(c) \/ PingOverflows(c) PROVE Moves
  <2>1. held' = held /\ (UNCHANGED <<closed, listed>> \/ \E p : Shuts(p, c))
    BY <1>3 DEF WriterCloses, Cancels, PingOverflows, Overflows, place, session, stream
  <2> QED
    BY <2>1, Leaving DEF Moves, Keeps
<1>4. ASSUME NEW e \in Ends, \/ PumpsData(e) \/ PumpsEOF(e) \/ PumpsReset(e) \/ PumpWakes(e) \/ PumpLeaves(e)
                            \/ RemoteWrites(e) \/ RemoteReads(e)
      PROVE  Moves
  <2>1. held' = held /\ closed' = closed
    BY <1>4 DEF PumpsData, PumpsEOF, PumpsReset, PumpWakes, PumpLeaves, RemoteWrites, RemoteReads, place, session
  <2>2. listed' = listed \/ \E xs : listed' = SetAll(listed, xs, FALSE)
    BY <1>4 DEF PumpsData, PumpsEOF, PumpsReset, PumpWakes, PumpLeaves, RemoteWrites, RemoteReads, stream
  <2> QED
    BY <2>1, <2>2, Leaving
<1>5. ASSUME NEW e \in Ends, PumpOverflows(e) PROVE Moves
  <2>1. held' = held /\ \E p, d : Shuts(p, d)
    BY <1>5 DEF PumpOverflows, Overflows, place
  <2> QED
    BY <2>1 DEF Moves, Keeps
<1>6. CASE Stops \/ UNCHANGED vars
  <2>1. UNCHANGED <<held, closed, listed>>
    BY <1>6 DEF Stops, vars, place, session, stream
  <2> QED
    BY <2>1, Leaving
<1> QED
  BY <1>1, <1>2, <1>3, <1>4, <1>5, <1>6 DEF Pumps, WritesOn

LEMMA EverythingMoves == IInv /\ [Next]_vars => Moves
<1> SUFFICES ASSUME IInv, [Next]_vars PROVE Moves
  OBVIOUS
<1>1. ASSUME NEW c \in Conns, Asks(c) PROVE Moves
  <2>1. CASE MeshFails(c) \/ MeshOpens(c) \/ \E n \in Names : Bridges(c, n)
    BY <2>1, DialsMove
  <2> QED
    BY <1>1, <2>1, OthersMove DEF Asks
<1> QED
  BY <1>1, HandlersMove, ArrivalsMove, DispatchesMove, OthersMove DEF Next, Runs

LEMMA InOrder == Spec => []Orderly
<1>1. Init => Orderly
  <2> SUFFICES ASSUME Init PROVE Orderly
    OBVIOUS
  <2>1. \A c \in Conns : Listed(c) = {}
    BY DEF Init, Listed
  <2>2. MaxStreams \in Nat
    BY GatewayAssumption
  <2>3. \A c \in Conns : closed[c] = FALSE
    BY DEF Init
  <2>4. IsFiniteSet({}) /\ Cardinality({}) = 0
    BY FS_EmptySet
  <2>5. closed \in [Conns -> BOOLEAN]
    BY DEF Init
  <2> QED
    BY <2>1, <2>2, <2>3, <2>4, <2>5 DEF Orderly, WithinQuota, ClosedListsNothing
<1>2. IInv /\ Orderly /\ [Next]_vars => Orderly'
  <2> SUFFICES ASSUME IInv, Orderly, [Next]_vars PROVE Orderly'
    OBVIOUS
  <2>1. Types' /\ Moves
    BY Keeping, EverythingMoves DEF IInv
  <2> QED
    BY <2>1, KeepsOrder DEF Moves
<1> QED
  BY <1>1, <1>2, Invariance, PTL DEF Spec

\* A session lists at most MaxStreams streams, whichever side asks for one: track checks
\* and files under one lock, for the handler, for a bridge of another session and for the
\* dispatcher.
THEOREM SessionsKeepTheirQuota == Spec => []WithinQuota
<1>1. Orderly => WithinQuota
  BY DEF Orderly
<1> QED
  BY <1>1, InOrder, PTL

\* Once closeAllStreams has run, nothing is listed in the session again: a dial, a bridge or
\* a stream of the mesh that was under way when it ran finds it closed (track), so no stream
\* is left behind that nobody would close.
THEOREM ClosedSessionsListNothing == Spec => []ClosedListsNothing
<1>1. Orderly => ClosedListsNothing
  BY DEF Orderly
<1> QED
  BY <1>1, InOrder, PTL

===============================================================================
