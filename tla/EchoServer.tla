----------------------------- MODULE EchoServer -----------------------------
(***************************************************************************)
(* The echo server of asio/echo/echo/server.cpp: an acceptor and one       *)
(* Session per client, chains of asynchronous operations and completion    *)
(* handlers on one event loop.  The sockets, the loop's own non-blocking   *)
(* reads and writes and the clients are external.  Bytes are numbers: each *)
(* client sends 1, 2, 3 and so on.                                         *)
(***************************************************************************)
EXTENDS Naturals, Sequences

CONSTANTS
    Clients,
    Readers,        \* the clients that keep reading what they are sent
    kBufferSize,
    WireSize,       \* the bytes that the kernel keeps per direction
    MaxBytes,       \* a bound on the bytes each client sends
    MaxAcceptErrors \* a bound on the failures of accept

ASSUME EchoAssumption ==
    Readers \subseteq Clients /\ {kBufferSize, WireSize} \subseteq Nat \ {0}

VARIABLES
    acceptor,       \* armed, or the result its handler will be called with
    acceptErrors,   \* the failures of accept so far
    session,        \* each client's: "none", "queued" in the backlog, the
                    \* pending operation, the handler to be called, or "over"
    chunk,          \* the bytes in buffer_ that are still to be written
    toServer, toClient,         \* the bytes under way
    sent, received,             \* the bytes of each client
    shut            \* each client's: "no", "fin" (half-closed), "reset"

acceptVars == <<acceptor, acceptErrors>>
clientVars == <<sent, received, shut>>
echoVars == <<acceptVars, session, chunk, toServer, toClient, clientVars>>

EchoInit ==
    /\ acceptor = <<"armed">> /\ acceptErrors = 0
    /\ session = [c \in Clients |-> "none"]
    /\ chunk = [c \in Clients |-> <<>>]
    /\ toServer = [c \in Clients |-> <<>>] /\ toClient = [c \in Clients |-> <<>>]
    /\ sent = [c \in Clients |-> 0] /\ received = [c \in Clients |-> <<>>]
    /\ shut = [c \in Clients |-> "no"]

Becomes(c, from, to) == session[c] = from /\ session' = [session EXCEPT ![c] = to]

----------------------------------------------------------------------------
(* The clients *)

Connect(c) ==
    /\ Becomes(c, "none", "queued")
    /\ UNCHANGED <<acceptVars, chunk, toServer, toClient, clientVars>>

Send(c) ==
    /\ session[c] # "none" /\ shut[c] = "no"
    /\ sent[c] < MaxBytes /\ Len(toServer[c]) < WireSize
    /\ sent' = [sent EXCEPT ![c] = @ + 1]
    /\ toServer' = [toServer EXCEPT ![c] = Append(@, sent'[c])]
    /\ UNCHANGED <<acceptVars, session, chunk, toClient, received, shut>>

Receive(c) ==
    /\ toClient[c] # <<>>
    /\ received' = [received EXCEPT ![c] = Append(@, Head(toClient[c]))]
    /\ toClient' = [toClient EXCEPT ![c] = Tail(@)]
    /\ UNCHANGED <<acceptVars, session, chunk, toServer, sent, shut>>

HalfClose(c) ==
    /\ session[c] # "none" /\ shut[c] = "no"
    /\ shut' = [shut EXCEPT ![c] = "fin"]
    /\ UNCHANGED <<acceptVars, session, chunk, toServer, toClient, sent, received>>

(* A reset takes the bytes under way with it. *)
Reset(c) ==
    /\ session[c] # "none" /\ shut[c] # "reset"
    /\ shut' = [shut EXCEPT ![c] = "reset"]
    /\ toServer' = [toServer EXCEPT ![c] = <<>>]
    /\ toClient' = [toClient EXCEPT ![c] = <<>>]
    /\ UNCHANGED <<acceptVars, session, chunk, sent, received>>

----------------------------------------------------------------------------
(* Server: async_accept and its handler *)

AcceptCompletes(c) ==
    /\ acceptor = <<"armed">> /\ session[c] = "queued"
    /\ acceptor' = <<"accepted", c>>
    /\ UNCHANGED <<acceptErrors, session, chunk, toServer, toClient, clientVars>>

AcceptFails ==
    /\ acceptor = <<"armed">> /\ acceptErrors < MaxAcceptErrors
    /\ acceptErrors' = acceptErrors + 1
    /\ acceptor' = <<"failed">>
    /\ UNCHANGED <<session, chunk, toServer, toClient, clientVars>>

(* Mutant of AcceptHandler: it accepts the next client after success only. *)
AcceptHandlerGivesUp ==
    /\ \E c \in Clients : acceptor = <<"accepted", c>> /\ Becomes(c, "queued", "read")
    /\ acceptor' = <<"armed">>
    /\ UNCHANGED <<acceptErrors, chunk, toServer, toClient, clientVars>>

(* The handler starts a Session, and in any case the next async_accept. *)
AcceptHandler ==
    /\ \/ \E c \in Clients : acceptor = <<"accepted", c>> /\ Becomes(c, "queued", "read")
       \/ acceptor = <<"failed">> /\ UNCHANGED session
    /\ acceptor' = <<"armed">>
    /\ UNCHANGED <<acceptErrors, chunk, toServer, toClient, clientVars>>

----------------------------------------------------------------------------
(* Session: async_read_some, async_write and their handlers *)

Fails(c, from, to) ==
    Becomes(c, from, to) /\ UNCHANGED <<acceptVars, chunk, toServer, toClient, clientVars>>

ReadSome(c) ==
    \E n \in 1..kBufferSize :
        /\ n <= Len(toServer[c])
        /\ Becomes(c, "read", "readDone")
        /\ chunk' = [chunk EXCEPT ![c] = SubSeq(toServer[c], 1, n)]
        /\ toServer' = [toServer EXCEPT ![c] = SubSeq(@, n + 1, Len(@))]
        /\ UNCHANGED <<acceptVars, toClient, clientVars>>

(* End of file, or the reset of the connection. *)
ReadFails(c) ==
    /\ toServer[c] = <<>> /\ shut[c] # "no"
    /\ Fails(c, "read", "failed")

(* if (!error_code) self->WriteChunk(bytes_read); *)
ReadHandler(c) ==
    /\ Becomes(c, "readDone", "write")
    /\ UNCHANGED <<acceptVars, chunk, toServer, toClient, clientVars>>

(* Mutant of WriteSome: async_write_some, which may write a part only. *)
WritePart(c) ==
    \E n \in 1..Len(chunk[c]) :
        /\ shut[c] # "reset" /\ Len(toClient[c]) + n <= WireSize
        /\ Becomes(c, "write", "writeDone")
        /\ chunk' = [chunk EXCEPT ![c] = <<>>]
        /\ toClient' = [toClient EXCEPT ![c] = @ \o SubSeq(chunk[c], 1, n)]
        /\ UNCHANGED <<acceptVars, toServer, clientVars>>

(* async_write goes on until the whole chunk is written. *)
WriteSome(c) ==
    \E n \in 1..Len(chunk[c]) :
        /\ shut[c] # "reset" /\ Len(toClient[c]) + n <= WireSize
        /\ Becomes(c, "write", IF n = Len(chunk[c]) THEN "writeDone" ELSE "write")
        /\ chunk' = [chunk EXCEPT ![c] = SubSeq(@, n + 1, Len(@))]
        /\ toClient' = [toClient EXCEPT ![c] = @ \o SubSeq(chunk[c], 1, n)]
        /\ UNCHANGED <<acceptVars, toServer, clientVars>>

WriteFails(c) == shut[c] = "reset" /\ Fails(c, "write", "failed")

(* if (!error_code) self->ReadChunk(); *)
WriteHandler(c) ==
    /\ Becomes(c, "writeDone", "read")
    /\ UNCHANGED <<acceptVars, chunk, toServer, toClient, clientVars>>

(* A handler called with an error starts nothing: with it goes the last    *)
(* shared_ptr of the Session, whose socket is closed.                      *)
SessionEnds(c) ==
    /\ Becomes(c, "failed", "over")
    /\ chunk' = [chunk EXCEPT ![c] = <<>>]
    /\ UNCHANGED <<acceptVars, toServer, toClient, clientVars>>

----------------------------------------------------------------------------
AcceptorStep == (\E c \in Clients : AcceptCompletes(c)) \/ AcceptHandler

SessionStep(c) ==
    \/ ReadSome(c) \/ ReadFails(c) \/ ReadHandler(c)
    \/ WriteSome(c) \/ WriteFails(c) \/ WriteHandler(c) \/ SessionEnds(c)

EchoNext ==
    \/ AcceptorStep \/ AcceptFails
    \/ \E c \in Clients : \/ Connect(c) \/ Send(c) \/ Receive(c)
                          \/ HalfClose(c) \/ Reset(c) \/ SessionStep(c)

EchoSpec == EchoInit /\ [][EchoNext]_echoVars

(* The event loop performs what can be performed and calls the handlers;   *)
(* the Readers read.  The bounds make an end of it.  Nobody has to         *)
(* connect, send, close or reset.                                          *)
EchoGoesOn ==
    \/ AcceptorStep
    \/ \E c \in Clients : SessionStep(c)
    \/ \E c \in Readers : Receive(c)

----------------------------------------------------------------------------
(* Nothing is lost, duplicated or reordered on the way through the one     *)
(* buffer of a session, whatever parts the bytes are read and written in,  *)
(* and a session that ends at the end of file has echoed everything        *)
(* (server.cpp:27-46).  Only a reset takes bytes away.                     *)
EchoConserved ==
    \A c \in Clients : shut[c] # "reset" =>
        received[c] \o toClient[c] \o chunk[c] \o toServer[c]
            = [i \in 1..sent[c] |-> i]

(* Who keeps reading gets everything back, also when another client does   *)
(* not read, leaves, or fails to be accepted (server.cpp:64-72).           *)
ReadersServed ==
    \A c \in Readers : []<>(shut[c] = "reset" \/ Len(received[c]) = sent[c])
=============================================================================
