------------------------------ MODULE Connections ------------------------------
(***************************************************************************)
(* The descriptors of the clients' connections (webserver/core/server.cpp):*)
(* startServer() accepts a client, puts the descriptor into an array on    *)
(* its stack and creates a detached handler, which gets a pointer to the   *)
(* array and reads the descriptor from it.  A handler closes what it has   *)
(* read; startServer() closes the last client once more when it is told to *)
(* stop.  The kernel hands out the lowest free descriptor, also one that   *)
(* somebody still uses by mistake.                                         *)
(*                                                                         *)
(* The array is declared inside the loop; the compilers at hand give it    *)
(* the same place each time.  A client_fd that was never assigned may be   *)
(* any descriptor.                                                         *)
(***************************************************************************)
EXTENDS Integers

CONSTANTS
    Protocols,  \* MODBUS_PROTOCOL, ENIP_PROTOCOL: one accepting thread each
    Peers,      \* connections that clients make, each once
    Threads,    \* handler threads there may be at a time
    Last,       \* the last descriptor
    Nobody      \* no connection

Fds  == 0..Last
NoFd == -1

ConnAssumption == Nobody \notin Peers

VARIABLES
    serving,    \* the run flag of each server
    loop,       \* where each accepting thread is
    client_fd,  \* its client_fd
    arguments,  \* arguments[0]
    table,      \* the connection behind each descriptor
    peer,       \* what each connection's client does
    thread,     \* where each handler is
    protocol,   \* its arguments[1]
    fd,         \* its client_fd
    meant,      \* the connection it was created for
    hurried,    \* whether arguments were overwritten before they were read
    leaked      \* whether a handler could not be created

connVars == <<serving, loop, client_fd, arguments, table, peer, thread, protocol,
              fd, meant, hurried, leaked>>

acceptor == <<loop, client_fd, arguments>>
handler  == <<thread, protocol, fd, meant>>
connGhosts   == <<hurried, leaked>>

ConnInit ==
    /\ serving = [s \in Protocols |-> TRUE]
    /\ loop = [s \in Protocols |-> "test"]
    /\ client_fd \in [Protocols -> {NoFd} \cup Fds]
    /\ arguments = [s \in Protocols |-> NoFd]
    /\ table = [f \in Fds |-> Nobody]
    /\ peer = [c \in Peers |-> "new"]
    /\ thread = [t \in Threads |-> "none"]
    /\ protocol = [t \in Threads |-> CHOOSE s \in Protocols : TRUE]
    /\ fd = [t \in Threads |-> NoFd]
    /\ meant = [t \in Threads |-> Nobody]
    /\ hurried = FALSE /\ leaked = FALSE

Close(f) == [g \in Fds |-> IF g = f THEN Nobody ELSE table[g]]

-----------------------------------------------------------------------------
\* startServer() and waitForClient()

Loop(s, from, to) == loop[s] = from /\ loop' = [loop EXCEPT ![s] = to]

\* while (*run_server) in startServer(); then waitForClient() is entered.
TestLoop(s) ==
    /\ serving[s]
    /\ Loop(s, "test", "wait")
    /\ UNCHANGED <<serving, client_fd, arguments, table, peer, handler, connGhosts>>

\* waitForClient(): accept() has no client.
TryAccept(s) ==
    /\ serving[s]
    /\ Loop(s, "wait", "again")
    /\ client_fd' = [client_fd EXCEPT ![s] = NoFd]
    /\ UNCHANGED <<serving, arguments, table, peer, handler, connGhosts>>

\* accept() has one.
AcceptClient(s) ==
    /\ serving[s]
    /\ Loop(s, "wait", "create") \/ Loop(s, "again", "create")
    /\ \E c \in Peers, f \in Fds :
          /\ peer[c] = "new"
          /\ table[f] = Nobody /\ \A g \in 0..f - 1 : table[g] # Nobody
          /\ peer' = [peer EXCEPT ![c] = "open"]
          /\ table' = [table EXCEPT ![f] = c]
          /\ client_fd' = [client_fd EXCEPT ![s] = f]
    /\ UNCHANGED <<serving, arguments, handler, connGhosts>>

\* The flag is cleared: what is returned may be no client at all.
ReturnNoClient(s) ==
    /\ ~serving[s]
    /\ loop[s] \in {"wait", "again"}
    /\ loop' = [loop EXCEPT ![s] = IF client_fd[s] = NoFd THEN "test" ELSE "create"]
    /\ UNCHANGED <<serving, client_fd, arguments, table, peer, handler, connGhosts>>

\* Faulty: the thread that accepts closes the client's descriptor, which only
\* a server that forks has to do.
CreateAndClose(s) ==
    /\ Loop(s, "create", "test")
    /\ \E t \in Threads :
          /\ thread[t] = "none" /\ t = CHOOSE u \in Threads : thread[u] = "none"
          /\ thread' = [thread EXCEPT ![t] = "born"]
          /\ protocol' = [protocol EXCEPT ![t] = s]
          /\ meant' = [meant EXCEPT ![t] = table[client_fd[s]]]
    /\ arguments' = [arguments EXCEPT ![s] = client_fd[s]]
    /\ table' = Close(client_fd[s])
    /\ hurried' = (hurried \/ \E t \in Threads : thread[t] = "born" /\ protocol[t] = s)
    /\ UNCHANGED <<serving, client_fd, peer, fd, leaked>>

\* arguments[0] = client_fd; pthread_create(&thread, NULL, handleConnections,
\* arguments); which thread it is does not matter.
CreateHandler(s) ==
    /\ Loop(s, "create", "test")
    /\ \E t \in Threads :
          /\ thread[t] = "none" /\ t = CHOOSE u \in Threads : thread[u] = "none"
          /\ thread' = [thread EXCEPT ![t] = "born"]
          /\ protocol' = [protocol EXCEPT ![t] = s]
          /\ meant' = [meant EXCEPT ![t] = table[client_fd[s]]]
    /\ arguments' = [arguments EXCEPT ![s] = client_fd[s]]
    /\ hurried' = (hurried \/ \E t \in Threads : thread[t] = "born" /\ protocol[t] = s)
    /\ UNCHANGED <<serving, client_fd, table, peer, fd, leaked>>

\* pthread_create() fails: the client stays connected to nobody.
CreateFails(s) ==
    /\ Loop(s, "create", "test")
    /\ arguments' = [arguments EXCEPT ![s] = client_fd[s]]
    /\ hurried' = (hurried \/ \E t \in Threads : thread[t] = "born" /\ protocol[t] = s)
    /\ leaked' = TRUE
    /\ UNCHANGED <<serving, client_fd, table, peer, handler>>

\* stop_modbus(), stop_enip().
StopServer(s) ==
    /\ serving[s]
    /\ serving' = [serving EXCEPT ![s] = FALSE]
    /\ UNCHANGED <<acceptor, table, peer, handler, connGhosts>>

\* close(client_fd) at the end of startServer().
LeaveLoop(s) ==
    /\ ~serving[s]
    /\ Loop(s, "test", "ended")
    /\ table' = Close(client_fd[s])
    /\ UNCHANGED <<serving, client_fd, arguments, peer, handler, connGhosts>>

-----------------------------------------------------------------------------
\* handleConnections(), and the client at the other end.

ReadArguments(t) ==
    /\ thread[t] = "born"
    /\ thread' = [thread EXCEPT ![t] = "serve"]
    /\ fd' = [fd EXCEPT ![t] = arguments[protocol[t]]]
    /\ UNCHANGED <<serving, acceptor, table, peer, protocol, meant, connGhosts>>

\* Why a handler leaves its loop: the flag, an error, or the end of the
\* connection.
Leaves(t) ==
    LET c == IF fd[t] \in Fds THEN table[fd[t]] ELSE Nobody
    IN  ~serving[protocol[t]] \/ c = Nobody \/ (c \in Peers /\ peer[c] = "closed")

\* Faulty: the descriptor stays open.
LeaveOpen(t) ==
    /\ thread[t] = "serve" /\ Leaves(t)
    /\ thread' = [thread EXCEPT ![t] = "none"]
    /\ fd' = [fd EXCEPT ![t] = NoFd]
    /\ meant' = [meant EXCEPT ![t] = Nobody]
    /\ UNCHANGED <<serving, acceptor, table, peer, protocol, connGhosts>>

\* close(client_fd)
Leave(t) ==
    /\ thread[t] = "serve" /\ Leaves(t)
    /\ table' = Close(fd[t])
    /\ thread' = [thread EXCEPT ![t] = "none"]
    /\ fd' = [fd EXCEPT ![t] = NoFd]
    /\ meant' = [meant EXCEPT ![t] = Nobody]
    /\ UNCHANGED <<serving, acceptor, peer, protocol, connGhosts>>

PeerCloses(c) ==
    /\ peer[c] = "open"
    /\ peer' = [peer EXCEPT ![c] = "closed"]
    /\ UNCHANGED <<serving, acceptor, table, handler, connGhosts>>

ConnNext ==
    \/ \E s \in Protocols :
          \/ TestLoop(s) \/ TryAccept(s) \/ AcceptClient(s) \/ ReturnNoClient(s)
          \/ CreateHandler(s) \/ CreateFails(s) \/ StopServer(s) \/ LeaveLoop(s)
    \/ \E t \in Threads : ReadArguments(t) \/ Leave(t)
    \/ \E c \in Peers : PeerCloses(c)

ConnSpec == ConnInit /\ [][ConnNext]_connVars
-----------------------------------------------------------------------------
\* Properties.

Quiet == ~hurried /\ \A s \in Protocols : serving[s]

\* While no server has been stopped, and unless the next client comes before
\* a handler has read its arguments, each handler serves the connection it
\* was created for and no other does, however descriptors are used again.
ConnOwn ==
    Quiet => \A t \in Threads : thread[t] = "serve" =>
                /\ table[fd[t]] = meant[t] /\ meant[t] # Nobody
                /\ \A u \in Threads : thread[u] = "serve" /\ fd[u] = fd[t] => u = t

\* Then, too, a connection that holds a descriptor has somebody who closes it
\* one day, unless its handler could not be created.
ConnClosed ==
    Quiet /\ ~leaked => \A f \in Fds : table[f] # Nobody =>
        \/ \E s \in Protocols : loop[s] = "create" /\ client_fd[s] = f
        \/ \E t \in Threads : thread[t] \in {"born", "serve"} /\ meant[t] = table[f]
=============================================================================
