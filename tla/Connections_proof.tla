--------------------------- MODULE Connections_proof ---------------------------
(***************************************************************************)
(* For any number of servers, clients, handlers and descriptors: while no  *)
(* server has been stopped and no client comes before the last handler has *)
(* read its arguments, each handler has its own client's descriptor, and   *)
(* no descriptor is forgotten.                                             *)
(*                                                                         *)
(* The argument: a descriptor in use is held by an accepting thread that   *)
(* is about to create the handler, by arguments[] of a handler that has    *)
(* not read it yet, or by a handler; never by two of them (Apart), and     *)
(* what is held is not closed (Held), so that the kernel does not hand it  *)
(* out again.                                                              *)
(***************************************************************************)
EXTENDS Connections, TLAPS

ConnTyped ==
    /\ DOMAIN serving = Protocols
    /\ DOMAIN loop = Protocols
    /\ DOMAIN client_fd = Protocols
    /\ DOMAIN arguments = Protocols
    /\ DOMAIN table = Fds
    /\ thread \in [Threads -> {"none", "born", "serve"}]
    /\ DOMAIN protocol = Threads
    /\ DOMAIN fd = Threads
    /\ DOMAIN meant = Threads
    /\ \A t \in Threads : thread[t] # "none" => protocol[t] \in Protocols

\* The accepting threads that have a client whose handler is still to be
\* created; the handlers there are; and the descriptor each of these has.
Offering == {s \in Protocols : loop[s] = "create"}
Active   == {t \in Threads : thread[t] # "none"}
Own(t)   == IF thread[t] = "born" THEN arguments[protocol[t]] ELSE fd[t]

Held ==
    /\ \A s \in Offering : client_fd[s] \in Fds /\ table[client_fd[s]] # Nobody
    /\ \A t \in Active : Own(t) \in Fds /\ meant[t] # Nobody /\ table[Own(t)] = meant[t]

Apart ==
    /\ \A r, s \in Offering : client_fd[r] = client_fd[s] => r = s
    /\ \A s \in Offering, t \in Active : client_fd[s] # Own(t)
    /\ \A t, u \in Active : Own(t) = Own(u) => t = u

Kept ==
    ~leaked => \A f \in Fds : table[f] # Nobody =>
        (\E s \in Offering : client_fd[s] = f) \/ (\E t \in Active : Own(t) = f)

ConnInv == ConnTyped /\ (Quiet => Held /\ Apart /\ Kept)

-----------------------------------------------------------------------------
LEMMA ConnInitially == ConnInit => ConnInv
BY DEF ConnInit, ConnInv, ConnTyped, Held, Apart, Kept, Offering, Active, Quiet

LEMMA ConnTypedStep ==
    ASSUME ConnTyped, [ConnNext]_connVars
    PROVE  ConnTyped'
<1>1. ASSUME NEW s \in Protocols,
             \/ TestLoop(s) \/ TryAccept(s) \/ AcceptClient(s) \/ ReturnNoClient(s)
             \/ CreateFails(s) \/ StopServer(s) \/ LeaveLoop(s)
      PROVE  ConnTyped'
  BY <1>1 DEF TestLoop, TryAccept, AcceptClient, ReturnNoClient, CreateFails, StopServer,
              LeaveLoop, Loop, Close, handler, acceptor, ConnTyped
<1>2. ASSUME NEW s \in Protocols, CreateHandler(s) PROVE ConnTyped'
  BY <1>2 DEF CreateHandler, Loop, ConnTyped
<1>3. ASSUME NEW t \in Threads, ReadArguments(t) \/ Leave(t) PROVE ConnTyped'
  BY <1>3 DEF ReadArguments, Leave, Close, acceptor, ConnTyped
<1>4. ASSUME NEW c \in Peers, PeerCloses(c) PROVE ConnTyped'
  BY <1>4 DEF PeerCloses, acceptor, handler, ConnTyped
<1>5. CASE UNCHANGED connVars
  BY <1>5 DEF connVars, ConnTyped
<1> QED
  BY <1>1, <1>2, <1>3, <1>4, <1>5 DEF ConnNext

\* Once it is over, it stays over.
LEMMA QuietBefore ==
    ASSUME ConnTyped, [ConnNext]_connVars, Quiet'
    PROVE  Quiet
<1>1. ~hurried' /\ \A s \in Protocols : serving'[s]
  BY DEF Quiet
<1>2. hurried => hurried'
  BY DEF ConnNext, TestLoop, TryAccept, AcceptClient, ReturnNoClient, CreateHandler, CreateFails,
         StopServer, LeaveLoop, ReadArguments, Leave, PeerCloses, connGhosts, connVars
<1>3. UNCHANGED serving \/ \E s \in Protocols : StopServer(s)
  BY DEF ConnNext, TestLoop, TryAccept, AcceptClient, ReturnNoClient, CreateHandler, CreateFails,
         LeaveLoop, ReadArguments, Leave, PeerCloses, connVars
<1>4. ASSUME NEW s \in Protocols, StopServer(s) PROVE FALSE
  <2>1. serving'[s] = FALSE
    BY <1>4 DEF StopServer, ConnTyped
  <2> QED
    BY <1>1, <2>1
<1> QED
  BY <1>1, <1>2, <1>3, <1>4 DEF Quiet

\* A step that changes no holder and no descriptor.
LEMMA SameHolders ==
    ASSUME Held /\ Apart /\ Kept, UNCHANGED <<client_fd, arguments, table, handler, leaked>>,
           Offering' = Offering
    PROVE  Held' /\ Apart' /\ Kept'
<1>1. Active' = Active
  BY DEF Active, handler
<1>2. \A t \in Active : Own(t)' = Own(t) /\ meant'[t] = meant[t]
  BY DEF Own, handler
<1> QED
  BY <1>1, <1>2 DEF Held, Apart, Kept

LEMMA AcceptClientKeeps ==
    ASSUME ConnAssumption, ConnTyped, Held /\ Apart /\ Kept,
           NEW s \in Protocols, AcceptClient(s)
    PROVE  Held' /\ Apart' /\ Kept'
<1>1. /\ loop[s] \in {"wait", "again"} /\ loop' = [loop EXCEPT ![s] = "create"]
      /\ UNCHANGED <<arguments, handler, leaked>>
  BY DEF AcceptClient, Loop, connGhosts
<1>2. PICK c \in Peers, f \in Fds :
         /\ table[f] = Nobody
         /\ table' = [table EXCEPT ![f] = c]
         /\ client_fd' = [client_fd EXCEPT ![s] = f]
  BY DEF AcceptClient
<1>3. s \notin Offering /\ Offering' = Offering \cup {s}
  BY <1>1 DEF Offering, ConnTyped
<1>4. Active' = Active /\ \A t \in Active : Own(t)' = Own(t) /\ meant'[t] = meant[t]
  BY <1>1 DEF Active, Own, handler
<1>5. /\ client_fd'[s] = f
      /\ \A r \in Offering : client_fd'[r] = client_fd[r]
      /\ table'[f] = c /\ c # Nobody
      /\ \A g \in Fds \ {f} : table'[g] = table[g]
  BY <1>2, <1>3 DEF ConnTyped, ConnAssumption, Offering
<1>6. /\ \A r \in Offering : client_fd[r] \in Fds \ {f} /\ table[client_fd[r]] # Nobody
      /\ \A t \in Active : Own(t) \in Fds \ {f} /\ meant[t] # Nobody /\ table[Own(t)] = meant[t]
  BY <1>2 DEF Held
<1>7. Held'
  BY <1>3, <1>4, <1>5, <1>6 DEF Held
<1>8. Apart'
  BY <1>3, <1>4, <1>5, <1>6 DEF Apart
<1>9. Kept'
  <2> SUFFICES ASSUME ~leaked', NEW g \in Fds, table'[g] # Nobody
               PROVE  (\E r \in Offering' : client_fd'[r] = g) \/ (\E t \in Active' : Own(t)' = g)
    BY DEF Kept
  <2>1. CASE g = f
    BY <1>3, <1>5, <2>1
  <2>2. CASE g # f
    <3>1. table[g] # Nobody /\ ~leaked
      BY <1>1, <1>5, <2>2
    <3>2. (\E r \in Offering : client_fd[r] = g) \/ (\E t \in Active : Own(t) = g)
      BY <3>1 DEF Kept
    <3> QED
      BY <1>3, <1>4, <1>5, <3>2
  <2> QED
    BY <2>1, <2>2
<1> QED
  BY <1>7, <1>8, <1>9

\* arguments[0] is overwritten when no handler has yet to read it.
LEMMA CreateHandlerKeeps ==
    ASSUME ConnTyped, Held /\ Apart /\ Kept, NEW s \in Protocols, CreateHandler(s), ~hurried'
    PROVE  Held' /\ Apart' /\ Kept'
<1>1. /\ loop[s] = "create" /\ loop' = [loop EXCEPT ![s] = "test"]
      /\ arguments' = [arguments EXCEPT ![s] = client_fd[s]]
      /\ UNCHANGED <<client_fd, table, fd, leaked>>
  BY DEF CreateHandler, Loop
<1>2. \A t \in Threads : ~(thread[t] = "born" /\ protocol[t] = s)
  BY DEF CreateHandler
<1>3. PICK t \in Threads :
         /\ thread[t] = "none"
         /\ thread' = [thread EXCEPT ![t] = "born"]
         /\ protocol' = [protocol EXCEPT ![t] = s]
         /\ meant' = [meant EXCEPT ![t] = table[client_fd[s]]]
  BY DEF CreateHandler
<1>4. s \in Offering /\ Offering' = Offering \ {s}
  BY <1>1 DEF Offering, ConnTyped
<1>5. t \notin Active /\ Active' = Active \cup {t}
  BY <1>3 DEF Active, ConnTyped
<1>6. Own(t)' = client_fd[s] /\ meant'[t] = table[client_fd[s]]
  BY <1>1, <1>3 DEF Own, ConnTyped
<1>7. \A u \in Active : Own(u)' = Own(u) /\ meant'[u] = meant[u]
  <2> SUFFICES ASSUME NEW u \in Active PROVE Own(u)' = Own(u) /\ meant'[u] = meant[u]
    OBVIOUS
  <2>1. u # t /\ u \in Threads /\ thread[u] # "none"
    BY <1>5 DEF Active
  <2>2. thread'[u] = thread[u] /\ protocol'[u] = protocol[u] /\ meant'[u] = meant[u]
    BY <1>3, <2>1 DEF ConnTyped
  <2>3. thread[u] = "born" => protocol[u] \in Protocols \ {s}
    BY <1>2, <2>1 DEF ConnTyped
  <2>4. thread[u] = "born" => arguments'[protocol[u]] = arguments[protocol[u]]
    BY <1>1, <2>3 DEF ConnTyped
  <2> QED
    BY <1>1, <2>2, <2>4 DEF Own
<1>8. Held'
  BY <1>1, <1>4, <1>5, <1>6, <1>7 DEF Held
<1>9. Apart'
  BY <1>1, <1>4, <1>5, <1>6, <1>7 DEF Apart
<1>10. Kept'
  BY <1>1, <1>4, <1>5, <1>6, <1>7 DEF Kept
<1> QED
  BY <1>8, <1>9, <1>10

LEMMA CreateFailsKeeps ==
    ASSUME ConnTyped, Held /\ Apart /\ Kept, NEW s \in Protocols, CreateFails(s), ~hurried'
    PROVE  Held' /\ Apart' /\ Kept'
<1>1. /\ loop[s] = "create" /\ loop' = [loop EXCEPT ![s] = "test"]
      /\ arguments' = [arguments EXCEPT ![s] = client_fd[s]]
      /\ leaked' = TRUE
      /\ UNCHANGED <<client_fd, table, handler>>
  BY DEF CreateFails, Loop
<1>2. \A t \in Threads : ~(thread[t] = "born" /\ protocol[t] = s)
  BY DEF CreateFails
<1>3. Offering' = Offering \ {s} /\ Active' = Active
  BY <1>1 DEF Offering, Active, handler, ConnTyped
<1>4. \A u \in Active : Own(u)' = Own(u) /\ meant'[u] = meant[u]
  <2> SUFFICES ASSUME NEW u \in Active PROVE Own(u)' = Own(u) /\ meant'[u] = meant[u]
    OBVIOUS
  <2>1. u \in Threads /\ thread[u] # "none"
    BY DEF Active
  <2>2. thread[u] = "born" => protocol[u] \in Protocols \ {s}
    BY <1>2, <2>1 DEF ConnTyped
  <2>3. thread[u] = "born" => arguments'[protocol[u]] = arguments[protocol[u]]
    BY <1>1, <2>2 DEF ConnTyped
  <2> QED
    BY <1>1, <2>3 DEF Own, handler
<1>5. Held' /\ Apart'
  BY <1>1, <1>3, <1>4 DEF Held, Apart
<1> QED
  BY <1>1, <1>5 DEF Kept

\* The handler takes over what arguments[0] held.
LEMMA ReadArgumentsKeeps ==
    ASSUME ConnTyped, Held /\ Apart /\ Kept, NEW t \in Threads, ReadArguments(t)
    PROVE  Held' /\ Apart' /\ Kept'
<1>1. /\ thread[t] = "born" /\ thread' = [thread EXCEPT ![t] = "serve"]
      /\ fd' = [fd EXCEPT ![t] = arguments[protocol[t]]]
      /\ UNCHANGED <<loop, client_fd, arguments, table, protocol, meant, leaked>>
  BY DEF ReadArguments, acceptor, connGhosts
<1>2. Offering' = Offering /\ Active' = Active
  BY <1>1 DEF Offering, Active, ConnTyped
<1>3. \A u \in Active : Own(u)' = Own(u)
  BY <1>1 DEF Own, Active, ConnTyped
<1> QED
  BY <1>1, <1>2, <1>3 DEF Held, Apart, Kept

\* What it closes is its own and nobody else's.
LEMMA LeaveKeeps ==
    ASSUME ConnTyped, Held /\ Apart /\ Kept, NEW t \in Threads, Leave(t)
    PROVE  Held' /\ Apart' /\ Kept'
<1>1. /\ thread[t] = "serve" /\ thread' = [thread EXCEPT ![t] = "none"]
      /\ fd' = [fd EXCEPT ![t] = NoFd]
      /\ meant' = [meant EXCEPT ![t] = Nobody]
      /\ table' = [g \in Fds |-> IF g = fd[t] THEN Nobody ELSE table[g]]
      /\ UNCHANGED <<loop, client_fd, arguments, protocol, leaked>>
  BY DEF Leave, Close, acceptor, connGhosts
<1>2. Offering' = Offering
  BY <1>1 DEF Offering
<1>3. t \in Active /\ Active' = Active \ {t} /\ Own(t) = fd[t]
  BY <1>1 DEF Active, Own, ConnTyped
<1>4. \A u \in Active \ {t} : Own(u)' = Own(u) /\ meant'[u] = meant[u]
  BY <1>1 DEF Own, Active, ConnTyped
<1>5. \A u \in Active \ {t} : Own(u) # fd[t]
  BY <1>3 DEF Apart
<1>6. \A s \in Offering : client_fd[s] # fd[t]
  BY <1>3 DEF Apart
<1>7. Held'
  BY <1>1, <1>2, <1>3, <1>4, <1>5, <1>6 DEF Held
<1>8. Apart'
  BY <1>1, <1>2, <1>3, <1>4 DEF Apart
<1>9. Kept'
  BY <1>1, <1>2, <1>3, <1>4 DEF Kept
<1> QED
  BY <1>7, <1>8, <1>9

LEMMA ConnStepKeeps ==
    ASSUME ConnAssumption, ConnInv, [ConnNext]_connVars
    PROVE  ConnInv'
<1>1. ConnTyped /\ ConnTyped'
  BY ConnTypedStep DEF ConnInv
<1> SUFFICES ASSUME Quiet' PROVE Held' /\ Apart' /\ Kept'
  BY <1>1 DEF ConnInv
<1>2. Quiet /\ Held /\ Apart /\ Kept /\ ~hurried'
  BY <1>1, QuietBefore DEF ConnInv, Quiet
<1>3. \A s \in Protocols : serving[s]
  BY <1>2 DEF Quiet
<1>4. ASSUME NEW s \in Protocols, TestLoop(s) PROVE Held' /\ Apart' /\ Kept'
  <2>1. /\ loop[s] = "test" /\ loop' = [loop EXCEPT ![s] = "wait"]
        /\ UNCHANGED <<client_fd, arguments, table, handler, leaked>>
    BY <1>4 DEF TestLoop, Loop, connGhosts
  <2>2. Offering' = Offering
    BY <1>1, <2>1 DEF Offering, ConnTyped
  <2> QED
    BY <1>2, <2>1, <2>2, SameHolders
<1>5. ASSUME NEW s \in Protocols, TryAccept(s) PROVE Held' /\ Apart' /\ Kept'
  <2>1. /\ loop[s] = "wait" /\ loop' = [loop EXCEPT ![s] = "again"]
        /\ client_fd' = [client_fd EXCEPT ![s] = NoFd]
        /\ UNCHANGED <<arguments, table, handler, leaked>>
    BY <1>5 DEF TryAccept, Loop, connGhosts
  <2>2. Offering' = Offering /\ \A r \in Offering : client_fd'[r] = client_fd[r]
    BY <1>1, <2>1 DEF Offering, ConnTyped
  <2>3. Active' = Active /\ \A t \in Active : Own(t)' = Own(t) /\ meant'[t] = meant[t]
    BY <2>1 DEF Active, Own, handler
  <2> QED
    BY <1>2, <2>1, <2>2, <2>3 DEF Held, Apart, Kept
<1>6. ASSUME NEW s \in Protocols,
             AcceptClient(s) \/ CreateHandler(s) \/ CreateFails(s)
      PROVE  Held' /\ Apart' /\ Kept'
  BY <1>1, <1>2, <1>6, AcceptClientKeeps, CreateHandlerKeeps, CreateFailsKeeps
<1>7. ASSUME NEW s \in Protocols, ReturnNoClient(s) \/ LeaveLoop(s) PROVE FALSE
  BY <1>3, <1>7 DEF ReturnNoClient, LeaveLoop
<1>8. ASSUME NEW s \in Protocols, StopServer(s) PROVE FALSE
  <2>1. serving'[s] = FALSE
    BY <1>1, <1>8 DEF StopServer, ConnTyped
  <2> QED
    BY <2>1 DEF Quiet
<1>9. ASSUME NEW t \in Threads, ReadArguments(t) \/ Leave(t) PROVE Held' /\ Apart' /\ Kept'
  BY <1>1, <1>2, <1>9, ReadArgumentsKeeps, LeaveKeeps
<1>10. ASSUME NEW c \in Peers, PeerCloses(c) PROVE Held' /\ Apart' /\ Kept'
  BY <1>2, <1>10, SameHolders DEF PeerCloses, acceptor, connGhosts, Offering
<1>11. CASE UNCHANGED connVars
  BY <1>2, <1>11, SameHolders DEF connVars, handler, Offering
<1> QED
  BY <1>4, <1>5, <1>6, <1>7, <1>8, <1>9, <1>10, <1>11 DEF ConnNext

LEMMA ConnHolds ==
    ASSUME ConnAssumption
    PROVE  ConnSpec => []ConnInv
<1>1. ConnInv /\ [ConnNext]_connVars => ConnInv'
  BY ConnStepKeeps
<1> QED
  BY ConnInitially, <1>1, PTL DEF ConnSpec

\* Each handler serves the connection it was created for, and no other one
\* does, however descriptors are used again.
THEOREM EachItsConnection ==
    ASSUME ConnAssumption
    PROVE  ConnSpec => []ConnOwn
<1>1. ConnInv => ConnOwn
  <2> SUFFICES ASSUME ConnInv, Quiet, NEW t \in Threads, thread[t] = "serve"
               PROVE  /\ table[fd[t]] = meant[t] /\ meant[t] # Nobody
                      /\ \A u \in Threads : thread[u] = "serve" /\ fd[u] = fd[t] => u = t
    BY DEF ConnOwn
  <2>1. Held /\ Apart
    BY DEF ConnInv
  <2>2. \A u \in Threads : thread[u] = "serve" => u \in Active /\ Own(u) = fd[u]
    BY DEF Active, Own
  <2> QED
    BY <2>1, <2>2 DEF Held, Apart
<1> QED
  BY ConnHolds, <1>1, PTL

\* No connection that holds a descriptor is forgotten.
THEOREM ConnectionsClosed ==
    ASSUME ConnAssumption
    PROVE  ConnSpec => []ConnClosed
<1>1. ConnInv => ConnClosed
  <2> SUFFICES ASSUME ConnInv, Quiet, ~leaked, NEW f \in Fds, table[f] # Nobody
               PROVE  \/ \E s \in Protocols : loop[s] = "create" /\ client_fd[s] = f
                      \/ \E t \in Threads : thread[t] \in {"born", "serve"} /\ meant[t] = table[f]
    BY DEF ConnClosed
  <2>1. ConnTyped /\ Held /\ Kept
    BY DEF ConnInv
  <2>2. (\E s \in Offering : client_fd[s] = f) \/ (\E t \in Active : Own(t) = f)
    BY <2>1 DEF Kept
  <2>3. \A t \in Active : /\ t \in Threads /\ thread[t] \in {"born", "serve"}
                          /\ meant[t] = table[Own(t)]
    BY <2>1 DEF Active, ConnTyped, Held
  <2> QED
    BY <2>2, <2>3 DEF Offering
<1> QED
  BY ConnHolds, <1>1, PTL
=============================================================================
