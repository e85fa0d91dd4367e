----------------------------- MODULE AtomicImage -----------------------------
(***************************************************************************)
(* What the locks of the runtime promise to the users of the image table:  *)
(* a client's request, the program's scan, the exchange with a slave and   *)
(* the update of the pins each happen at one instant, and a request that   *)
(* was received is carried out exactly once.  ScanCycleRefinement shows    *)
(* that ScanCycle keeps the promise.                                       *)
(***************************************************************************)
EXTENDS Naturals

CONSTANTS LocalIn, SlaveIn, LocalOut, SlaveOut, Memory, Values, Driven, Program,
          Clients, Requests, NoRequest

Holding == LocalOut \cup SlaveOut \cup Memory
Addr    == LocalIn \cup SlaveIn \cup Holding

VARIABLES
    image,      \* the image table
    pins,       \* the output pins
    slaveIn,    \* the last inputs received from the slaves
    published,  \* the slave outputs of the last scan
    sent,       \* the slave outputs last taken for sending
    want,       \* the request each client made last
    pending,    \* the clients whose request has not been carried out
    answer      \* the registers each client was given

vars == <<image, pins, slaveIn, published, sent, want, pending, answer>>

Blank == [a \in Addr |-> 0]

Init ==
    /\ image = Blank
    /\ pins = [a \in LocalOut |-> 0]
    /\ slaveIn = [a \in SlaveIn |-> 0]
    /\ published = [a \in SlaveOut |-> 0]
    /\ sent = [a \in SlaveOut |-> 0]
    /\ want = [c \in Clients |-> NoRequest]
    /\ pending = {}
    /\ answer = [c \in Clients |-> Blank]

\* One input pin is read.
Sense ==
    /\ \E a \in LocalIn, v \in Values : image' = [image EXCEPT ![a] = v]
    /\ UNCHANGED <<pins, slaveIn, published, sent, want, pending, answer>>

\* All slave inputs enter the table together.
TakeSlaveInputs ==
    /\ image' = [a \in Addr |-> IF a \in SlaveIn THEN slaveIn[a] ELSE image[a]]
    /\ UNCHANGED <<pins, slaveIn, published, sent, want, pending, answer>>

\* The program runs on one image, and the slaves' outputs are those it left.
Scan ==
    /\ image' = [a \in Addr |-> IF a \in Driven THEN Program[image][a] ELSE image[a]]
    /\ published' = [a \in SlaveOut |-> image'[a]]
    /\ UNCHANGED <<pins, slaveIn, sent, want, pending, answer>>

\* The pins show one image.
Drive ==
    /\ pins' = [a \in LocalOut |-> image[a]]
    /\ UNCHANGED <<image, slaveIn, published, sent, want, pending, answer>>

Ask(c) ==
    /\ c \notin pending
    /\ \E r \in Requests : want' = [want EXCEPT ![c] = r]
    /\ pending' = pending \cup {c}
    /\ answer' = [answer EXCEPT ![c] = Blank]
    /\ UNCHANGED <<image, pins, slaveIn, published, sent>>

Answer(c) ==
    /\ c \in pending
    /\ want[c].op = "read"
    /\ answer' = [answer EXCEPT ![c] =
                    [a \in Addr |-> IF a \in want[c].regs THEN image[a] ELSE 0]]
    /\ pending' = pending \ {c}
    /\ UNCHANGED <<image, pins, slaveIn, published, sent, want>>

Store(c) ==
    /\ c \in pending
    /\ want[c].op = "write"
    /\ image' = [a \in Addr |-> IF a \in want[c].regs \cap Holding
                                THEN want[c].data[a] ELSE image[a]]
    /\ pending' = pending \ {c}
    /\ UNCHANGED <<pins, slaveIn, published, sent, want, answer>>

SlavesRespond ==
    /\ slaveIn' \in [SlaveIn -> Values]
    /\ UNCHANGED <<image, pins, published, sent, want, pending, answer>>

Send ==
    /\ sent' = published
    /\ UNCHANGED <<image, pins, slaveIn, published, want, pending, answer>>

Next ==
    \/ Sense \/ TakeSlaveInputs \/ Scan \/ Drive
    \/ \E c \in Clients : Ask(c) \/ Answer(c) \/ Store(c)
    \/ SlavesRespond \/ Send

Spec == Init /\ [][Next]_vars
=============================================================================
