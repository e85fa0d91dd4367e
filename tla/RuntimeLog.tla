------------------------------ MODULE RuntimeLog ------------------------------
(***************************************************************************)
(* The runtime's log: log() (webserver/core/utils.cpp), which all threads  *)
(* call, appends a message to log_buffer under logLock and starts over     *)
(* when the buffer or its number of messages is full; runtime_logs()       *)
(* (interactive_server.cpp) reads log_index and writes that much of the    *)
(* buffer to the web server without taking the lock.                       *)
(*                                                                         *)
(* memcpy() and write() go byte by byte, so that they overlap in the model *)
(* as they do in the program.  A byte of a message is the message with the *)
(* byte's place; messages differ in their writers and their lengths.  What *)
(* the log holds is kept beside the buffer, in the variable text.          *)
(***************************************************************************)
EXTENDS Naturals, Sequences

CONSTANTS
    Size,      \* sizeof(log_buffer)
    Most,      \* the number of messages that empties the log
    Writers,   \* threads that log
    Lengths,   \* strlen() of what they log
    Readers,   \* handlers that answer runtime_logs()
    NoWriter     \* no writer

\* log_msg is an array of 1000 characters everywhere, log_buffer of 1000000.
LogSizeAssumption ==
    /\ Size \in Nat \ {0, 1} /\ Most \in Nat
    /\ Lengths \subseteq 1..(Size - 2)
    /\ NoWriter \notin Writers

VARIABLES
    logLock,     \* who holds logLock, or NoWriter
    log_index,   \* log_index
    log_counter, \* log_counter
    log_buffer,  \* log_buffer
    writing,     \* where each writer is
    length,      \* msg_len of the message each writer logs
    done,        \* how much of it memcpy() has copied
    reading,     \* where each reader is
    upto,        \* the length each reader gives to write()
    sent,        \* what write() has sent
    text,        \* the messages since the log was emptied
    cleared      \* whether it was emptied since a reader took log_index

logVars == <<logLock, log_index, log_counter, log_buffer, writing, length, done,
             reading, upto, sent, text, cleared>>

writer == <<logLock, writing, length, done>>
reader == <<reading, upto, sent>>

Nul   == <<"nul">>
Bytes == (Writers \X Lengths \X Nat) \cup {Nul}

\* The message w logs, byte by byte.
Message(w) == [k \in 1..length[w] |-> <<w, length[w], k>>]

LogInit ==
    /\ logLock = NoWriter
    /\ log_index = 0 /\ log_counter = 0
    /\ log_buffer = [p \in 0..Size - 1 |-> Nul]
    /\ writing = [w \in Writers |-> "idle"]
    /\ length = [w \in Writers |-> 0]
    /\ done = [w \in Writers |-> 0]
    /\ reading = [r \in Readers |-> "idle"]
    /\ upto = [r \in Readers |-> 0]
    /\ sent = [r \in Readers |-> <<>>]
    /\ text = <<>>
    /\ cleared = [r \in Readers |-> FALSE]

-----------------------------------------------------------------------------
\* log()

LogMove(w, from, to) == writing[w] = from /\ writing' = [writing EXCEPT ![w] = to]

\* The log is empty from now on.
Empty == text' = <<>> /\ cleared' = [r \in Readers |-> reading[r] = "write"]

Keep == UNCHANGED <<text, cleared>>

\* Faulty: two threads log at the same time.
BeginUnlocked(w) ==
    /\ LogMove(w, "idle", "fit")
    /\ \E l \in Lengths : length' = [length EXCEPT ![w] = l]
    /\ logLock' = w
    /\ UNCHANGED <<log_index, log_counter, log_buffer, done, reader, text, cleared>>

\* pthread_mutex_lock(&logLock)
BeginLog(w) ==
    /\ logLock = NoWriter
    /\ LogMove(w, "idle", "fit")
    /\ \E l \in Lengths : length' = [length EXCEPT ![w] = l]
    /\ logLock' = w
    /\ UNCHANGED <<log_index, log_counter, log_buffer, done, reader, text, cleared>>

\* Faulty: the place of the terminator is forgotten.
FitsBarely(w) == log_index + length[w] < Size + 1

\* The message and its terminator fit behind what is there.
Fits(w) == log_index + length[w] < Size - 1

\* "clear the buffer if it's nearly full"
MakeRoom(w) ==
    /\ LogMove(w, "fit", "copy")
    /\ IF Fits(w) THEN UNCHANGED log_index /\ Keep
       ELSE log_index' = 0 /\ Empty
    /\ UNCHANGED <<logLock, log_counter, log_buffer, length, done, reader>>

\* memcpy(&log_buffer[log_index], logmsg, msg_len)
CopyByte(w) ==
    /\ LogMove(w, "copy", "copy")
    /\ done[w] < length[w]
    /\ done' = [done EXCEPT ![w] = @ + 1]
    /\ log_buffer' = [log_buffer EXCEPT ![log_index + done[w]] = Message(w)[done[w] + 1]]
    /\ UNCHANGED <<logLock, log_index, log_counter, length, reader, text, cleared>>

\* Faulty: the index moves on before the message is there.
AdvanceFirst(w) ==
    /\ LogMove(w, "copy", "end")
    /\ log_index' = log_index + length[w]
    /\ text' = text \o Message(w)
    /\ UNCHANGED <<logLock, log_counter, log_buffer, length, done, reader, cleared>>

\* log_index += msg_len
Advance(w) ==
    /\ LogMove(w, "copy", "end")
    /\ done[w] = length[w]
    /\ log_index' = log_index + length[w]
    /\ text' = text \o Message(w)
    /\ UNCHANGED <<logLock, log_counter, log_buffer, length, done, reader, cleared>>

\* log_buffer[log_index] = '\0'
Terminate(w) ==
    /\ LogMove(w, "end", "count")
    /\ log_buffer' = [log_buffer EXCEPT ![log_index] = Nul]
    /\ UNCHANGED <<logLock, log_index, log_counter, length, done, reader, text, cleared>>

\* "Clear log buffer", after so many messages; then the lock is released.
EndLog(w) ==
    /\ LogMove(w, "count", "idle")
    /\ IF log_counter + 1 >= Most
       THEN log_counter' = 0 /\ log_index' = 0 /\ Empty
       ELSE log_counter' = log_counter + 1 /\ UNCHANGED log_index /\ Keep
    /\ logLock' = NoWriter
    /\ length' = [length EXCEPT ![w] = 0]
    /\ done' = [done EXCEPT ![w] = 0]
    /\ UNCHANGED <<log_buffer, reader>>

-----------------------------------------------------------------------------
\* runtime_logs()

\* write(client_fd, log_buffer, log_index): the length is taken first.
TakeIndex(r) ==
    /\ reading[r] = "idle"
    /\ reading' = [reading EXCEPT ![r] = "write"]
    /\ upto' = [upto EXCEPT ![r] = log_index]
    /\ UNCHANGED <<writer, log_index, log_counter, log_buffer, sent, text, cleared>>

SendByte(r) ==
    /\ reading[r] = "write" /\ Len(sent[r]) < upto[r]
    /\ sent' = [sent EXCEPT ![r] = Append(@, log_buffer[Len(@)])]
    /\ UNCHANGED <<writer, log_index, log_counter, log_buffer, reading, upto, text, cleared>>

Sent(r) ==
    /\ reading[r] = "write" /\ Len(sent[r]) = upto[r]
    /\ reading' = [reading EXCEPT ![r] = "idle"]
    /\ upto' = [upto EXCEPT ![r] = 0]
    /\ sent' = [sent EXCEPT ![r] = <<>>]
    /\ cleared' = [cleared EXCEPT ![r] = FALSE]
    /\ UNCHANGED <<writer, log_index, log_counter, log_buffer, text>>

LogStep(w) ==
    \/ MakeRoom(w) \/ CopyByte(w) \/ Advance(w) \/ Terminate(w) \/ EndLog(w)

LogNext ==
    \/ \E w \in Writers : BeginLog(w) \/ LogStep(w)
    \/ \E r \in Readers : TakeIndex(r) \/ SendByte(r) \/ Sent(r)

LogSpec == LogInit /\ [][LogNext]_logVars
-----------------------------------------------------------------------------
\* Properties.

\* Type invariant: every variable holds what its declaration says.
LogTypeOK ==
    /\ logLock \in Writers \cup {NoWriter}
    /\ log_index \in Nat /\ log_counter \in Nat
    /\ log_buffer \in [0..Size - 1 -> Bytes]
    /\ writing \in [Writers -> {"idle", "fit", "copy", "end", "count"}]
    /\ length \in [Writers -> Lengths \cup {0}]
    /\ done \in [Writers -> Nat]
    /\ reading \in [Readers -> {"idle", "write"}]
    /\ upto \in [Readers -> Nat]
    /\ sent \in [Readers -> Seq(Bytes)]
    /\ text \in Seq(Bytes)
    /\ cleared \in [Readers -> BOOLEAN]

\* What a thread that logs stores next lies within log_buffer, and so does
\* all a reader is about to send.
LogWithinBuffer ==
    /\ \A w \in Writers :
          /\ writing[w] = "copy" /\ done[w] < length[w] => log_index + done[w] < Size
          /\ writing[w] = "end" => log_index < Size
    /\ \A r \in Readers : upto[r] < Size

\* Although runtime_logs() takes no lock, what it sends are the messages of
\* the log from the first on, each byte of them, unless the log was emptied
\* meanwhile: no byte is sent that log() has not put there.
LogSentIsLogged ==
    \A r \in Readers :
        ~cleared[r] =>
            /\ Len(sent[r]) <= upto[r]
            /\ upto[r] <= Len(text)
            /\ \A k \in 1..Len(sent[r]) : sent[r][k] = text[k]

\* The strengthening for the proof: a thread that logs has the lock,
LogHeld == \A w \in Writers : writing[w] # "idle" <=> logLock = w

\* up to log_index the buffer is the text, and then what is being copied,
LogBufferIsText ==
    /\ log_index = Len(text) /\ log_index < Size - 1
    /\ \A k \in 1..Len(text) : log_buffer[k - 1] = text[k]
    /\ \A w \in Writers : writing[w] = "copy" =>
          /\ log_index + length[w] < Size - 1
          /\ done[w] <= length[w]
          /\ \A k \in 1..done[w] : log_buffer[log_index + k - 1] = Message(w)[k]

\* and nobody has done anything before it has begun.
LogFresh ==
    /\ \A w \in Writers :
          /\ writing[w] \in {"idle", "fit"} => done[w] = 0
          /\ writing[w] # "idle" => length[w] \in Lengths
    /\ \A r \in Readers : reading[r] = "idle" => upto[r] = 0 /\ sent[r] = <<>>

LogInv ==
    LogTypeOK /\ LogHeld /\ LogBufferIsText /\ LogFresh /\ LogWithinBuffer /\ LogSentIsLogged
=============================================================================
