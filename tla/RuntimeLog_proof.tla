--------------------------- MODULE RuntimeLog_proof ---------------------------
(***************************************************************************)
(* The log for buffers of every length and any number of threads.  LogInv  *)
(* is inductive: a thread between lock and unlock is alone (LogHeld), so   *)
(* that the buffer up to log_index is the text at all times                *)
(* (LogBufferIsText), and a reader that takes no lock still finds the text *)
(* there, which only grows until the log is emptied.                       *)
(***************************************************************************)
EXTENDS RuntimeLog, TLAPS

USE DEF writer, reader

LEMMA LogInitInv == ASSUME LogSizeAssumption PROVE LogInit => LogInv
<1> SUFFICES ASSUME LogInit PROVE LogInv
  OBVIOUS
<1>1. LogTypeOK
  BY DEF LogInit, LogTypeOK, Bytes
<1>2. LogHeld /\ LogFresh
  BY DEF LogInit, LogHeld, LogFresh, LogSizeAssumption
<1>3. LogBufferIsText
  <2>1. Size - 1 > 0
    BY DEF LogSizeAssumption
  <2> QED
    BY <2>1 DEF LogInit, LogBufferIsText
<1>4. LogWithinBuffer /\ LogSentIsLogged
  BY <1>3 DEF LogInit, LogWithinBuffer, LogSentIsLogged, LogBufferIsText, LogSizeAssumption
<1> QED
  BY <1>1, <1>2, <1>3, <1>4 DEF LogInv

\* What a message is made of.
LEMMA MessageType ==
    ASSUME LogTypeOK, NEW w \in Writers, length[w] \in Lengths, LogSizeAssumption
    PROVE  /\ Message(w) \in Seq(Bytes)
           /\ Len(Message(w)) = length[w]
           /\ \A k \in 1..length[w] : Message(w)[k] \in Bytes
<1>0. length[w] \in 1..(Size - 2)
  BY DEF LogSizeAssumption
<1>1. length[w] \in Nat
  BY <1>0 DEF LogSizeAssumption
<1>2. \A k \in 1..length[w] : <<w, length[w], k>> \in Bytes
  BY <1>1 DEF Bytes
<1>3. Message(w) \in [1..length[w] -> Bytes]
  BY <1>2 DEF Message
<1> QED
  BY <1>1, <1>3

\* A writer that begins to log.
LEMMA BeginKeeps ==
    ASSUME LogSizeAssumption, LogInv, NEW w \in Writers, BeginLog(w)
    PROVE  LogInv'
<1> USE DEF LogInv, BeginLog, LogMove
<1>1. LogTypeOK'
  BY DEF LogTypeOK, Bytes
<1>2. LogHeld'
  BY DEF LogHeld, LogTypeOK, LogSizeAssumption
<1>3. LogBufferIsText'
  <2>1. \A v \in Writers : writing'[v] # "copy"
    BY DEF LogHeld, LogTypeOK, LogSizeAssumption
  <2> QED
    BY <2>1 DEF LogBufferIsText
<1>4. LogFresh'
  BY DEF LogFresh, LogTypeOK
<1>5. LogWithinBuffer' /\ LogSentIsLogged'
  BY DEF LogWithinBuffer, LogSentIsLogged, LogTypeOK
<1> QED
  BY <1>1, <1>2, <1>3, <1>4, <1>5

\* A buffer that is nearly full is emptied.
LEMMA RoomKeeps ==
    ASSUME LogSizeAssumption, LogInv, NEW w \in Writers, MakeRoom(w)
    PROVE  LogInv'
<1> USE DEF LogInv, MakeRoom, LogMove, Empty, Keep
<1>0. length[w] \in Lengths /\ length[w] \in 1..Size - 2 /\ logLock = w
  BY DEF LogFresh, LogHeld, LogSizeAssumption
<1>1. LogTypeOK'
  <2>0. <<>> \in Seq(Bytes)
    OBVIOUS
  <2>1. text' \in Seq(Bytes)
    BY <2>0 DEF LogTypeOK
  <2>2. cleared' \in [Readers -> BOOLEAN]
    BY DEF LogTypeOK
  <2> QED
    BY <2>1, <2>2 DEF LogTypeOK
<1>2. LogHeld'
  BY DEF LogHeld, LogTypeOK
<1>3. LogBufferIsText'
  <2>1. log_index' + length[w] < Size - 1 /\ log_index' = Len(text') /\ log_index' < Size - 1
    BY <1>0 DEF Fits, LogBufferIsText, LogTypeOK, LogSizeAssumption
  <2>2. \A k \in 1..Len(text') : log_buffer'[k - 1] = text'[k]
    BY DEF LogBufferIsText
  <2>3. \A v \in Writers : writing'[v] = "copy" => v = w
    BY <1>2, <1>0 DEF LogHeld
  <2>4. done'[w] = 0
    BY DEF LogFresh
  <2> QED
    BY <1>0, <2>1, <2>2, <2>3, <2>4 DEF LogBufferIsText, LogSizeAssumption
<1>4. LogFresh'
  BY DEF LogFresh, LogTypeOK
<1>5. LogWithinBuffer'
  <2>1. \A v \in Writers : writing'[v] = "copy" => v = w
    BY <1>2, <1>0 DEF LogHeld
  <2> QED
    BY <1>0, <1>3, <2>1 DEF LogWithinBuffer, LogBufferIsText, LogTypeOK, LogFresh, LogSizeAssumption, LogHeld
<1>6. LogSentIsLogged'
  <2>1. CASE Fits(w)
    BY <2>1 DEF LogSentIsLogged
  <2>2. CASE ~Fits(w)
    <3> SUFFICES ASSUME NEW r \in Readers, ~cleared'[r]
                 PROVE  /\ Len(sent[r]) <= upto[r] /\ upto[r] <= Len(text')
                        /\ \A k \in 1..Len(sent[r]) : sent[r][k] = text'[k]
      BY DEF LogSentIsLogged
    <3>1. reading[r] # "write"
      BY <2>2
    <3>2. upto[r] = 0 /\ sent[r] = <<>>
      BY <3>1 DEF LogFresh, LogTypeOK
    <3> QED
      BY <2>2, <3>2
  <2> QED
    BY <2>1, <2>2
<1> QED
  BY <1>1, <1>2, <1>3, <1>4, <1>5, <1>6

\* A byte is stored behind the text.
LEMMA CopyKeeps ==
    ASSUME LogSizeAssumption, LogInv, NEW w \in Writers, CopyByte(w)
    PROVE  LogInv'
<1> USE DEF LogInv, CopyByte, LogMove
<1>0. /\ length[w] \in Lengths /\ length[w] \in 1..Size - 2 /\ logLock = w
      /\ done[w] \in Nat /\ log_index \in Nat /\ log_index = Len(text)
      /\ log_index + length[w] < Size - 1
  BY DEF LogFresh, LogHeld, LogTypeOK, LogBufferIsText, LogSizeAssumption
<1>1. done[w] + 1 \in 1..length[w] /\ log_index + done[w] \in 0..Size - 1
  BY <1>0 DEF LogSizeAssumption
<1>2. Message(w)[done[w] + 1] \in Bytes
  BY <1>0, <1>1, MessageType
<1>3. LogTypeOK'
  BY <1>0, <1>1, <1>2 DEF LogTypeOK
<1>4. LogHeld' /\ LogFresh'
  BY DEF LogHeld, LogFresh, LogTypeOK
<1>5. \A v \in Writers : writing'[v] = "copy" => v = w
  BY <1>0, <1>4 DEF LogHeld
<1>6. LogBufferIsText'
  <2>1. \A k \in 1..Len(text') : log_buffer'[k - 1] = text'[k]
    BY <1>0, <1>1 DEF LogBufferIsText, LogTypeOK
  <2>2. \A k \in 1..done'[w] : log_buffer'[log_index + k - 1] = Message(w)'[k]
    <3> TAKE k \in 1..done'[w]
    <3>1. done'[w] = done[w] + 1 /\ Message(w)' = Message(w)
      BY DEF LogTypeOK, Message
    <3>2. CASE k = done[w] + 1
      BY <1>0, <1>1, <3>1, <3>2 DEF LogTypeOK
    <3>3. CASE k # done[w] + 1
      <4>1. k \in 1..done[w] /\ log_index + k - 1 # log_index + done[w]
        BY <1>0, <3>1, <3>3
      <4>2. log_buffer[log_index + k - 1] = Message(w)[k]
        BY <4>1 DEF LogBufferIsText
      <4> QED
        BY <1>0, <1>1, <3>1, <4>1, <4>2 DEF LogTypeOK, LogSizeAssumption
    <3> QED
      BY <3>2, <3>3
  <2>3. done'[w] <= length'[w] /\ log_index' + length'[w] < Size - 1
    BY <1>0, <1>1 DEF LogTypeOK
  <2>4. log_index' = Len(text') /\ log_index' < Size - 1
    BY DEF LogBufferIsText
  <2> QED
    BY <1>5, <2>1, <2>2, <2>3, <2>4 DEF LogBufferIsText
<1>7. LogWithinBuffer'
  BY <1>0, <1>1, <1>5, <1>6 DEF LogWithinBuffer, LogTypeOK, LogSizeAssumption
<1>8. LogSentIsLogged'
  BY DEF LogSentIsLogged
<1> QED
  BY <1>3, <1>4, <1>6, <1>7, <1>8

\* The text grows by the message that was copied behind it.
LEMMA AdvanceKeeps ==
    ASSUME LogSizeAssumption, LogInv, NEW w \in Writers, Advance(w)
    PROVE  LogInv'
<1> USE DEF LogInv, Advance, LogMove
<1>0. /\ length[w] \in Lengths /\ length[w] \in 1..Size - 2 /\ logLock = w
      /\ log_index \in Nat /\ log_index = Len(text) /\ text \in Seq(Bytes)
      /\ log_index + length[w] < Size - 1
      /\ \A k \in 1..length[w] : log_buffer[log_index + k - 1] = Message(w)[k]
  BY DEF LogFresh, LogHeld, LogTypeOK, LogBufferIsText, LogSizeAssumption
<1>1. Message(w) \in Seq(Bytes) /\ Len(Message(w)) = length[w]
  BY <1>0, MessageType
<1>2. /\ text' \in Seq(Bytes) /\ Len(text') = Len(text) + length[w]
      /\ \A k \in 1..Len(text) : text'[k] = text[k]
      /\ \A k \in Len(text) + 1..Len(text') : text'[k] = Message(w)[k - Len(text)]
  BY <1>0, <1>1
<1>3. log_index' \in Nat /\ log_index' < Size - 1 /\ log_index' = Len(text')
  BY <1>0, <1>2
<1>4. LogTypeOK'
  BY <1>2, <1>3 DEF LogTypeOK
<1>5. LogHeld' /\ LogFresh'
  BY DEF LogHeld, LogFresh, LogTypeOK
<1>6. \A v \in Writers : writing'[v] # "copy"
  BY <1>0, <1>5 DEF LogHeld, LogTypeOK
<1>7. LogBufferIsText'
  <2>1. \A k \in 1..Len(text') : log_buffer'[k - 1] = text'[k]
    <3> TAKE k \in 1..Len(text')
    <3>1. CASE k <= Len(text)
      BY <1>2, <3>1 DEF LogBufferIsText
    <3>2. CASE ~(k <= Len(text))
      <4>1. k - Len(text) \in 1..length[w] /\ k \in Len(text) + 1..Len(text')
        BY <1>0, <1>2, <3>2
      <4>2. log_buffer[log_index + (k - Len(text)) - 1] = Message(w)[k - Len(text)]
        BY <1>0, <4>1
      <4>3. log_index + (k - Len(text)) - 1 = k - 1
        BY <1>0
      <4> QED
        BY <1>2, <4>1, <4>2, <4>3
    <3> QED
      BY <3>1, <3>2
  <2> QED
    BY <1>3, <1>6, <2>1 DEF LogBufferIsText
<1>8. LogWithinBuffer'
  BY <1>3, <1>6 DEF LogWithinBuffer, LogTypeOK, LogSizeAssumption
<1>9. LogSentIsLogged'
  BY <1>0, <1>2 DEF LogSentIsLogged, LogTypeOK
<1> QED
  BY <1>4, <1>5, <1>7, <1>8, <1>9

\* The terminator is stored behind the text.
LEMMA TerminateKeeps ==
    ASSUME LogSizeAssumption, LogInv, NEW w \in Writers, Terminate(w)
    PROVE  LogInv'
<1> USE DEF LogInv, Terminate, LogMove
<1>0. logLock = w /\ log_index \in Nat /\ log_index = Len(text) /\ log_index < Size
  BY DEF LogHeld, LogTypeOK, LogBufferIsText, LogSizeAssumption
<1>1. LogTypeOK'
  BY DEF LogTypeOK, Bytes
<1>2. LogHeld' /\ LogFresh'
  BY DEF LogHeld, LogFresh, LogTypeOK
<1>3. \A v \in Writers : writing'[v] # "copy" /\ writing'[v] # "end"
  BY <1>0, <1>2 DEF LogHeld, LogTypeOK
<1>4. LogBufferIsText'
  BY <1>0, <1>3 DEF LogBufferIsText, LogTypeOK
<1>5. LogWithinBuffer' /\ LogSentIsLogged'
  BY <1>3 DEF LogWithinBuffer, LogSentIsLogged
<1> QED
  BY <1>1, <1>2, <1>4, <1>5

\* After so many messages the log is emptied; the lock is free again.
LEMMA EndKeeps ==
    ASSUME LogSizeAssumption, LogInv, NEW w \in Writers, EndLog(w)
    PROVE  LogInv'
<1> USE DEF LogInv, EndLog, LogMove, Empty, Keep
<1>0. logLock = w /\ log_counter \in Nat /\ Most \in Nat /\ Size - 1 > 0
  BY DEF LogHeld, LogTypeOK, LogSizeAssumption
<1>1. LogTypeOK'
  <2>1. text' \in Seq(Bytes)
    <3>1. <<>> \in Seq(Bytes)
      OBVIOUS
    <3> QED
      BY <3>1 DEF LogTypeOK
  <2>2. cleared' \in [Readers -> BOOLEAN]
    BY DEF LogTypeOK
  <2>3. log_counter' \in Nat /\ log_index' \in Nat
    BY <1>0 DEF LogTypeOK
  <2> QED
    BY <2>1, <2>2, <2>3 DEF LogTypeOK
<1>2. LogHeld'
  BY <1>0 DEF LogHeld, LogTypeOK, LogSizeAssumption
<1>3. LogFresh'
  BY DEF LogFresh, LogTypeOK
<1>4. \A v \in Writers : writing'[v] = "idle"
  BY <1>0 DEF LogHeld, LogTypeOK
<1>5. LogBufferIsText'
  BY <1>0, <1>4 DEF LogBufferIsText
<1>6. LogWithinBuffer'
  BY <1>4 DEF LogWithinBuffer
<1>7. LogSentIsLogged'
  <2>1. CASE log_counter + 1 >= Most
    <3> SUFFICES ASSUME NEW r \in Readers, ~cleared'[r]
                 PROVE  /\ Len(sent[r]) <= upto[r] /\ upto[r] <= Len(text')
                        /\ \A k \in 1..Len(sent[r]) : sent[r][k] = text'[k]
      BY DEF LogSentIsLogged
    <3>1. reading[r] # "write"
      BY <2>1
    <3>2. upto[r] = 0 /\ sent[r] = <<>>
      BY <3>1 DEF LogFresh, LogTypeOK
    <3> QED
      BY <2>1, <3>2
  <2>2. CASE ~(log_counter + 1 >= Most)
    BY <2>2 DEF LogSentIsLogged
  <2> QED
    BY <2>1, <2>2
<1> QED
  BY <1>1, <1>2, <1>3, <1>5, <1>6, <1>7

\* A reader sends the text: it takes its length, which stays within the text.
LEMMA ReaderKeeps ==
    ASSUME LogSizeAssumption, LogInv, NEW r \in Readers,
           TakeIndex(r) \/ SendByte(r) \/ Sent(r)
    PROVE  LogInv'
<1> USE DEF LogInv
<1>1. CASE TakeIndex(r)
  <2> USE <1>1 DEF TakeIndex
  <2>1. LogTypeOK'
    BY DEF LogTypeOK
  <2>4. LogHeld' /\ LogBufferIsText'
    <3>1. \A w \in Writers : Message(w)' = Message(w)
      BY DEF Message
    <3>2. LogHeld'
      BY DEF LogHeld
    <3> QED
      BY <3>1, <3>2 DEF LogBufferIsText
  <2>5. LogFresh'
    BY DEF LogFresh, LogTypeOK
  <2>2. sent[r] = <<>> /\ log_index = Len(text) /\ log_index < Size
    BY DEF LogFresh, LogBufferIsText, LogTypeOK, LogSizeAssumption
  <2>3. LogWithinBuffer' /\ LogSentIsLogged'
    BY <2>2 DEF LogWithinBuffer, LogSentIsLogged, LogTypeOK
  <2> QED
    BY <2>1, <2>3, <2>4, <2>5
<1>2. CASE SendByte(r)
  <2> USE <1>2 DEF SendByte
  <2>0. /\ Len(sent[r]) \in 0..Size - 1 /\ sent[r] \in Seq(Bytes)
        /\ Len(sent[r]) < upto[r] /\ upto[r] < Size
    BY DEF LogTypeOK, LogWithinBuffer, LogSizeAssumption
  <2>1. LogTypeOK'
    <3>1. log_buffer[Len(sent[r])] \in Bytes
      BY <2>0 DEF LogTypeOK
    <3>2. Append(sent[r], log_buffer[Len(sent[r])]) \in Seq(Bytes)
      BY <2>0, <3>1
    <3> QED
      BY <3>2 DEF LogTypeOK
  <2>2. LogHeld' /\ LogBufferIsText' /\ LogWithinBuffer'
    <3>1. \A w \in Writers : Message(w)' = Message(w)
      BY DEF Message
    <3>2. LogHeld' /\ LogWithinBuffer'
      BY DEF LogHeld, LogWithinBuffer
    <3> QED
      BY <3>1, <3>2 DEF LogBufferIsText
  <2>4. LogFresh'
    BY DEF LogFresh, LogTypeOK
  <2>3. LogSentIsLogged'
    <3> SUFFICES ASSUME ~cleared[r]
                 PROVE  /\ Len(sent'[r]) <= upto[r] /\ upto[r] <= Len(text)
                        /\ \A k \in 1..Len(sent'[r]) : sent'[r][k] = text[k]
      BY DEF LogSentIsLogged, LogTypeOK
    <3>1. sent'[r] = Append(sent[r], log_buffer[Len(sent[r])])
      BY DEF LogTypeOK
    <3>2. upto[r] <= Len(text) /\ \A k \in 1..Len(sent[r]) : sent[r][k] = text[k]
      BY DEF LogSentIsLogged
    <3>3. Len(sent[r]) + 1 \in 1..Len(text)
      BY <2>0, <3>2 DEF LogTypeOK
    <3>4. log_buffer[Len(sent[r])] = text[Len(sent[r]) + 1]
      BY <2>0, <3>3 DEF LogBufferIsText
    <3> QED
      BY <2>0, <3>1, <3>2, <3>4 DEF LogTypeOK
  <2> QED
    BY <2>1, <2>2, <2>3, <2>4
<1>3. CASE Sent(r)
  <2> USE <1>3 DEF Sent
  <2>1. LogTypeOK' /\ LogHeld' /\ LogBufferIsText' /\ LogFresh'
    BY DEF LogTypeOK, LogHeld, LogBufferIsText, LogFresh, Message
  <2>2. LogWithinBuffer' /\ LogSentIsLogged'
    BY DEF LogWithinBuffer, LogSentIsLogged, LogTypeOK, LogSizeAssumption
  <2> QED
    BY <2>1, <2>2
<1> QED
  BY <1>1, <1>2, <1>3

\* LogInv is inductive.
LEMMA LogInductive ==
    ASSUME LogSizeAssumption PROVE LogInv /\ [LogNext]_logVars => LogInv'
<1> SUFFICES ASSUME LogInv, [LogNext]_logVars PROVE LogInv'
  OBVIOUS
<1>1. ASSUME NEW w \in Writers, BeginLog(w) \/ LogStep(w) PROVE LogInv'
  BY <1>1, BeginKeeps, RoomKeeps, CopyKeeps, AdvanceKeeps, TerminateKeeps, EndKeeps
  DEF LogStep
<1>2. ASSUME NEW r \in Readers, TakeIndex(r) \/ SendByte(r) \/ Sent(r) PROVE LogInv'
  BY <1>2, ReaderKeeps
<1>3. CASE UNCHANGED logVars
  <2> USE <1>3 DEF logVars, LogInv
  <2>1. LogTypeOK'
    BY DEF LogTypeOK
  <2>2. LogHeld' /\ LogFresh'
    BY DEF LogHeld, LogFresh
  <2>3. LogBufferIsText'
    <3>1. \A w \in Writers : Message(w)' = Message(w)
      BY DEF Message
    <3> QED
      BY <3>1 DEF LogBufferIsText
  <2>4. LogWithinBuffer' /\ LogSentIsLogged'
    BY DEF LogWithinBuffer, LogSentIsLogged
  <2> QED
    BY <2>1, <2>2, <2>3, <2>4
<1> QED
  BY <1>1, <1>2, <1>3 DEF LogNext

LEMMA LogSafe == ASSUME LogSizeAssumption PROVE LogSpec => []LogInv
<1> QED
  BY LogInitInv, LogInductive, PTL DEF LogSpec

\* Every variable of the log keeps its type.
THEOREM LogTyped == ASSUME LogSizeAssumption PROVE LogSpec => []LogTypeOK
<1>1. LogInv => LogTypeOK
  BY DEF LogInv
<1> QED
  BY <1>1, LogSafe, PTL

\* No thread that logs stores beyond log_buffer, and no reader reads beyond
\* it, for messages of every length that fits.
THEOREM LogStaysInside == ASSUME LogSizeAssumption PROVE LogSpec => []LogWithinBuffer
<1>1. LogInv => LogWithinBuffer
  BY DEF LogInv
<1> QED
  BY <1>1, LogSafe, PTL

\* What runtime_logs() sends without the lock is the log, byte by byte, unless
\* the log was emptied meanwhile.
THEOREM LogSendsLog == ASSUME LogSizeAssumption PROVE LogSpec => []LogSentIsLogged
<1>1. LogInv => LogSentIsLogged
  BY DEF LogInv
<1> QED
  BY <1>1, LogSafe, PTL
=============================================================================
