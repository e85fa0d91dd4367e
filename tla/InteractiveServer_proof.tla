------------------------ MODULE InteractiveServer_proof ------------------------
(***************************************************************************)
(* For any number of operators, threads and clients, whatever commands     *)
(* come: the types; and, when lines do not overlap and whoever may tell    *)
(* the runtime to quit is the only one who commands (QuitsAlone): no two   *)
(* threads run one server, no command joins a thread that is not there,    *)
(* the process exits without server threads, and a server that was stopped *)
(* takes no client.                                                        *)
(*                                                                         *)
(* The argument: what is left of a script is one of a few sequences (the   *)
(* rests), so that a clear is followed by its join and a set by its        *)
(* create.  One handler works at a time (Serial), so that between scripts  *)
(* the flag of a server says whether it has a thread (InStep) and its      *)
(* handle names that thread (Handled).  Once quit() has stopped two        *)
(* servers (QuitStops) nobody starts one (QuitIsLast), and the tear-down   *)
(* meets the third alone (TearsDown).                                      *)
(***************************************************************************)
EXTENDS InteractiveServer, SequenceTheorems, TLAPS

-----------------------------------------------------------------------------
\* Scripts.

LEMMA TwoAndTwo ==
    ASSUME NEW a, NEW b, NEW c, NEW d
    PROVE  <<a, b>> \o <<c, d>> = <<a, b, c, d>>
<1> DEFINE S == {a, b, c, d}
           x == <<a, b>>
           y == <<c, d>>
           z == <<a, b, c, d>>
<1>1. x \in Seq(S) /\ y \in Seq(S) /\ z \in Seq(S)
  OBVIOUS
<1>2. /\ x \o y \in Seq(S)
      /\ Len(x \o y) = Len(x) + Len(y)
      /\ \A i \in 1..Len(x) + Len(y) :
            (x \o y)[i] = IF i <= Len(x) THEN x[i] ELSE y[i - Len(x)]
  BY <1>1, ConcatProperties
<1>3. Len(x) = 2 /\ Len(y) = 2 /\ Len(z) = 4
  OBVIOUS
<1>4. \A i \in 1..4 : (IF i <= 2 THEN x[i] ELSE y[i - 2]) = z[i]
  <2>1. \A i \in 1..4 : i = 1 \/ i = 2 \/ i = 3 \/ i = 4
    OBVIOUS
  <2>2. x[1] = z[1] /\ x[2] = z[2] /\ y[3 - 2] = z[3] /\ y[4 - 2] = z[4]
    OBVIOUS
  <2> QED
    BY <2>1, <2>2
<1> HIDE DEF x, y, z
<1>5. x \o y = z
  <2>1. Len(x \o y) = Len(z)
    BY <1>2, <1>3
  <2>2. \A i \in 1..Len(x \o y) : (x \o y)[i] = z[i]
    BY <1>2, <1>3, <1>4
  <2> QED
    BY <1>1, <1>2, <2>1, <2>2, SeqEqual
<1> QED
  BY <1>5 DEF x, y, z

LEMMA FourAndOne ==
    ASSUME NEW a, NEW b, NEW c, NEW d, NEW e
    PROVE  <<a, b, c, d>> \o <<e>> = <<a, b, c, d, e>>
<1> DEFINE S == {a, b, c, d, e}
           x == <<a, b, c, d>>
           y == <<e>>
           z == <<a, b, c, d, e>>
<1>1. x \in Seq(S) /\ y \in Seq(S) /\ z \in Seq(S)
  OBVIOUS
<1>2. /\ x \o y \in Seq(S)
      /\ Len(x \o y) = Len(x) + Len(y)
      /\ \A i \in 1..Len(x) + Len(y) :
            (x \o y)[i] = IF i <= Len(x) THEN x[i] ELSE y[i - Len(x)]
  BY <1>1, ConcatProperties
<1>3. Len(x) = 4 /\ Len(y) = 1 /\ Len(z) = 5
  OBVIOUS
<1>4. \A i \in 1..5 : (IF i <= 4 THEN x[i] ELSE y[i - 4]) = z[i]
  <2>1. \A i \in 1..5 : i = 1 \/ i = 2 \/ i = 3 \/ i = 4 \/ i = 5
    OBVIOUS
  <2>2. x[1] = z[1] /\ x[2] = z[2] /\ x[3] = z[3] /\ x[4] = z[4] /\ y[5 - 4] = z[5]
    OBVIOUS
  <2> QED
    BY <2>1, <2>2
<1> HIDE DEF x, y, z
<1>5. x \o y = z
  <2>1. Len(x \o y) = Len(z)
    BY <1>2, <1>3
  <2>2. \A i \in 1..Len(x \o y) : (x \o y)[i] = z[i]
    BY <1>2, <1>3, <1>4
  <2> QED
    BY <1>1, <1>2, <2>1, <2>2, SeqEqual
<1> QED
  BY <1>5 DEF x, y, z

\* What may be left of a script: of a stop, a start, quit(), and the tear-down.
StopRest(t, s) ==
    \/ t = <<<<"clear", s>>, <<"join", s>>>>
    \/ t = <<<<"join", s>>>>

StartRest(t, s) ==
    \/ t = <<<<"clear", s>>, <<"join", s>>, <<"set", s>>, <<"create", s>>>>
    \/ t = <<<<"join", s>>, <<"set", s>>, <<"create", s>>>>
    \/ t = <<<<"set", s>>, <<"create", s>>>>
    \/ t = <<<<"create", s>>>>

QuitRest(t) ==
    \/ t = <<<<"clear", "modbus">>, <<"join", "modbus">>,
             <<"clear", "dnp3">>, <<"join", "dnp3">>, <<"halt", "modbus">>>>
    \/ t = <<<<"join", "modbus">>, <<"clear", "dnp3">>, <<"join", "dnp3">>,
             <<"halt", "modbus">>>>
    \/ t = <<<<"clear", "dnp3">>, <<"join", "dnp3">>, <<"halt", "modbus">>>>
    \/ t = <<<<"join", "dnp3">>, <<"halt", "modbus">>>>
    \/ t = <<<<"halt", "modbus">>>>

OperatorRest(t) ==
    t = <<>> \/ QuitRest(t) \/ \E s \in Servers : StopRest(t, s) \/ StartRest(t, s)

TearRest(t) ==
    \/ t = <<<<"off", "modbus">>, <<"off", "dnp3">>, <<"off", "enip">>,
             <<"join", "modbus">>, <<"join", "dnp3">>, <<"join", "enip">>>>
    \/ t = <<<<"off", "dnp3">>, <<"off", "enip">>,
             <<"join", "modbus">>, <<"join", "dnp3">>, <<"join", "enip">>>>
    \/ t = <<<<"off", "enip">>, <<"join", "modbus">>, <<"join", "dnp3">>,
             <<"join", "enip">>>>
    \/ t = <<<<"join", "modbus">>, <<"join", "dnp3">>, <<"join", "enip">>>>
    \/ t = <<<<"join", "dnp3">>, <<"join", "enip">>>>
    \/ t = <<<<"join", "enip">>>>

LEMMA ScriptRests ==
    ASSUME NEW c \in Commands
    PROVE  /\ OperatorRest(Script(c))
           /\ c = Ask => Script(c) = <<>>
           /\ c = <<"quit", "modbus">> => QuitRest(Script(c))
           /\ c # <<"quit", "modbus">> => ~QuitRest(Script(c))
<1>1. CASE c = Ask
  <2>1. Script(c) = <<>>
    BY <1>1 DEF Script, Ask
  <2> QED
    BY <1>1, <2>1 DEF OperatorRest, QuitRest, Ask
<1>2. CASE c = <<"quit", "modbus">>
  <2>1. Script(c) = Stop("modbus") \o Stop("dnp3") \o <<<<"halt", "modbus">>>>
    BY <1>2 DEF Script, Quit
  <2>2. QuitRest(Script(c))
    <3>1. Stop("modbus") \o Stop("dnp3") =
            <<<<"clear", "modbus">>, <<"join", "modbus">>, <<"clear", "dnp3">>,
              <<"join", "dnp3">>>>
      BY TwoAndTwo DEF Stop
    <3>2. Script(c) = <<<<"clear", "modbus">>, <<"join", "modbus">>,
                        <<"clear", "dnp3">>, <<"join", "dnp3">>, <<"halt", "modbus">>>>
      BY <2>1, <3>1, FourAndOne
    <3> QED
      BY <3>2 DEF QuitRest
  <2> QED
    BY <1>2, <2>2 DEF OperatorRest, Ask
<1>3. ASSUME NEW s \in Servers, c = <<"stop", s>>
      PROVE  OperatorRest(Script(c)) /\ ~QuitRest(Script(c))
  <2>1. Script(c) = <<<<"clear", s>>, <<"join", s>>>>
    BY <1>3 DEF Script, Stop
  <2> QED
    BY <2>1 DEF OperatorRest, StopRest, QuitRest
<1>4. ASSUME NEW s \in Servers, c = <<"start", s>>
      PROVE  OperatorRest(Script(c)) /\ ~QuitRest(Script(c))
  <2>1. Script(c) = Stop(s) \o Start(s)
    BY <1>4 DEF Script
  <2>2. Script(c) = <<<<"clear", s>>, <<"join", s>>, <<"set", s>>, <<"create", s>>>>
    BY <2>1, TwoAndTwo DEF Stop, Start
  <2> QED
    BY <2>2 DEF OperatorRest, StartRest, QuitRest
<1>5. \/ c = Ask \/ c = <<"quit", "modbus">>
      \/ \E s \in Servers : c = <<"stop", s>> \/ c = <<"start", s>>
  BY DEF Commands
<1>6. \A s : <<"stop", s>> # Ask /\ <<"stop", s>> # <<"quit", "modbus">>
             /\ <<"start", s>> # Ask /\ <<"start", s>> # <<"quit", "modbus">>
  BY DEF Ask
<1> QED
  BY <1>1, <1>2, <1>3, <1>4, <1>5, <1>6

\* A step leaves the rest of a script.
LEMMA RestsGoOn ==
    ASSUME NEW t, t # <<>>, OperatorRest(t)
    PROVE  /\ OperatorRest(Tail(t))
           /\ Head(t)[1] = "clear" => OperatorRest(Tail(Tail(t)))
           /\ Head(t)[2] \in Servers
           /\ Len(t) <= 6
           /\ Head(t)[1] # "off"
<1>1. CASE QuitRest(t)
  <2>1. CASE t = <<<<"clear", "modbus">>, <<"join", "modbus">>, <<"clear", "dnp3">>,
                   <<"join", "dnp3">>, <<"halt", "modbus">>>>
    <3>1. /\ Tail(t) = <<<<"join", "modbus">>, <<"clear", "dnp3">>,
                         <<"join", "dnp3">>, <<"halt", "modbus">>>>
          /\ Head(t) = <<"clear", "modbus">>
          /\ Len(t) = 5
          /\ Tail(Tail(t)) = <<<<"clear", "dnp3">>, <<"join", "dnp3">>,
                               <<"halt", "modbus">>>>
      BY <2>1
    <3> QED
      BY <3>1 DEF OperatorRest, QuitRest, Servers
  <2>2. CASE t = <<<<"join", "modbus">>, <<"clear", "dnp3">>, <<"join", "dnp3">>,
                   <<"halt", "modbus">>>>
    <3>1. /\ Tail(t) = <<<<"clear", "dnp3">>, <<"join", "dnp3">>, <<"halt", "modbus">>>>
          /\ Head(t) = <<"join", "modbus">>
          /\ Len(t) = 4
      BY <2>2
    <3> QED
      BY <3>1 DEF OperatorRest, QuitRest, Servers
  <2>3. CASE t = <<<<"clear", "dnp3">>, <<"join", "dnp3">>, <<"halt", "modbus">>>>
    <3>1. /\ Tail(t) = <<<<"join", "dnp3">>, <<"halt", "modbus">>>>
          /\ Head(t) = <<"clear", "dnp3">>
          /\ Len(t) = 3
          /\ Tail(Tail(t)) = <<<<"halt", "modbus">>>>
      BY <2>3
    <3> QED
      BY <3>1 DEF OperatorRest, QuitRest, Servers
  <2>4. CASE t = <<<<"join", "dnp3">>, <<"halt", "modbus">>>>
    <3>1. Tail(t) = <<<<"halt", "modbus">>>> /\ Head(t) = <<"join", "dnp3">> /\ Len(t) = 2
      BY <2>4
    <3> QED
      BY <3>1 DEF OperatorRest, QuitRest, Servers
  <2>5. CASE t = <<<<"halt", "modbus">>>>
    <3>1. Tail(t) = <<>> /\ Head(t) = <<"halt", "modbus">> /\ Len(t) = 1
      BY <2>5
    <3> QED
      BY <3>1 DEF OperatorRest, QuitRest, Servers
  <2> QED
    BY <1>1, <2>1, <2>2, <2>3, <2>4, <2>5 DEF QuitRest
<1>2. ASSUME NEW s \in Servers, StopRest(t, s)
      PROVE  /\ OperatorRest(Tail(t))
             /\ Head(t)[1] = "clear" => OperatorRest(Tail(Tail(t)))
             /\ Head(t)[2] \in Servers
             /\ Len(t) <= 6
             /\ Head(t)[1] # "off"
  <2>1. CASE t = <<<<"clear", s>>, <<"join", s>>>>
    <3>1. /\ Tail(t) = <<<<"join", s>>>>
          /\ Head(t) = <<"clear", s>>
          /\ Len(t) = 2
          /\ Tail(Tail(t)) = <<>>
      BY <2>1
    <3> QED
      BY <3>1 DEF OperatorRest, StopRest
  <2>2. CASE t = <<<<"join", s>>>>
    <3>1. Tail(t) = <<>> /\ Head(t) = <<"join", s>> /\ Len(t) = 1
      BY <2>2
    <3> QED
      BY <3>1 DEF OperatorRest, StopRest
  <2> QED
    BY <1>2, <2>1, <2>2 DEF StopRest
<1>3. ASSUME NEW s \in Servers, StartRest(t, s)
      PROVE  /\ OperatorRest(Tail(t))
             /\ Head(t)[1] = "clear" => OperatorRest(Tail(Tail(t)))
             /\ Head(t)[2] \in Servers
             /\ Len(t) <= 6
             /\ Head(t)[1] # "off"
  <2>1. CASE t = <<<<"clear", s>>, <<"join", s>>, <<"set", s>>, <<"create", s>>>>
    <3>1. /\ Tail(t) = <<<<"join", s>>, <<"set", s>>, <<"create", s>>>>
          /\ Head(t) = <<"clear", s>>
          /\ Len(t) = 4
          /\ Tail(Tail(t)) = <<<<"set", s>>, <<"create", s>>>>
      BY <2>1
    <3> QED
      BY <3>1 DEF OperatorRest, StartRest
  <2>2. CASE t = <<<<"join", s>>, <<"set", s>>, <<"create", s>>>>
    <3>1. /\ Tail(t) = <<<<"set", s>>, <<"create", s>>>>
          /\ Head(t) = <<"join", s>>
          /\ Len(t) = 3
      BY <2>2
    <3> QED
      BY <3>1 DEF OperatorRest, StartRest
  <2>3. CASE t = <<<<"set", s>>, <<"create", s>>>>
    <3>1. Tail(t) = <<<<"create", s>>>> /\ Head(t) = <<"set", s>> /\ Len(t) = 2
      BY <2>3
    <3> QED
      BY <3>1 DEF OperatorRest, StartRest
  <2>4. CASE t = <<<<"create", s>>>>
    <3>1. Tail(t) = <<>> /\ Head(t) = <<"create", s>> /\ Len(t) = 1
      BY <2>4
    <3> QED
      BY <3>1 DEF OperatorRest, StartRest
  <2> QED
    BY <1>3, <2>1, <2>2, <2>3, <2>4 DEF StartRest
<1> QED
  BY <1>1, <1>2, <1>3 DEF OperatorRest

LEMMA TearGoesOn ==
    ASSUME NEW t, TearRest(t)
    PROVE  /\ TearRest(Tail(t)) \/ Tail(t) = <<>>
           /\ Head(t)[1] \in {"off", "join"}
           /\ Head(t)[2] \in Servers
           /\ Len(t) <= 6
           /\ t # <<>>
<1>1. CASE t = <<<<"off", "modbus">>, <<"off", "dnp3">>, <<"off", "enip">>,
                 <<"join", "modbus">>, <<"join", "dnp3">>, <<"join", "enip">>>>
  <2>1. /\ Tail(t) = <<<<"off", "dnp3">>, <<"off", "enip">>, <<"join", "modbus">>,
                       <<"join", "dnp3">>, <<"join", "enip">>>>
        /\ Head(t) = <<"off", "modbus">>
        /\ Len(t) = 6
    BY <1>1
  <2> QED
    BY <2>1 DEF TearRest, Servers
<1>2. CASE t = <<<<"off", "dnp3">>, <<"off", "enip">>, <<"join", "modbus">>,
                 <<"join", "dnp3">>, <<"join", "enip">>>>
  <2>1. /\ Tail(t) = <<<<"off", "enip">>, <<"join", "modbus">>, <<"join", "dnp3">>,
                       <<"join", "enip">>>>
        /\ Head(t) = <<"off", "dnp3">>
        /\ Len(t) = 5
    BY <1>2
  <2> QED
    BY <2>1 DEF TearRest, Servers
<1>3. CASE t = <<<<"off", "enip">>, <<"join", "modbus">>, <<"join", "dnp3">>,
                 <<"join", "enip">>>>
  <2>1. /\ Tail(t) = <<<<"join", "modbus">>, <<"join", "dnp3">>, <<"join", "enip">>>>
        /\ Head(t) = <<"off", "enip">>
        /\ Len(t) = 4
    BY <1>3
  <2> QED
    BY <2>1 DEF TearRest, Servers
<1>4. CASE t = <<<<"join", "modbus">>, <<"join", "dnp3">>, <<"join", "enip">>>>
  <2>1. /\ Tail(t) = <<<<"join", "dnp3">>, <<"join", "enip">>>>
        /\ Head(t) = <<"join", "modbus">>
        /\ Len(t) = 3
    BY <1>4
  <2> QED
    BY <2>1 DEF TearRest, Servers
<1>5. CASE t = <<<<"join", "dnp3">>, <<"join", "enip">>>>
  <2>1. Tail(t) = <<<<"join", "enip">>>> /\ Head(t) = <<"join", "dnp3">> /\ Len(t) = 2
    BY <1>5
  <2> QED
    BY <2>1 DEF TearRest, Servers
<1>6. CASE t = <<<<"join", "enip">>>>
  <2>1. Tail(t) = <<>> /\ Head(t) = <<"join", "enip">> /\ Len(t) = 1
    BY <1>6
  <2> QED
    BY <2>1 DEF TearRest, Servers
<1> QED
  BY <1>1, <1>2, <1>3, <1>4, <1>5, <1>6 DEF TearRest
-----------------------------------------------------------------------------
\* Type correctness.

\* What is left of a worker's script.
Rest(w, t) ==
    \/ w \in Operators /\ OperatorRest(t)
    \/ w = Teardown /\ (TearRest(t) \/ t = <<>>)

Scripted == todo = [w \in Workers |-> todo[w]] /\ \A w \in Workers : Rest(w, todo[w])

\* Only a server that listens comes to accept a client.
Listens == \A i \in Ids : at[i] \in {"accept", "spawn"} => serves[i] \in Listening

Typed == TypeOK /\ Scripted /\ Listens

LEMMA RestShort == ASSUME NEW w, NEW t, Rest(w, t) PROVE Len(t) <= 6
<1>1. CASE t = <<>>
  BY <1>1
<1>2. CASE t # <<>>
  BY <1>2, RestsGoOn, TearGoesOn DEF Rest
<1> QED
  BY <1>1, <1>2

\* One step of a script, and two for a server that does not run.
LEMMA StepsScripted ==
    ASSUME ThreadsAssumption, NEW w \in Workers, NEW t, Rest(w, t), t # <<>>
    PROVE  /\ Rest(w, Tail(t))
           /\ Head(t)[1] = "clear" => Rest(w, Tail(Tail(t)))
           /\ Head(t)[2] \in Servers
           /\ w \in Operators => Head(t)[1] # "off"
           /\ w \notin Operators => Head(t)[1] \in {"off", "join"}
<1>1. CASE w \in Operators
  <2>1. OperatorRest(t)
    BY <1>1 DEF Rest, ThreadsAssumption
  <2> QED
    BY <1>1, <2>1, RestsGoOn DEF Rest
<1>2. CASE w \notin Operators
  <2>1. w = Teardown /\ TearRest(t)
    BY <1>2 DEF Rest
  <2> QED
    BY <1>2, <2>1, TearGoesOn DEF Rest
<1> QED
  BY <1>1, <1>2

\* Whatever replaces what is left of one worker's script by a rest of it.
LEMMA ScriptedGoesOn ==
    ASSUME Scripted, NEW w \in Workers, NEW t, Rest(w, t), todo' = [todo EXCEPT ![w] = t]
    PROVE  Scripted' /\ \A v \in Workers : Len(todo'[v]) <= 6
<1>1. todo' = [v \in Workers |-> todo'[v]] /\ \A v \in Workers : Rest(v, todo'[v])
  BY DEF Scripted
<1> QED
  BY <1>1, RestShort DEF Scripted

LEMMA ScriptedStays ==
    ASSUME Scripted, UNCHANGED todo
    PROVE  Scripted' /\ \A v \in Workers : Len(todo'[v]) <= 6
<1>1. todo' = [v \in Workers |-> todo'[v]] /\ \A v \in Workers : Rest(v, todo'[v])
  BY DEF Scripted
<1> QED
  BY <1>1, RestShort DEF Scripted

LEMMA DoneScripted ==
    ASSUME ThreadsAssumption, Scripted, NEW w \in Workers, todo[w] # <<>>, Done(w)
    PROVE  Scripted' /\ \A v \in Workers : Len(todo'[v]) <= 6
<1>1. Rest(w, Tail(todo[w])) /\ todo' = [todo EXCEPT ![w] = Tail(todo[w])]
  BY StepsScripted DEF Scripted, Done
<1> QED
  BY <1>1, ScriptedGoesOn

LEMMA InitTyped == ASSUME ThreadsAssumption PROVE Init => Typed
<1> SUFFICES ASSUME Init PROVE Typed
  OBVIOUS
<1>1. TypeOK
  <2>1. Ask \in Commands
    BY DEF Commands
  <2>2. \A w \in Workers : Len(todo[w]) <= 6
    BY DEF Init
  <2>3. "modbus" \in Servers /\ "modbus" \in Listening
    BY DEF Servers, Listening
  <2> QED
    BY <2>1, <2>2, <2>3 DEF Init, TypeOK
<1>2. Scripted
  BY DEF Init, Scripted, Rest, OperatorRest, Workers
<1>3. Listens
  BY DEF Init, Listens
<1> QED
  BY <1>1, <1>2, <1>3 DEF Typed

LEMMA OperatorTyped ==
    ASSUME ThreadsAssumption, Typed, NEW o \in Operators,
           Receive(o) \/ OperatorStep(o), ~ScriptStep(o)
    PROVE  Typed'
<1> USE DEF threads, shared, Goto
<1>0. o \in Workers /\ Ask \in Commands
  BY DEF Workers, Ask, Commands
<1>1. CASE CheckRun(o)
  BY <1>0, <1>1, ScriptedStays DEF CheckRun, Typed, TypeOK, Listens
<1>2. CASE Receive(o)
  BY <1>0, <1>2, ScriptedStays DEF Receive, Typed, TypeOK, Listens, ThreadsAssumption
<1>3. CASE CopyLine(o)
  BY <1>0, <1>3, ScriptedStays DEF CopyLine, Typed, TypeOK, Listens
<1>4. CASE AnswerBusy(o)
  BY <1>0, <1>4, ScriptedStays DEF AnswerBusy, Typed, TypeOK, Listens
<1>5. CASE SeeIdle(o)
  BY <1>0, <1>5, ScriptedStays DEF SeeIdle, Typed, TypeOK, Listens
<1>6. CASE BeginCommand(o)
  <2>1. Rest(o, Script(line))
    BY <1>6, ScriptRests DEF Typed, TypeOK, Rest
  <2>2. Scripted' /\ \A v \in Workers : Len(todo'[v]) <= 6
    BY <1>0, <1>6, <2>1, ScriptedGoesOn DEF BeginCommand, Typed
  <2> QED
    BY <1>0, <1>6, <2>2 DEF BeginCommand, Typed, TypeOK, Listens
<1>7. CASE EndCommand(o)
  BY <1>0, <1>7, ScriptedStays DEF EndCommand, Typed, TypeOK, Listens
<1>8. CASE Answer(o)
  BY <1>0, <1>8, ScriptedStays DEF Answer, Typed, TypeOK, Listens
<1> QED
  BY <1>1, <1>2, <1>3, <1>4, <1>5, <1>6, <1>7, <1>8 DEF OperatorStep

LEMMA ScriptTyped ==
    ASSUME ThreadsAssumption, Typed, NEW w \in Workers, ScriptStep(w)
    PROVE  Typed'
<1> USE DEF threads, shared, At
<1>0. todo[w] # <<>> /\ Server(w) \in Servers
  <2>1. todo[w] # <<>>
    BY DEF ScriptStep, Clear, SetFlag, Join, JoinUndefined, Create, Halt
  <2> QED
    BY <2>1, StepsScripted DEF Typed, Scripted, Server
<1>1. CASE Clear(w)
  <2>1. Rest(w, Tail(todo[w])) /\ Rest(w, Tail(Tail(todo[w])))
    BY <1>0, <1>1, StepsScripted DEF Clear, Typed, Scripted
  <2>2. Scripted' /\ \A v \in Workers : Len(todo'[v]) <= 6
    BY <1>1, <2>1, ScriptedGoesOn DEF Clear, Done, Typed
  <2> QED
    BY <1>0, <1>1, <2>2 DEF Clear, Typed, TypeOK, Listens
<1>2. CASE SetFlag(w)
  BY <1>0, <1>2, DoneScripted DEF SetFlag, Typed, TypeOK, Listens
<1>3. CASE Join(w)
  BY <1>0, <1>3, DoneScripted DEF Join, Typed, TypeOK, Listens, Servers
<1>4. CASE JoinUndefined(w)
  <2>1. Scripted' /\ \A v \in Workers : Len(todo'[v]) <= 6
    BY <1>0, <1>4, DoneScripted, ScriptedStays DEF JoinUndefined, Typed
  <2> QED
    BY <1>0, <1>4, <2>1 DEF JoinUndefined, Typed, TypeOK, Listens
<1>5. CASE Create(w)
  BY <1>0, <1>5, DoneScripted DEF Create, Typed, TypeOK, Listens
<1>6. CASE Halt(w)
  BY <1>0, <1>6, DoneScripted DEF Halt, Typed, TypeOK, Listens
<1> QED
  BY <1>1, <1>2, <1>3, <1>4, <1>5, <1>6 DEF ScriptStep

LEMMA EndTyped ==
    ASSUME ThreadsAssumption, Typed, BeginTeardown \/ Exit
    PROVE  Typed'
<1> USE DEF threads, shared, Goto
<1>0. Teardown \in Workers
  BY DEF Workers
<1>1. CASE BeginTeardown
  <2>1. Rest(Teardown, TearDownAll)
    BY DEF Rest, TearRest, TearDownAll
  <2>2. Scripted' /\ \A v \in Workers : Len(todo'[v]) <= 6
    BY <1>0, <1>1, <2>1, ScriptedGoesOn DEF BeginTeardown, Typed
  <2> QED
    BY <1>0, <1>1, <2>2 DEF BeginTeardown, Typed, TypeOK, Listens
<1>2. CASE Exit
  BY <1>2, ScriptedStays DEF Exit, Typed, TypeOK, Listens
<1> QED
  BY <1>1, <1>2

LEMMA ServerTyped ==
    ASSUME Typed, NEW i \in Ids, ServerStep(i) \/ Accept(i)
    PROVE  Typed'
<1> USE DEF shared, Move, Flag
<1>1. CASE TestFlag(i)
  BY <1>1, ScriptedStays DEF TestFlag, Typed, TypeOK, Listens
<1>2. CASE StopWaiting(i)
  BY <1>2, ScriptedStays DEF StopWaiting, Typed, TypeOK, Listens
<1>3. CASE Spawn(i)
  BY <1>3, ScriptedStays DEF Spawn, Typed, TypeOK, Listens
<1>4. CASE Accept(i)
  BY <1>4, ScriptedStays DEF Accept, Typed, TypeOK, Listens
<1> QED
  BY <1>1, <1>2, <1>3, <1>4 DEF ServerStep

LEMMA NextTyped ==
    ASSUME ThreadsAssumption, Typed, [Next]_vars
    PROVE  Typed'
<1>1. ASSUME NEW o \in Operators, Receive(o) \/ OperatorStep(o) PROVE Typed'
  <2>1. o \in Workers
    BY DEF Workers
  <2> QED
    BY <1>1, <2>1, OperatorTyped, ScriptTyped
<1>2. CASE BeginTeardown \/ ScriptStep(Teardown) \/ Exit
  <2>1. Teardown \in Workers
    BY DEF Workers
  <2> QED
    BY <1>2, <2>1, EndTyped, ScriptTyped
<1>3. ASSUME NEW i \in Ids, ServerStep(i) \/ Accept(i) PROVE Typed'
  BY <1>3, ServerTyped
<1>4. ASSUME NEW c \in Clients, HandlerChecks(c) \/ HandlerReads(c) PROVE Typed'
  BY <1>4, ScriptedStays
    DEF HandlerChecks, HandlerReads, Typed, TypeOK, Listens, threads, shared
<1>5. CASE UNCHANGED vars
  BY <1>5, ScriptedStays DEF vars, Typed, TypeOK, Listens, threads, shared
<1> QED
  BY <1>1, <1>2, <1>3, <1>4, <1>5 DEF Next

\* Every variable of InteractiveServer keeps its type, for any number of
\* operators, commands, threads and clients, however lines overlap.
THEOREM TypeCorrect == ASSUME ThreadsAssumption PROVE Spec => []TypeOK
<1>1. Typed /\ [Next]_vars => Typed'
  BY NextTyped
<1>2. Typed => TypeOK
  BY DEF Typed
<1> QED
  BY InitTyped, <1>1, <1>2, PTL DEF Spec
-----------------------------------------------------------------------------
\* Servers and their threads, when lines do not overlap and whoever may tell the
\* runtime to quit is the only one who commands: each page of the web server
\* has a connection, and so a handler, of its own.

QuitLine == <<"quit", "modbus">>

QuitsAlone ==
    /\ ~Hasty
    /\ \A o, p \in Operators : QuitLine \in Sends[o] /\ ~(Sends[p] \subseteq {Ask}) => o = p

\* One handler at a time copies and tests, and one works, without the other.
Serial ==
    /\ \A o, p \in Operators :
          pc[o] \in {"copy", "ask", "begin"} /\ pc[p] \in {"copy", "ask", "begin"} => o = p
    /\ \A o, p \in Operators : pc[o] = "work" /\ pc[p] = "work" => o = p
    /\ \A o \in Operators :
          /\ pc[o] = "work" => processing
          /\ pc[o] = "begin" => ~processing
          /\ todo[o] # <<>> => pc[o] = "work"

Quits(c) == QuitLine \in Sends[c]

\* Only the quitter's handler comes to quit() first.  A line that is left over
\* may be executed once more by another, after it.
Alone(c) ==
    /\ \A o \in Operators \ {c} : got[o] = Ask
    /\ got[c] # Ask => pc[c] = "copy"
    /\ runPlc /\ line = QuitLine =>
          pc[c] \in {"ask", "begin"} \/ (pc[c] = "work" /\ QuitRest(todo[c]))
    /\ \A o \in Operators : runPlc /\ QuitRest(todo[o]) => o = c /\ line \in {Ask, QuitLine}
    /\ ~runPlc =>
          /\ line \in {Ask, QuitLine}
          /\ pc[c] \in {"work", "answer", "check", "gone"}
          /\ \A o \in Operators : todo[o] = <<>> \/ QuitRest(todo[o])

\* Where nobody may quit nobody does.
Running ==
    /\ runPlc
    /\ line # QuitLine
    /\ \A o \in Operators : got[o] # QuitLine /\ ~QuitRest(todo[o])

Lines ==
    /\ \A c \in Operators : Quits(c) => Alone(c)
    /\ (\A c \in Operators : ~Quits(c)) => Running

\* In either case quit() is the last command of all.
LEMMA QuitIsLast ==
    ASSUME Lines, ~runPlc
    PROVE  \A o \in Operators : todo[o] = <<>> \/ QuitRest(todo[o])
  BY DEF Lines, Running, Alone

LEMMA LinesKept ==
    ASSUME Lines, \A c \in Operators : Quits(c) /\ Alone(c) => Alone(c)',
           (\A c \in Operators : ~Quits(c)) /\ Running => Running'
    PROVE  Lines'
  BY DEF Lines, Quits

\* The threads nobody has joined, and their servers.
Threads  == {i \in Ids : at[i] # "free"}
Occupied == {serves[i] : i \in Threads}

\* Such a thread is the one its server's handle names.
Handled == \A i \in Threads : handle[serves[i]] = i

Doing(o, what, s) == todo[o] # <<>> /\ Head(todo[o]) = <<what, s>>

\* The flag of a server says whether it has a thread, but for the server that
\* is being stopped or started.
InStep ==
    /\ \A o \in Operators, s \in Servers :
          /\ Doing(o, "join", s) => ~run[s] /\ s \in Occupied
          /\ Doing(o, "set", s) => ~run[s] /\ s \notin Occupied
          /\ Doing(o, "create", s) => run[s] /\ s \notin Occupied
    /\ pc[Teardown] # "work" =>
          \A s \in Servers :
             \/ run[s] <=> s \in Occupied
             \/ \E o \in Operators : Doing(o, "join", s) \/ Doing(o, "create", s)

Stopped(s) == ~run[s] /\ s \notin Occupied

\* quit() has stopped what it has come past, and nothing starts after it.
QuitStops ==
    /\ \A o \in Operators :
          /\ QuitRest(todo[o]) /\ ~Doing(o, "clear", "modbus") /\ ~Doing(o, "join", "modbus")
                => Stopped("modbus")
          /\ Doing(o, "halt", "modbus") => Stopped("dnp3")
    /\ ~runPlc => Stopped("modbus") /\ Stopped("dnp3")

\* The tear-down has joined the last thread when it is through.
TearsDown ==
    /\ pc[Teardown] = "work" => ~runPlc
    /\ pc[Teardown] = "work" /\ todo[Teardown] = <<>> => "enip" \notin Occupied
    /\ process = "exited" => Occupied = {}

Kept == Serial /\ Lines /\ Handled /\ InStep /\ QuitStops /\ TearsDown

CoreInv == Typed /\ Kept

-----------------------------------------------------------------------------
\* The order of a script's steps.

After(t, s) ==
    \/ t = <<>>
    \/ /\ t # <<>>
       /\ \/ Head(t) = <<"set", s>>
          \/ s = "modbus" /\ Head(t) = <<"clear", "dnp3">>
          \/ s = "dnp3" /\ Head(t) = <<"halt", "modbus">>

LEMMA RestOrder ==
    ASSUME NEW t, t # <<>>, OperatorRest(t), NEW what, NEW s, Head(t) = <<what, s>>
    PROVE  /\ what = "clear" =>
                 /\ Tail(t) # <<>> /\ Head(Tail(t)) = <<"join", s>>
                 /\ After(Tail(Tail(t)), s)
           /\ what = "join" => After(Tail(t), s)
           /\ what = "set" => Tail(t) # <<>> /\ Head(Tail(t)) = <<"create", s>> /\ ~QuitRest(t)
           /\ what = "create" => Tail(t) = <<>> /\ ~QuitRest(t)
           /\ what = "halt" => Tail(t) = <<>> /\ QuitRest(t) /\ s = "modbus"
           /\ QuitRest(t) => s \in {"modbus", "dnp3"}
           /\ QuitRest(Tail(t)) => QuitRest(t)
           /\ what = "clear" /\ QuitRest(Tail(Tail(t))) => QuitRest(t)
           /\ QuitRest(t) /\ what # "halt" => QuitRest(Tail(t))
           /\ QuitRest(t) /\ what = "clear" => QuitRest(Tail(Tail(t)))
<1>0. CASE QuitRest(t)
  <2>1. CASE t = <<<<"clear", "modbus">>, <<"join", "modbus">>,
                   <<"clear", "dnp3">>, <<"join", "dnp3">>, <<"halt", "modbus">>>>
    <3>1. /\ Tail(t) = <<<<"join", "modbus">>, <<"clear", "dnp3">>, <<"join", "dnp3">>,
                         <<"halt", "modbus">>>>
          /\ Tail(Tail(t)) = <<<<"clear", "dnp3">>, <<"join", "dnp3">>,
                               <<"halt", "modbus">>>>
          /\ what = "clear" /\ s = "modbus"
      BY <2>1
    <3>2. QuitRest(Tail(t))
      BY <3>1, Zenon DEF QuitRest
    <3>3. QuitRest(Tail(Tail(t)))
      BY <3>1, Zenon DEF QuitRest
    <3>5. Tail(t) # <<>> /\ Head(Tail(t)) = <<"join", "modbus">>
      <4> DEFINE u == Tail(t)
      <4>1. u = <<<<"join", "modbus">>, <<"clear", "dnp3">>, <<"join", "dnp3">>,
                  <<"halt", "modbus">>>>
        BY <3>1
      <4> HIDE DEF u
      <4>2. u # <<>> /\ Head(u) = <<"join", "modbus">>
        BY <4>1
      <4> QED
        BY <4>2 DEF u
    <3>6. what = "clear" /\ s = "modbus"
      BY <3>1
    <3>4. After(Tail(Tail(t)), "modbus")
      <4> DEFINE u == Tail(Tail(t))
      <4>1. u = <<<<"clear", "dnp3">>, <<"join", "dnp3">>, <<"halt", "modbus">>>>
        BY <3>1
      <4> HIDE DEF u
      <4>2. u # <<>> /\ Head(u) = <<"clear", "dnp3">>
        BY <4>1
      <4>3. After(u, "modbus")
        BY <4>2 DEF After
      <4> QED
        BY <4>3 DEF u
    <3> QED
      BY <1>0, <3>2, <3>3, <3>4, <3>5, <3>6
  <2>2. CASE t = <<<<"join", "modbus">>, <<"clear", "dnp3">>, <<"join", "dnp3">>,
                   <<"halt", "modbus">>>>
    <3>1. /\ Tail(t) = <<<<"clear", "dnp3">>, <<"join", "dnp3">>, <<"halt", "modbus">>>>
          /\ what = "join" /\ s = "modbus"
      BY <2>2
    <3> QED
      BY <1>0, <3>1 DEF QuitRest, After
  <2>3. CASE t = <<<<"clear", "dnp3">>, <<"join", "dnp3">>, <<"halt", "modbus">>>>
    <3>1. /\ Tail(t) = <<<<"join", "dnp3">>, <<"halt", "modbus">>>>
          /\ Tail(Tail(t)) = <<<<"halt", "modbus">>>>
          /\ what = "clear" /\ s = "dnp3"
      BY <2>3
    <3>2. QuitRest(Tail(t)) /\ QuitRest(Tail(Tail(t)))
      BY <3>1, Zenon DEF QuitRest
    <3>3. Tail(t) # <<>> /\ Head(Tail(t)) = <<"join", "dnp3">>
      <4> DEFINE u == Tail(t)
      <4>1. u = <<<<"join", "dnp3">>, <<"halt", "modbus">>>>
        BY <3>1
      <4> HIDE DEF u
      <4>2. u # <<>> /\ Head(u) = <<"join", "dnp3">>
        BY <4>1
      <4> QED
        BY <4>2 DEF u
    <3>4. After(Tail(Tail(t)), "dnp3")
      <4> DEFINE u == Tail(Tail(t))
      <4>1. u = <<<<"halt", "modbus">>>>
        BY <3>1
      <4> HIDE DEF u
      <4>2. u # <<>> /\ Head(u) = <<"halt", "modbus">>
        BY <4>1
      <4> QED
        BY <4>2 DEF u, After
    <3>5. what = "clear" /\ s = "dnp3"
      BY <3>1
    <3> QED
      BY <1>0, <3>2, <3>3, <3>4, <3>5
  <2>4. CASE t = <<<<"join", "dnp3">>, <<"halt", "modbus">>>>
    <3>1. Tail(t) = <<<<"halt", "modbus">>>> /\ what = "join" /\ s = "dnp3"
      BY <2>4
    <3> QED
      BY <1>0, <3>1 DEF QuitRest, After
  <2>5. CASE t = <<<<"halt", "modbus">>>>
    <3>1. Tail(t) = <<>> /\ what = "halt" /\ s = "modbus"
      BY <2>5
    <3> QED
      BY <1>0, <3>1 DEF QuitRest, After
  <2> QED
    BY <1>0, <2>1, <2>2, <2>3, <2>4, <2>5 DEF QuitRest
<1>1. ASSUME NEW r \in Servers PROVE
        /\ ~QuitRest(<<<<"clear", r>>, <<"join", r>>>>)
        /\ ~QuitRest(<<<<"join", r>>>>)
        /\ ~QuitRest(<<<<"clear", r>>, <<"join", r>>, <<"set", r>>, <<"create", r>>>>)
        /\ ~QuitRest(<<<<"join", r>>, <<"set", r>>, <<"create", r>>>>)
        /\ ~QuitRest(<<<<"set", r>>, <<"create", r>>>>)
        /\ ~QuitRest(<<<<"create", r>>>>)
        /\ ~QuitRest(<<>>)
  BY DEF QuitRest
<1>2. ASSUME NEW r \in Servers, t = <<<<"clear", r>>, <<"join", r>>>> PROVE
        /\ Tail(t) = <<<<"join", r>>>> /\ Tail(Tail(t)) = <<>> /\ what = "clear" /\ s = r
        /\ Tail(t) # <<>> /\ Head(Tail(t)) = <<"join", r>>
  BY <1>2
<1>3. ASSUME NEW r \in Servers, t = <<<<"join", r>>>>
      PROVE  Tail(t) = <<>> /\ what = "join" /\ s = r
  BY <1>3
<1>4. ASSUME NEW r \in Servers,
             t = <<<<"clear", r>>, <<"join", r>>, <<"set", r>>, <<"create", r>>>> PROVE
        /\ Tail(t) = <<<<"join", r>>, <<"set", r>>, <<"create", r>>>>
        /\ Tail(t) # <<>> /\ Head(Tail(t)) = <<"join", r>>
        /\ Tail(Tail(t)) = <<<<"set", r>>, <<"create", r>>>> /\ what = "clear" /\ s = r
        /\ Tail(Tail(t)) # <<>> /\ Head(Tail(Tail(t))) = <<"set", r>>
  BY <1>4
<1>5. ASSUME NEW r \in Servers, t = <<<<"join", r>>, <<"set", r>>, <<"create", r>>>> PROVE
        /\ Tail(t) = <<<<"set", r>>, <<"create", r>>>> /\ what = "join" /\ s = r
        /\ Tail(t) # <<>> /\ Head(Tail(t)) = <<"set", r>>
  BY <1>5
<1>6. ASSUME NEW r \in Servers, t = <<<<"set", r>>, <<"create", r>>>> PROVE
        /\ Tail(t) = <<<<"create", r>>>> /\ what = "set" /\ s = r
        /\ Tail(t) # <<>> /\ Head(Tail(t)) = <<"create", r>>
  BY <1>6
<1>7. ASSUME NEW r \in Servers, t = <<<<"create", r>>>>
      PROVE  Tail(t) = <<>> /\ what = "create" /\ s = r
  BY <1>7
<1>8. CASE \E r \in Servers : StopRest(t, r)
  <2>1. PICK r \in Servers : StopRest(t, r)
    BY <1>8
  <2>2. CASE t = <<<<"clear", r>>, <<"join", r>>>>
    <3>1. ~QuitRest(t) /\ ~QuitRest(Tail(t)) /\ (what = "clear" => ~QuitRest(Tail(Tail(t))))
      BY <1>1, <1>2, <2>2
    <3> QED
      BY <1>2, <2>2, <3>1 DEF After
  <2>3. CASE t = <<<<"join", r>>>>
    <3>1. ~QuitRest(t) /\ ~QuitRest(Tail(t)) /\ (what = "clear" => ~QuitRest(Tail(Tail(t))))
      BY <1>1, <1>3, <2>3
    <3> QED
      BY <1>3, <2>3, <3>1 DEF After
  <2> QED
    BY <2>1, <2>2, <2>3 DEF StopRest
<1>9. CASE \E r \in Servers : StartRest(t, r)
  <2>1. PICK r \in Servers : StartRest(t, r)
    BY <1>9
  <2>2. CASE t = <<<<"clear", r>>, <<"join", r>>, <<"set", r>>, <<"create", r>>>>
    <3>1. ~QuitRest(t) /\ ~QuitRest(Tail(t)) /\ (what = "clear" => ~QuitRest(Tail(Tail(t))))
      BY <1>1, <1>4, <2>2
    <3> QED
      BY <1>4, <2>2, <3>1 DEF After
  <2>3. CASE t = <<<<"join", r>>, <<"set", r>>, <<"create", r>>>>
    <3>1. ~QuitRest(t) /\ ~QuitRest(Tail(t)) /\ (what = "clear" => ~QuitRest(Tail(Tail(t))))
      BY <1>1, <1>5, <2>3
    <3> QED
      BY <1>5, <2>3, <3>1 DEF After
  <2>4. CASE t = <<<<"set", r>>, <<"create", r>>>>
    <3>1. ~QuitRest(t) /\ ~QuitRest(Tail(t)) /\ (what = "clear" => ~QuitRest(Tail(Tail(t))))
      BY <1>1, <1>6, <2>4
    <3> QED
      BY <1>6, <2>4, <3>1 DEF After
  <2>5. CASE t = <<<<"create", r>>>>
    <3>1. ~QuitRest(t) /\ ~QuitRest(Tail(t)) /\ (what = "clear" => ~QuitRest(Tail(Tail(t))))
      BY <1>1, <1>7, <2>5
    <3> QED
      BY <1>7, <2>5, <3>1 DEF After
  <2> QED
    BY <2>1, <2>2, <2>3, <2>4, <2>5 DEF StartRest
<1> QED
  BY <1>0, <1>8, <1>9 DEF OperatorRest
-----------------------------------------------------------------------------
\* What a step keeps when it leaves operators, flags and handles alone.

LEMMA SameThreads ==
    ASSUME Handled, UNCHANGED <<handle, serves>>, Threads' = Threads
    PROVE  Handled' /\ Occupied' = Occupied
<1>1. Occupied' = Occupied
  BY DEF Occupied
<1> QED
  BY <1>1 DEF Handled

LEMMA ServersKeep ==
    ASSUME Kept, Threads' = Threads,
           UNCHANGED <<run, runPlc, handle, serves, line, processing, pc, got, todo, process>>
    PROVE  Kept'
<1>1. Handled' /\ Occupied' = Occupied
  BY SameThreads DEF Kept
<1>2. Serial' /\ Lines'
  BY DEF Kept, Serial, Lines, Alone, Running, Quits
<1>3. InStep'
  BY <1>1 DEF Kept, InStep, Doing
<1>4. QuitStops'
  BY <1>1 DEF Kept, QuitStops, Stopped, Doing
<1>5. TearsDown'
  BY <1>1 DEF Kept, TearsDown
<1> QED
  BY <1>1, <1>2, <1>3, <1>4, <1>5 DEF Kept

LEMMA ServerKept ==
    ASSUME CoreInv, NEW i \in Ids, ServerStep(i) \/ Accept(i)
    PROVE  Kept'
<1>1. UNCHANGED <<run, runPlc, handle, serves, line, processing, pc, got, todo, process>>
  BY DEF ServerStep, TestFlag, StopWaiting, Spawn, Accept, shared
<1>2. at[i] # "free" /\ \E x : x # "free" /\ at' = [at EXCEPT ![i] = x]
  BY DEF ServerStep, TestFlag, StopWaiting, Spawn, Accept, Move
<1>3. Threads' = Threads
  BY <1>2 DEF Threads, CoreInv, Typed, TypeOK
<1> QED
  BY <1>1, <1>3, ServersKeep DEF CoreInv

-----------------------------------------------------------------------------
\* The steps of an operator's handler around its command.

LEMMA HandlerKept ==
    ASSUME ThreadsAssumption, QuitsAlone, CoreInv, NEW o \in Operators,
           UNCHANGED <<run, runPlc, handle, serves, at, todo, process>>,
           pc'[Teardown] = pc[Teardown], Serial', Lines'
    PROVE  Kept'
<1>1. Handled' /\ Occupied' = Occupied
  BY SameThreads DEF CoreInv, Kept, Threads
<1>3. InStep'
  BY <1>1 DEF CoreInv, Kept, InStep, Doing
<1>4. QuitStops'
  BY <1>1 DEF CoreInv, Kept, QuitStops, Stopped, Doing
<1>5. TearsDown'
  BY <1>1 DEF CoreInv, Kept, TearsDown
<1> QED
  BY <1>1, <1>3, <1>4, <1>5 DEF Kept

\* These steps say quit() only for who quits.
LEMMA HandlerAlone ==
    ASSUME ThreadsAssumption, QuitsAlone, Typed, Serial, NEW c \in Operators, Quits(c), Alone(c),
           NEW o \in Operators, Receive(o) \/ OperatorStep(o), ~ScriptStep(o), ~BeginCommand(o)
    PROVE  Alone(c)'
<1> USE DEF threads, shared, Goto
<1>0. /\ o \in Workers /\ o # Teardown /\ c \in Workers
      /\ pc \in [Workers -> {"check", "read", "copy", "ask", "begin", "work", "answer", "gone"}]
      /\ got \in [Operators -> Commands] /\ Ask # QuitLine
      /\ Operators \subseteq Workers
  BY DEF Workers, ThreadsAssumption, Typed, TypeOK, Ask, QuitLine
<1>1. CASE CheckRun(o)
  BY <1>0, <1>1 DEF CheckRun, Alone
<1>2. CASE Receive(o)
  <2>1. \A p \in Operators \ {c} : Sends[p] \subseteq {Ask}
    BY DEF QuitsAlone, Quits
  <2> QED
    BY <1>0, <1>2, <2>1 DEF Receive, Alone
<1>3. CASE CopyLine(o)
  <2>1. CASE o = c
    <3>1. runPlc /\ pc'[c] = "ask" /\ UNCHANGED <<runPlc, todo>>
      BY <1>0, <1>3, <2>1 DEF CopyLine, Alone
    <3>2. got'[c] = Ask /\ \A p \in Operators \ {c} : got'[p] = Ask
      BY <1>0, <1>3, <2>1 DEF CopyLine, Alone
    <3>3. todo[c] = <<>> /\ ~QuitRest(<<>>)
      BY <1>0, <1>3, <2>1 DEF CopyLine, Serial, QuitRest
    <3>4. \A p \in Operators : ~QuitRest(todo[p])
      BY <3>1, <3>3 DEF Alone
    <3> QED
      BY <1>0, <3>1, <3>2, <3>4 DEF Alone
  <2>2. CASE o # c
    <3>1. pc'[c] = pc[c] /\ UNCHANGED <<runPlc, todo>> /\ got[o] = Ask
      BY <1>0, <1>3, <2>2 DEF CopyLine, Alone
    <3>2. /\ \A p \in Operators : got'[p] = got[p]
          /\ line' \in {line, Ask} /\ pc[o] = "copy"
      BY <1>0, <1>3, <3>1 DEF CopyLine
    <3>3. pc[c] \notin {"copy", "ask", "begin"}
      BY <1>0, <2>2, <3>2 DEF Serial
    <3> QED
      BY <1>0, <3>1, <3>2, <3>3 DEF Alone
  <2> QED
    BY <2>1, <2>2
<1>4. CASE AnswerBusy(o)
  BY <1>0, <1>4 DEF AnswerBusy, Alone
<1>5. CASE SeeIdle(o)
  BY <1>0, <1>5 DEF SeeIdle, Alone
<1>6. CASE EndCommand(o)
  <2>1. ~QuitRest(<<>>)
    BY DEF QuitRest
  <2> QED
    BY <1>0, <1>6, <2>1 DEF EndCommand, Alone
<1>7. CASE Answer(o)
  BY <1>0, <1>7 DEF Answer, Alone
<1> QED
  BY <1>1, <1>2, <1>3, <1>4, <1>5, <1>6, <1>7 DEF OperatorStep

LEMMA HandlerRunning ==
    ASSUME ThreadsAssumption, Typed, \A c \in Operators : ~Quits(c), Running,
           NEW o \in Operators, Receive(o) \/ OperatorStep(o), ~ScriptStep(o), ~BeginCommand(o)
    PROVE  Running'
<1> USE DEF threads, shared, Goto
<1>0. Ask # QuitLine /\ got \in [Operators -> Commands]
  BY DEF Ask, QuitLine, Typed, TypeOK
<1>1. UNCHANGED <<runPlc, todo>>
  BY DEF OperatorStep, CheckRun, Receive, CopyLine, AnswerBusy, SeeIdle, EndCommand, Answer
<1>2. \A p \in Operators : got'[p] # QuitLine
  <2>1. CASE Receive(o)
    BY <1>0, <2>1 DEF Receive, Quits, Running
  <2>2. CASE ~Receive(o)
    BY <1>0, <2>2 DEF OperatorStep, CheckRun, CopyLine, AnswerBusy, SeeIdle, EndCommand, Answer,
       Running
  <2> QED
    BY <2>1, <2>2
<1>3. line' # QuitLine
  BY <1>0 DEF OperatorStep, CheckRun, Receive, CopyLine, AnswerBusy, SeeIdle, EndCommand, Answer,
     Running
<1> QED
  BY <1>1, <1>2, <1>3 DEF Running

LEMMA OperatorKept ==
    ASSUME ThreadsAssumption, QuitsAlone, CoreInv, NEW o \in Operators,
           Receive(o) \/ OperatorStep(o), ~ScriptStep(o), ~BeginCommand(o)
    PROVE  Kept'
<1> USE DEF threads, shared, Goto
<1>0. /\ o \in Workers /\ o # Teardown
      /\ pc \in [Workers -> {"check", "read", "copy", "ask", "begin", "work", "answer", "gone"}]
      /\ Operators \subseteq Workers
  BY DEF Workers, ThreadsAssumption, CoreInv, Typed, TypeOK
<1>a. Serial /\ Lines /\ Typed
  BY DEF CoreInv, Kept
<1>u. /\ UNCHANGED <<run, runPlc, handle, serves, at, todo, process>>
      /\ pc'[Teardown] = pc[Teardown]
  <2>1. UNCHANGED <<run, runPlc, handle, serves, at, todo, process>>
    BY DEF OperatorStep, CheckRun, Receive, CopyLine, AnswerBusy, SeeIdle, EndCommand, Answer
  <2>2. \E x : pc' = [pc EXCEPT ![o] = x]
    BY DEF OperatorStep, CheckRun, Receive, CopyLine, AnswerBusy, SeeIdle, EndCommand, Answer
  <2>3. pc'[Teardown] = pc[Teardown]
    BY <1>0, <2>2 DEF Workers
  <2> QED
    BY <2>1, <2>3
<1>l. Lines'
  <2>1. \A c \in Operators : Quits(c) /\ Alone(c) => Alone(c)'
    BY <1>a, HandlerAlone
  <2>2. (\A c \in Operators : ~Quits(c)) /\ Running => Running'
    BY <1>a, HandlerRunning
  <2> QED
    BY <1>a, <2>1, <2>2, LinesKept
<1>s. Serial'
  <2>1. CASE CheckRun(o)
    BY <1>0, <1>a, <2>1 DEF CheckRun, Serial
  <2>2. CASE Receive(o)
    BY <1>0, <1>a, <2>2 DEF Receive, Serial, QuitsAlone
  <2>3. CASE CopyLine(o)
    BY <1>0, <1>a, <2>3 DEF CopyLine, Serial
  <2>4. CASE AnswerBusy(o)
    BY <1>0, <1>a, <2>4 DEF AnswerBusy, Serial
  <2>5. CASE SeeIdle(o)
    BY <1>0, <1>a, <2>5 DEF SeeIdle, Serial
  <2>6. CASE EndCommand(o)
    BY <1>0, <1>a, <2>6 DEF EndCommand, Serial
  <2>7. CASE Answer(o)
    BY <1>0, <1>a, <2>7 DEF Answer, Serial
  <2> QED
    BY <2>1, <2>2, <2>3, <2>4, <2>5, <2>6, <2>7 DEF OperatorStep
<1> QED
  BY <1>l, <1>s, <1>u, HandlerKept

\* Every script begins by asking whether its server runs.
LEMMA ScriptsClear ==
    ASSUME NEW l \in Commands
    PROVE  Script(l) = <<>> \/ (Script(l) # <<>> /\ \E s : Head(Script(l)) = <<"clear", s>>)
<1>1. CASE l = Ask
  BY <1>1 DEF Script, Ask
<1>2. CASE l = QuitLine
  <2>1. Stop("modbus") \o Stop("dnp3") =
          <<<<"clear", "modbus">>, <<"join", "modbus">>, <<"clear", "dnp3">>,
            <<"join", "dnp3">>>>
    BY TwoAndTwo DEF Stop
  <2>2. Script(l) = <<<<"clear", "modbus">>, <<"join", "modbus">>,
                      <<"clear", "dnp3">>, <<"join", "dnp3">>, <<"halt", "modbus">>>>
    BY <1>2, <2>1, FourAndOne DEF Script, Quit, QuitLine
  <2> QED
    BY <2>2
<1>3. ASSUME NEW s \in Servers, l = <<"stop", s>>
      PROVE  Script(l) # <<>> /\ Head(Script(l)) = <<"clear", s>>
  <2>1. Script(l) = <<<<"clear", s>>, <<"join", s>>>>
    BY <1>3 DEF Script, Stop
  <2> QED
    BY <2>1
<1>4. ASSUME NEW s \in Servers, l = <<"start", s>>
      PROVE  Script(l) # <<>> /\ Head(Script(l)) = <<"clear", s>>
  <2>1. Script(l) = Stop(s) \o Start(s)
    BY <1>4 DEF Script
  <2>2. Script(l) = <<<<"clear", s>>, <<"join", s>>, <<"set", s>>, <<"create", s>>>>
    BY <2>1, TwoAndTwo DEF Stop, Start
  <2> QED
    BY <2>2
<1>5. \/ l = Ask \/ l = QuitLine
      \/ \E s \in Servers : l = <<"stop", s>> \/ l = <<"start", s>>
  BY DEF Commands, QuitLine
<1> QED
  BY <1>1, <1>2, <1>3, <1>4, <1>5

LEMMA BeginKept ==
    ASSUME ThreadsAssumption, QuitsAlone, CoreInv, NEW o \in Operators,
           BeginCommand(o)
    PROVE  Kept'
<1> USE DEF threads, shared, Goto
<1>0. /\ o \in Workers /\ o # Teardown
      /\ pc \in [Workers -> {"check", "read", "copy", "ask", "begin", "work", "answer", "gone"}]
      /\ line \in Commands /\ Ask # QuitLine
      /\ Operators \subseteq Workers
      /\ todo = [w \in Workers |-> todo[w]]
  BY DEF Workers, ThreadsAssumption, CoreInv, Typed, TypeOK, Ask, QuitLine, Scripted
<1>a. Serial /\ Lines /\ Handled /\ InStep /\ QuitStops /\ TearsDown
  BY DEF CoreInv, Kept
<1>1. /\ UNCHANGED <<run, runPlc, handle, serves, at, line, got, process>>
      /\ pc[o] = "begin" /\ processing'
      /\ pc' = [pc EXCEPT ![o] = "work"]
      /\ todo' = [todo EXCEPT ![o] = Script(line)]
  BY DEF BeginCommand
<1>2. /\ \A p \in Operators : todo[p] = <<>> /\ pc[p] # "work"
      /\ \A p \in Operators : p # o => pc[p] # "begin"
  BY <1>0, <1>a, <1>1 DEF Serial
<1>3. /\ \A p \in Operators : p # o => todo'[p] = <<>> /\ pc'[p] = pc[p]
      /\ todo'[o] = Script(line) /\ pc'[o] = "work"
      /\ pc'[Teardown] = pc[Teardown] /\ todo'[Teardown] = todo[Teardown]
  BY <1>0, <1>1, <1>2 DEF Workers
<1>4. /\ QuitRest(Script(line)) <=> line = QuitLine
      /\ line = Ask => Script(line) = <<>>
      /\ ~QuitRest(<<>>)
  BY <1>0, ScriptRests DEF QuitLine, QuitRest
<1>5. \A p \in Operators : \A s :
          /\ ~Doing(p, "join", s) /\ ~Doing(p, "set", s)
          /\ ~Doing(p, "create", s) /\ ~Doing(p, "halt", s)
  BY <1>2 DEF Doing
<1>6. \A p \in Operators : \A s :
          /\ ~Doing(p, "join", s)' /\ ~Doing(p, "set", s)'
          /\ ~Doing(p, "create", s)' /\ ~Doing(p, "halt", s)'
  BY <1>0, <1>3, ScriptsClear DEF Doing
<1>7. Handled' /\ Occupied' = Occupied
  BY <1>1, <1>a, SameThreads DEF Threads
<1>s. Serial'
  BY <1>0, <1>a, <1>1, <1>2, <1>3 DEF Serial
<1>l. Lines'
  <2>1. ASSUME NEW c \in Operators, Alone(c) PROVE Alone(c)'
    <3>0. c \in Workers
      BY DEF Workers
    <3>1. \A p \in Operators \ {c} : got'[p] = Ask
      BY <2>1, <1>1 DEF Alone
    <3>2. got'[c] # Ask => pc'[c] = "copy"
      BY <2>1, <1>1, <1>3, <1>0 DEF Alone
    <3>3. runPlc /\ line = QuitLine => o = c
      BY <2>1, <1>a, <1>0, <1>1, <1>2 DEF Alone, Serial
    <3>4. runPlc /\ line = QuitLine => pc'[c] = "work" /\ QuitRest(todo'[c])
      BY <1>3, <1>4, <3>3
    <3>5. \A p \in Operators :
             runPlc /\ QuitRest(todo'[p]) => p = c /\ line \in {Ask, QuitLine}
      BY <1>3, <1>4, <3>3
    <3>6. ~runPlc => /\ line \in {Ask, QuitLine}
                     /\ pc'[c] \in {"work", "answer", "check", "gone"}
                     /\ \A p \in Operators : todo'[p] = <<>> \/ QuitRest(todo'[p])
      BY <2>1, <1>0, <1>3, <1>4, <3>0 DEF Alone
    <3> QED
      BY <1>1, <3>1, <3>2, <3>4, <3>5, <3>6 DEF Alone
  <2>2. Running => Running'
    BY <1>1, <1>3, <1>4 DEF Running
  <2> QED
    BY <1>a, <2>1, <2>2, LinesKept
<1>i. InStep'
  BY <1>a, <1>1, <1>3, <1>5, <1>6, <1>7 DEF InStep
<1>q. QuitStops'
  <2>1. Stopped("modbus")' = Stopped("modbus") /\ Stopped("dnp3")' = Stopped("dnp3")
    BY <1>1, <1>7 DEF Stopped
  <2>2. ASSUME NEW p \in Operators, QuitRest(todo'[p]), ~Doing(p, "clear", "modbus")',
               ~Doing(p, "join", "modbus")'
        PROVE  FALSE
    <3>1. p = o /\ line = QuitLine
      BY <1>3, <1>4, <2>2
    <3>2. Stop("modbus") \o Stop("dnp3") =
            <<<<"clear", "modbus">>, <<"join", "modbus">>, <<"clear", "dnp3">>,
              <<"join", "dnp3">>>>
      BY TwoAndTwo DEF Stop
    <3>3. Script(line) = <<<<"clear", "modbus">>, <<"join", "modbus">>,
                           <<"clear", "dnp3">>, <<"join", "dnp3">>, <<"halt", "modbus">>>>
      <4>1. Script(line) = Stop("modbus") \o Stop("dnp3") \o <<<<"halt", "modbus">>>>
        BY <3>1 DEF Script, Quit, QuitLine
      <4>2. <<<<"clear", "modbus">>, <<"join", "modbus">>, <<"clear", "dnp3">>,
              <<"join", "dnp3">>>> \o <<<<"halt", "modbus">>>> =
              <<<<"clear", "modbus">>, <<"join", "modbus">>, <<"clear", "dnp3">>,
                <<"join", "dnp3">>, <<"halt", "modbus">>>>
        BY FourAndOne
      <4> QED
        BY <3>2, <4>1, <4>2
    <3>4. todo'[o] # <<>> /\ Head(todo'[o]) = <<"clear", "modbus">>
      BY <1>3, <3>3
    <3> QED
      BY <2>2, <3>1, <3>4 DEF Doing
  <2> QED
    BY <1>a, <1>1, <1>6, <2>1, <2>2 DEF QuitStops
<1>t. TearsDown'
  BY <1>a, <1>1, <1>3, <1>7 DEF TearsDown
<1> QED
  BY <1>7, <1>s, <1>l, <1>i, <1>q, <1>t DEF Kept

-----------------------------------------------------------------------------
\* The steps of an operator's script.

LEMMA RestPair ==
    ASSUME NEW t, t # <<>>, OperatorRest(t)
    PROVE  \E what, s : s \in Servers /\ Head(t) = <<what, s>>
<1>1. CASE QuitRest(t)
  BY <1>1 DEF QuitRest, Servers
<1>2. ASSUME NEW r \in Servers, StopRest(t, r) PROVE \E what : Head(t) = <<what, r>>
  BY <1>2 DEF StopRest
<1>3. ASSUME NEW r \in Servers, StartRest(t, r) PROVE \E what : Head(t) = <<what, r>>
  BY <1>3 DEF StartRest
<1> QED
  BY <1>1, <1>2, <1>3 DEF OperatorRest

\* One operator's handler works, on a step of a script.
LEMMA OperatorWorks ==
    ASSUME ThreadsAssumption, QuitsAlone, CoreInv, NEW o \in Operators,
           ScriptStep(o)
    PROVE  \E what, s :
              /\ s \in Servers /\ s = Server(o)
              /\ todo[o] # <<>> /\ OperatorRest(todo[o]) /\ Head(todo[o]) = <<what, s>>
              /\ process = "up" /\ pc[o] = "work"
              /\ \A p \in Operators : p # o => todo[p] = <<>>
              /\ \A x : At(o, x) <=> x = what
              /\ what # "off"
<1>1. todo[o] # <<>> /\ pc[o] = "work" /\ Up
  BY DEF ScriptStep, Clear, SetFlag, Join, JoinUndefined, Create, Halt, At
<1>2. OperatorRest(todo[o])
  BY DEF CoreInv, Typed, Scripted, Rest, Workers, ThreadsAssumption
<1>3. PICK what, s : s \in Servers /\ Head(todo[o]) = <<what, s>>
  BY <1>1, <1>2, RestPair
<1>4. what # "off"
  BY <1>1, <1>2, <1>3, RestsGoOn
<1>5. \A p \in Operators : p # o => todo[p] = <<>>
  BY <1>1 DEF CoreInv, Kept, Serial
<1>6. Server(o) = s /\ \A x : At(o, x) <=> x = what
  BY <1>1, <1>3 DEF Server, At
<1> QED
  BY <1>1, <1>2, <1>3, <1>4, <1>5, <1>6 DEF Up

\* The lines and the handlers, when a step of a script is done and the runtime
\* is not told to quit.
LEMMA StepLines ==
    ASSUME ThreadsAssumption, QuitsAlone, CoreInv, NEW o \in Operators,
           pc[o] = "work", todo[o] # <<>>, NEW t, todo' = [todo EXCEPT ![o] = t],
           QuitRest(t) <=> QuitRest(todo[o]),
           UNCHANGED <<runPlc, line, processing, pc, got>>
    PROVE  /\ Serial' /\ Lines'
           /\ todo'[o] = t /\ \A p \in Operators : p # o => todo'[p] = todo[p]
           /\ todo'[Teardown] = todo[Teardown]
<1>1. /\ todo = [w \in Workers |-> todo[w]] /\ Operators \subseteq Workers /\ o # Teardown
      /\ Teardown \in Workers
  BY DEF CoreInv, Typed, Scripted, Workers, ThreadsAssumption
<1>2. todo'[o] = t /\ (\A p \in Operators : p # o => todo'[p] = todo[p])
      /\ todo'[Teardown] = todo[Teardown]
  BY <1>1
<1>3. Serial'
  BY <1>2 DEF CoreInv, Kept, Serial
<1>4. Lines'
  <2>1. \A p \in Operators : QuitRest(todo'[p]) <=> QuitRest(todo[p])
    BY <1>2
  <2>2. ASSUME NEW c \in Operators, Alone(c) PROVE Alone(c)'
    BY <1>2, <2>1, <2>2 DEF Alone
  <2>3. Running => Running'
    BY <2>1 DEF Running
  <2> QED
    BY <2>2, <2>3, LinesKept DEF CoreInv, Kept
<1> QED
  BY <1>2, <1>3, <1>4

LEMMA SetKept ==
    ASSUME ThreadsAssumption, QuitsAlone, CoreInv, NEW o \in Operators,
           SetFlag(o)
    PROVE  Kept'
<1> USE DEF threads, shared
<1>0. PICK what, s :
              /\ s \in Servers /\ s = Server(o)
              /\ todo[o] # <<>> /\ OperatorRest(todo[o]) /\ Head(todo[o]) = <<what, s>>
              /\ process = "up" /\ pc[o] = "work"
              /\ \A p \in Operators : p # o => todo[p] = <<>>
              /\ \A x : At(o, x) <=> x = what
              /\ what # "off"
  BY OperatorWorks DEF ScriptStep
<1>1. what = "set"
  BY <1>0 DEF SetFlag
<1>2. /\ run' = [run EXCEPT ![s] = TRUE] /\ todo' = [todo EXCEPT ![o] = Tail(todo[o])]
      /\ UNCHANGED <<runPlc, handle, serves, at, line, processing, pc, got, process>>
  BY <1>0, <1>1 DEF SetFlag, Done
<1>3. /\ Tail(todo[o]) # <<>> /\ Head(Tail(todo[o])) = <<"create", s>>
      /\ ~QuitRest(todo[o]) /\ ~QuitRest(Tail(todo[o]))
  BY <1>0, <1>1, RestOrder
<1>4. /\ Serial' /\ Lines' /\ todo'[o] = Tail(todo[o])
      /\ \A p \in Operators : p # o => todo'[p] = <<>>
      /\ todo'[Teardown] = todo[Teardown]
  BY <1>0, <1>2, <1>3, StepLines
<1>a. Serial /\ Lines /\ Handled /\ InStep /\ QuitStops /\ TearsDown
  BY DEF CoreInv, Kept
<1>5. runPlc /\ pc[Teardown] # "work"
  BY <1>0, <1>3, <1>a, QuitIsLast DEF TearsDown
<1>6. Handled' /\ Occupied' = Occupied
  BY <1>2, <1>a, SameThreads DEF Threads
<1>7. /\ run'[s] /\ s \notin Occupied
      /\ \A r \in Servers : r # s => run'[r] = run[r]
  BY <1>0, <1>1, <1>2, <1>a DEF InStep, Doing, CoreInv, Typed, TypeOK
<1>8. /\ Doing(o, "create", s)'
      /\ \A p \in Operators : \A x, r : Doing(p, x, r)' => p = o /\ x = "create" /\ r = s
      /\ \A p \in Operators : \A x, r : Doing(p, x, r) => p = o /\ x = "set" /\ r = s
  <2>1. \A p \in Operators : \A x, r : Doing(p, x, r)' <=> p = o /\ <<x, r>> = <<"create", s>>
    BY <1>3, <1>4 DEF Doing
  <2>2. \A p \in Operators : \A x, r : Doing(p, x, r) <=> p = o /\ <<x, r>> = <<"set", s>>
    BY <1>0, <1>1 DEF Doing
  <2> QED
    BY <2>1, <2>2
<1>9. InStep'
  BY <1>0, <1>2, <1>5, <1>6, <1>7, <1>8, <1>a DEF InStep
<1>10. QuitStops'
  <2>1. ~QuitRest(<<>>)
    BY DEF QuitRest
  <2>2. \A p \in Operators : ~QuitRest(todo'[p])
    BY <1>3, <1>4, <2>1
  <2> QED
    BY <1>2, <1>5, <1>8, <2>2 DEF QuitStops
<1>11. TearsDown'
  BY <1>0, <1>2, <1>4, <1>5, <1>a DEF TearsDown
<1> QED
  BY <1>4, <1>6, <1>9, <1>10, <1>11 DEF Kept

LEMMA ClearKept ==
    ASSUME ThreadsAssumption, QuitsAlone, CoreInv, NEW o \in Operators,
           Clear(o)
    PROVE  Kept'
<1> USE DEF threads, shared
<1>0. PICK what, s :
              /\ s \in Servers /\ s = Server(o)
              /\ todo[o] # <<>> /\ OperatorRest(todo[o]) /\ Head(todo[o]) = <<what, s>>
              /\ process = "up" /\ pc[o] = "work"
              /\ \A p \in Operators : p # o => todo[p] = <<>>
              /\ \A x : At(o, x) <=> x = what
              /\ what # "off"
  BY OperatorWorks DEF ScriptStep
<1>a. Serial /\ Lines /\ Handled /\ InStep /\ QuitStops /\ TearsDown
  BY DEF CoreInv, Kept
<1>d. \A p \in Operators : \A x, r : Doing(p, x, r) <=> p = o /\ <<x, r>> = <<what, s>>
  BY <1>0 DEF Doing
<1>e. ~QuitRest(<<>>)
  BY DEF QuitRest
<1>1. what = "clear"
  BY <1>0 DEF Clear
<1>2. /\ run' = [run EXCEPT ![s] = FALSE]
      /\ todo' = [todo EXCEPT ![o] = IF run[s] THEN Tail(todo[o]) ELSE Tail(Tail(todo[o]))]
      /\ UNCHANGED <<runPlc, handle, serves, at, line, processing, pc, got, process>>
  BY <1>0, <1>1 DEF Clear, Done
<1>u. UNCHANGED <<runPlc, line, processing, pc, got>>
  BY <1>2
<1>3. /\ Tail(todo[o]) # <<>> /\ Head(Tail(todo[o])) = <<"join", s>>
      /\ After(Tail(Tail(todo[o])), s)
      /\ QuitRest(Tail(todo[o])) <=> QuitRest(todo[o])
      /\ QuitRest(Tail(Tail(todo[o]))) <=> QuitRest(todo[o])
      /\ QuitRest(todo[o]) => s \in {"modbus", "dnp3"}
  BY <1>0, <1>1, RestOrder
<1>6. Handled' /\ Occupied' = Occupied
  BY <1>2, <1>a, SameThreads DEF Threads
<1>b. run \in [Servers -> BOOLEAN]
  BY DEF CoreInv, Typed, TypeOK
<1>7. ~run'[s] /\ \A r \in Servers : r # s => run'[r] = run[r]
  BY <1>0, <1>2, <1>b
<1>8. ~runPlc => ~run[s] /\ s \notin Occupied
  BY <1>0, <1>3, <1>a, QuitIsLast DEF QuitStops, Stopped
<1>9. runPlc => /\ pc[Teardown] # "work"
                /\ \A r \in Servers : run[r] <=> r \in Occupied
  BY <1>0, <1>1, <1>a, <1>d DEF InStep, TearsDown
<1>10. CASE run[s]
  <2>0. runPlc /\ pc[Teardown] # "work" /\ s \in Occupied
    BY <1>0, <1>8, <1>9, <1>10
  <2>1. todo' = [todo EXCEPT ![o] = Tail(todo[o])]
    BY <1>2, <1>10
  <2>4. /\ Serial' /\ Lines' /\ todo'[o] = Tail(todo[o])
        /\ \A p \in Operators : p # o => todo'[p] = <<>>
        /\ todo'[Teardown] = todo[Teardown]
    BY <1>0, <1>u, <1>3, <2>1, StepLines
  <2>5. \A p \in Operators : \A x, r : Doing(p, x, r)' <=> p = o /\ <<x, r>> = <<"join", s>>
    BY <1>3, <2>4 DEF Doing
  <2>6. InStep'
    BY <1>0, <1>2, <1>6, <1>7, <1>9, <2>0, <2>5 DEF InStep
  <2>7. QuitStops'
    <3>1. ASSUME NEW p \in Operators, QuitRest(todo'[p]), ~Doing(p, "clear", "modbus")',
                 ~Doing(p, "join", "modbus")'
          PROVE  Stopped("modbus")'
      <4>1. p = o /\ QuitRest(todo[o]) /\ s = "dnp3"
        BY <1>3, <1>e, <2>4, <2>5, <3>1
      <4>2. Stopped("modbus")
        BY <1>a, <1>d, <4>1 DEF QuitStops
      <4> QED
        BY <1>6, <1>7, <4>1, <4>2 DEF Stopped, Servers
    <3> QED
      BY <1>2, <2>0, <2>5, <3>1 DEF QuitStops
  <2>8. TearsDown'
    BY <1>0, <1>2, <2>0, <1>a DEF TearsDown
  <2> QED
    BY <1>6, <2>4, <2>6, <2>7, <2>8 DEF Kept
<1>11. CASE ~run[s]
  <2>0. /\ s \notin Occupied
        /\ \A r \in Servers : run'[r] = run[r]
    <3>1. s \notin Occupied
      BY <1>0, <1>8, <1>9, <1>11
    <3>2. \A r \in Servers : run'[r] = run[r]
      <4>1. run[s] = FALSE
        BY <1>0, <1>11, <1>b
      <4>2. run'[s] = FALSE
        BY <1>0, <1>2, <1>b
      <4> QED
        BY <1>7, <4>1, <4>2
    <3> QED
      BY <3>1, <3>2
  <2>1. todo' = [todo EXCEPT ![o] = Tail(Tail(todo[o]))]
    BY <1>2, <1>11
  <2>4. /\ Serial' /\ Lines' /\ todo'[o] = Tail(Tail(todo[o]))
        /\ \A p \in Operators : p # o => todo'[p] = <<>>
        /\ todo'[Teardown] = todo[Teardown]
    BY <1>0, <1>u, <1>3, <2>1, StepLines
  <2>5. \A p \in Operators : \A x, r : Doing(p, x, r)' =>
           /\ p = o
           /\ \/ <<x, r>> = <<"set", s>>
              \/ s = "modbus" /\ <<x, r>> = <<"clear", "dnp3">>
              \/ s = "dnp3" /\ <<x, r>> = <<"halt", "modbus">>
    BY <1>3, <2>4 DEF Doing, After
  <2>6. InStep'
    BY <1>0, <1>1, <1>2, <1>6, <1>8, <1>9, <1>11, <1>a, <1>d, <2>0, <2>5 DEF InStep
  <2>7. QuitStops'
    <3>0. Stopped(s) /\ \A r \in Servers : Stopped(r)' <=> Stopped(r)
      BY <1>6, <1>11, <2>0 DEF Stopped
    <3>1. ASSUME NEW p \in Operators, QuitRest(todo'[p]) PROVE Stopped("modbus")'
      <4>1. p = o /\ QuitRest(todo[o]) /\ s \in {"modbus", "dnp3"}
        BY <1>3, <1>e, <2>4, <3>1
      <4>2. s = "dnp3" => Stopped("modbus")
        BY <1>1, <1>a, <1>d, <4>1 DEF QuitStops
      <4> QED
        BY <3>0, <4>1, <4>2 DEF Servers
    <3>2. ASSUME NEW p \in Operators, Doing(p, "halt", "modbus")' PROVE Stopped("dnp3")'
      BY <2>5, <3>0, <3>2 DEF Servers
    <3>3. ~runPlc' => Stopped("modbus")' /\ Stopped("dnp3")'
      BY <1>2, <1>a, <3>0 DEF QuitStops, Servers
    <3> QED
      BY <3>1, <3>2, <3>3 DEF QuitStops
  <2>8. TearsDown'
    BY <1>0, <1>2, <1>6, <2>4, <1>a DEF TearsDown
  <2> QED
    BY <1>6, <2>4, <2>6, <2>7, <2>8 DEF Kept
<1> QED
  BY <1>10, <1>11

LEMMA JoinKept ==
    ASSUME ThreadsAssumption, QuitsAlone, CoreInv, NEW o \in Operators,
           Join(o)
    PROVE  Kept'
<1> USE DEF threads, shared
<1>0. PICK what, s :
              /\ s \in Servers /\ s = Server(o)
              /\ todo[o] # <<>> /\ OperatorRest(todo[o]) /\ Head(todo[o]) = <<what, s>>
              /\ process = "up" /\ pc[o] = "work"
              /\ \A p \in Operators : p # o => todo[p] = <<>>
              /\ \A x : At(o, x) <=> x = what
              /\ what # "off"
  BY OperatorWorks DEF ScriptStep
<1>a. Serial /\ Lines /\ Handled /\ InStep /\ QuitStops /\ TearsDown
  BY DEF CoreInv, Kept
<1>d. \A p \in Operators : \A x, r : Doing(p, x, r) <=> p = o /\ <<x, r>> = <<what, s>>
  BY <1>0 DEF Doing
<1>e. ~QuitRest(<<>>)
  BY DEF QuitRest
<1>1. what = "join"
  BY <1>0 DEF Join
<1>b. /\ run \in [Servers -> BOOLEAN]
      /\ at \in [Ids -> {"free", "test", "accept", "spawn", "ended"}]
      /\ serves \in [Ids -> Servers] /\ handle \in [Servers -> Ids \cup {Null}]
  BY DEF CoreInv, Typed, TypeOK
<1>i. ~run[s] /\ s \in Occupied
  BY <1>0, <1>1, <1>a, <1>d DEF InStep
<1> DEFINE i == handle[s]
<1>2. /\ todo' = [todo EXCEPT ![o] = Tail(todo[o])]
      /\ at' = [at EXCEPT ![i] = "free"] /\ serves' = [serves EXCEPT ![i] = "modbus"]
      /\ UNCHANGED <<run, runPlc, handle, line, processing, pc, got, process>>
  BY <1>0, <1>1 DEF Join, Done
<1>c. i \in Threads /\ serves[i] = s
  BY <1>a, <1>i DEF Occupied, Handled
<1>3. /\ After(Tail(todo[o]), s)
      /\ QuitRest(Tail(todo[o])) <=> QuitRest(todo[o])
      /\ QuitRest(todo[o]) => s \in {"modbus", "dnp3"}
  BY <1>0, <1>1, RestOrder
<1>4. /\ Serial' /\ Lines' /\ todo'[o] = Tail(todo[o])
      /\ \A p \in Operators : p # o => todo'[p] = <<>>
      /\ todo'[Teardown] = todo[Teardown]
  BY <1>0, <1>2, <1>3, StepLines
<1>5. runPlc /\ pc[Teardown] # "work"
  BY <1>0, <1>3, <1>a, <1>i, QuitIsLast DEF TearsDown, QuitStops, Stopped
<1>6. /\ Threads' = Threads \ {i}
      /\ \A j \in Threads' : serves'[j] = serves[j]
      /\ \A j \in Threads' : serves[j] # s
  BY <1>2, <1>a, <1>b, <1>c DEF Threads, Handled
<1>7. Handled'
  BY <1>2, <1>6, <1>a DEF Handled
<1>8. Occupied' = Occupied \ {s}
  <2>1. Occupied' = {serves[j] : j \in Threads \ {i}}
    BY <1>6 DEF Occupied
  <2> QED
    BY <1>c, <1>6, <2>1 DEF Occupied
<1>9. \A p \in Operators : \A x, r : Doing(p, x, r)' =>
         /\ p = o
         /\ \/ <<x, r>> = <<"set", s>>
            \/ s = "modbus" /\ <<x, r>> = <<"clear", "dnp3">>
            \/ s = "dnp3" /\ <<x, r>> = <<"halt", "modbus">>
  BY <1>3, <1>4 DEF Doing, After
<1>10. InStep'
  <2>1. \A r \in Servers : run'[r] <=> r \in Occupied'
    <3>1. \A r \in Servers : r # s => (run[r] <=> r \in Occupied)
      BY <1>a, <1>d, <1>5 DEF InStep
    <3> QED
      BY <1>0, <1>2, <1>8, <1>i, <3>1
  <2> QED
    BY <1>0, <1>2, <1>8, <1>9, <1>i, <2>1 DEF InStep
<1>11. QuitStops'
  <2>1. Stopped(s)' /\ \A r \in Servers : Stopped(r) => Stopped(r)'
    BY <1>2, <1>8, <1>i DEF Stopped
  <2>2. ASSUME NEW p \in Operators, QuitRest(todo'[p]) PROVE Stopped("modbus")'
    <3>1. p = o /\ QuitRest(todo[o]) /\ s \in {"modbus", "dnp3"}
      BY <1>3, <1>e, <1>4, <2>2
    <3>2. s = "dnp3" => Stopped("modbus")
      BY <1>1, <1>a, <1>d, <3>1 DEF QuitStops
    <3> QED
      BY <2>1, <3>1, <3>2 DEF Servers
  <2>3. ASSUME NEW p \in Operators, Doing(p, "halt", "modbus")' PROVE Stopped("dnp3")'
    BY <1>9, <2>1, <2>3
  <2> QED
    BY <1>2, <1>5, <2>2, <2>3 DEF QuitStops
<1>12. TearsDown'
  BY <1>0, <1>2, <1>5, <1>a DEF TearsDown
<1> QED
  BY <1>4, <1>7, <1>10, <1>11, <1>12 DEF Kept

LEMMA CreateKept ==
    ASSUME ThreadsAssumption, QuitsAlone, CoreInv, NEW o \in Operators,
           Create(o)
    PROVE  Kept'
<1> USE DEF threads, shared
<1>0. PICK what, s :
              /\ s \in Servers /\ s = Server(o)
              /\ todo[o] # <<>> /\ OperatorRest(todo[o]) /\ Head(todo[o]) = <<what, s>>
              /\ process = "up" /\ pc[o] = "work"
              /\ \A p \in Operators : p # o => todo[p] = <<>>
              /\ \A x : At(o, x) <=> x = what
              /\ what # "off"
  BY OperatorWorks DEF ScriptStep
<1>a. Serial /\ Lines /\ Handled /\ InStep /\ QuitStops /\ TearsDown
  BY DEF CoreInv, Kept
<1>d. \A p \in Operators : \A x, r : Doing(p, x, r) <=> p = o /\ <<x, r>> = <<what, s>>
  BY <1>0 DEF Doing
<1>e. ~QuitRest(<<>>)
  BY DEF QuitRest
<1>1. what = "create"
  BY <1>0 DEF Create
<1>b. /\ run \in [Servers -> BOOLEAN]
      /\ at \in [Ids -> {"free", "test", "accept", "spawn", "ended"}]
      /\ serves \in [Ids -> Servers] /\ handle \in [Servers -> Ids \cup {Null}]
  BY DEF CoreInv, Typed, TypeOK
<1>i. run[s] /\ s \notin Occupied
  BY <1>0, <1>1, <1>a, <1>d DEF InStep
<1>2. PICK i \in Ids :
         /\ at[i] = "free"
         /\ at' = [at EXCEPT ![i] = "test"]
         /\ serves' = [serves EXCEPT ![i] = s]
         /\ handle' = [handle EXCEPT ![s] = i]
  BY <1>0, <1>1 DEF Create
<1>u. /\ todo' = [todo EXCEPT ![o] = Tail(todo[o])]
      /\ UNCHANGED <<run, runPlc, line, processing, pc, got, process>>
  BY <1>0, <1>1 DEF Create, Done
<1>3. Tail(todo[o]) = <<>> /\ ~QuitRest(todo[o])
  BY <1>0, <1>1, RestOrder
<1>4. /\ Serial' /\ Lines' /\ todo'[o] = <<>>
      /\ \A p \in Operators : p # o => todo'[p] = <<>>
      /\ todo'[Teardown] = todo[Teardown]
  BY <1>0, <1>u, <1>3, <1>e, StepLines
<1>5. runPlc /\ pc[Teardown] # "work"
  BY <1>0, <1>3, <1>a, QuitIsLast DEF TearsDown
<1>6. /\ Threads' = Threads \cup {i} /\ i \notin Threads
      /\ \A j \in Threads : serves'[j] = serves[j] /\ serves[j] # s
      /\ serves'[i] = s
  BY <1>2, <1>b, <1>i DEF Threads, Occupied
<1>7. Handled'
  <2>1. handle'[s] = i /\ \A j \in Threads : handle'[serves[j]] = handle[serves[j]]
    BY <1>0, <1>2, <1>6, <1>b DEF Threads
  <2> QED
    BY <1>6, <1>a, <2>1 DEF Handled
<1>8. Occupied' = Occupied \cup {s}
  BY <1>6 DEF Occupied
<1>9. \A p \in Operators : \A x, r : ~Doing(p, x, r)'
  BY <1>4 DEF Doing
<1>10. InStep'
  <2>1. \A r \in Servers : r # s => (run[r] <=> r \in Occupied)
    BY <1>a, <1>d, <1>5 DEF InStep
  <2>2. \A r \in Servers : run'[r] <=> r \in Occupied'
    BY <1>0, <1>u, <1>8, <1>i, <2>1
  <2> QED
    BY <1>9, <2>2 DEF InStep
<1>11. QuitStops'
  BY <1>u, <1>4, <1>5, <1>9, <1>e DEF QuitStops
<1>12. TearsDown'
  BY <1>0, <1>u, <1>5, <1>a DEF TearsDown
<1> QED
  BY <1>4, <1>7, <1>10, <1>11, <1>12 DEF Kept

LEMMA HaltKept ==
    ASSUME ThreadsAssumption, QuitsAlone, CoreInv, NEW o \in Operators,
           Halt(o)
    PROVE  Kept'
<1> USE DEF threads, shared
<1>0. PICK what, s :
              /\ s \in Servers /\ s = Server(o)
              /\ todo[o] # <<>> /\ OperatorRest(todo[o]) /\ Head(todo[o]) = <<what, s>>
              /\ process = "up" /\ pc[o] = "work"
              /\ \A p \in Operators : p # o => todo[p] = <<>>
              /\ \A x : At(o, x) <=> x = what
              /\ what # "off"
  BY OperatorWorks DEF ScriptStep
<1>a. Serial /\ Lines /\ Handled /\ InStep /\ QuitStops /\ TearsDown
  BY DEF CoreInv, Kept
<1>d. \A p \in Operators : \A x, r : Doing(p, x, r) <=> p = o /\ <<x, r>> = <<what, s>>
  BY <1>0 DEF Doing
<1>e. ~QuitRest(<<>>)
  BY DEF QuitRest
<1>1. what = "halt"
  BY <1>0 DEF Halt
<1>u. /\ todo' = [todo EXCEPT ![o] = Tail(todo[o])] /\ runPlc' = FALSE
      /\ UNCHANGED <<run, handle, serves, at, line, processing, pc, got, process>>
  BY <1>0, <1>1 DEF Halt, Done
<1>3. Tail(todo[o]) = <<>> /\ QuitRest(todo[o]) /\ s = "modbus"
  BY <1>0, <1>1, RestOrder
<1>b. /\ todo = [w \in Workers |-> todo[w]] /\ Operators \subseteq Workers /\ o # Teardown
      /\ Teardown \in Workers
  BY DEF CoreInv, Typed, Scripted, Workers, ThreadsAssumption
<1>4. /\ todo'[o] = <<>>
      /\ \A p \in Operators : p # o => todo'[p] = <<>>
      /\ todo'[Teardown] = todo[Teardown]
  BY <1>0, <1>u, <1>3, <1>b
<1>s. Serial'
  BY <1>4, <1>u, <1>a DEF Serial
<1>l. Lines'
  <2>1. ASSUME NEW c \in Operators, Alone(c) PROVE Alone(c)'
    <3>1. runPlc => o = c /\ line \in {Ask, QuitLine}
      BY <2>1, <1>3 DEF Alone
    <3>2. line \in {Ask, QuitLine} /\ pc[c] \in {"work", "answer", "check", "gone"}
      BY <2>1, <1>0, <3>1 DEF Alone
    <3> QED
      BY <2>1, <1>4, <1>u, <3>2 DEF Alone
  <2>2. ~Running
    BY <1>3 DEF Running
  <2> QED
    BY <1>a, <2>1, <2>2, LinesKept
<1>6. Handled' /\ Occupied' = Occupied
  BY <1>u, <1>a, SameThreads DEF Threads
<1>7. Stopped("modbus") /\ Stopped("dnp3")
  BY <1>1, <1>3, <1>a, <1>d DEF QuitStops
<1>9. \A p \in Operators : \A x, r : ~Doing(p, x, r)'
  BY <1>4 DEF Doing
<1>10. InStep'
  BY <1>1, <1>9, <1>6, <1>u, <1>a, <1>d DEF InStep
<1>11. QuitStops'
  BY <1>u, <1>6, <1>7, <1>9 DEF QuitStops, Stopped
<1>12. TearsDown'
  BY <1>u, <1>4, <1>6, <1>a DEF TearsDown
<1> QED
  BY <1>s, <1>l, <1>6, <1>10, <1>11, <1>12 DEF Kept

\* A command joins no thread twice.
LEMMA JoinDefined ==
    ASSUME ThreadsAssumption, QuitsAlone, CoreInv, NEW o \in Operators,
           JoinUndefined(o)
    PROVE  FALSE
<1> USE DEF threads, shared
<1>0. PICK what, s :
              /\ s \in Servers /\ s = Server(o)
              /\ todo[o] # <<>> /\ OperatorRest(todo[o]) /\ Head(todo[o]) = <<what, s>>
              /\ process = "up" /\ pc[o] = "work"
              /\ \A p \in Operators : p # o => todo[p] = <<>>
              /\ \A x : At(o, x) <=> x = what
              /\ what # "off"
  BY OperatorWorks DEF ScriptStep
<1>a. Serial /\ Lines /\ Handled /\ InStep /\ QuitStops /\ TearsDown
  BY DEF CoreInv, Kept
<1>d. \A p \in Operators : \A x, r : Doing(p, x, r) <=> p = o /\ <<x, r>> = <<what, s>>
  BY <1>0 DEF Doing
<1>1. what = "join"
  BY <1>0 DEF JoinUndefined
<1>2. s \in Occupied
  BY <1>0, <1>1, <1>a, <1>d DEF InStep
<1>3. handle[s] \in Threads
  BY <1>a, <1>2 DEF Occupied, Handled
<1>4. handle[s] # Null /\ at[handle[s]] # "free"
  BY <1>3 DEF Threads, ThreadsAssumption
<1> QED
  BY <1>0, <1>4 DEF JoinUndefined

LEMMA OperatorScriptKept ==
    ASSUME ThreadsAssumption, QuitsAlone, CoreInv, NEW o \in Operators,
           ScriptStep(o)
    PROVE  Kept'
<1> QED
  BY ClearKept, SetKept, JoinKept, JoinDefined, CreateKept, HaltKept DEF ScriptStep

-----------------------------------------------------------------------------
\* The tear-down.

LEMMA TearOrder ==
    ASSUME NEW t, TearRest(t)
    PROVE  /\ \E what \in {"off", "join"}, s \in Servers : Head(t) = <<what, s>>
           /\ Tail(t) = <<>> => Head(t) = <<"join", "enip">>
<1>1. CASE t = <<<<"off", "modbus">>, <<"off", "dnp3">>, <<"off", "enip">>,
                  <<"join", "modbus">>, <<"join", "dnp3">>, <<"join", "enip">>>>
  <2>1. Head(t) = <<"off", "modbus">> /\ Tail(t) # <<>>
    BY <1>1
  <2> QED
    BY <2>1 DEF Servers
<1>2. CASE t = <<<<"off", "dnp3">>, <<"off", "enip">>,
                  <<"join", "modbus">>, <<"join", "dnp3">>, <<"join", "enip">>>>
  <2>1. Head(t) = <<"off", "dnp3">> /\ Tail(t) # <<>>
    BY <1>2
  <2> QED
    BY <2>1 DEF Servers
<1>3. CASE t = <<<<"off", "enip">>, <<"join", "modbus">>, <<"join", "dnp3">>,
                 <<"join", "enip">>>>
  <2>1. Head(t) = <<"off", "enip">> /\ Tail(t) # <<>>
    BY <1>3
  <2> QED
    BY <2>1 DEF Servers
<1>4. CASE t = <<<<"join", "modbus">>, <<"join", "dnp3">>, <<"join", "enip">>>>
  <2>1. Head(t) = <<"join", "modbus">> /\ Tail(t) # <<>>
    BY <1>4
  <2> QED
    BY <2>1 DEF Servers
<1>5. CASE t = <<<<"join", "dnp3">>, <<"join", "enip">>>>
  <2>1. Head(t) = <<"join", "dnp3">> /\ Tail(t) # <<>>
    BY <1>5
  <2> QED
    BY <2>1 DEF Servers
<1>6. CASE t = <<<<"join", "enip">>>>
  <2>1. Head(t) = <<"join", "enip">>
    BY <1>6
  <2> QED
    BY <2>1 DEF Servers
<1> QED
  BY <1>1, <1>2, <1>3, <1>4, <1>5, <1>6 DEF TearRest

\* Nobody starts or joins a server any more.
LEMMA OperatorsQuiet ==
    ASSUME CoreInv, ~runPlc
    PROVE  \A o \in Operators, s \in Servers :
              ~Doing(o, "join", s) /\ ~Doing(o, "set", s) /\ ~Doing(o, "create", s)
<1>1. SUFFICES ASSUME NEW o \in Operators, NEW s \in Servers, NEW what, Doing(o, what, s),
                      what \in {"join", "set", "create"}
               PROVE  FALSE
  OBVIOUS
<1>2. todo[o] # <<>> /\ QuitRest(todo[o]) /\ Head(todo[o]) = <<what, s>>
  BY <1>1, QuitIsLast DEF CoreInv, Kept, Doing
<1>3. what = "join" /\ s \in {"modbus", "dnp3"}
  <2>1. OperatorRest(todo[o])
    BY <1>2 DEF OperatorRest
  <2> QED
    BY <1>1, <1>2, <2>1, RestOrder
<1> QED
  BY <1>1, <1>3 DEF CoreInv, Kept, InStep, QuitStops, Stopped

LEMMA BeginTearKept ==
    ASSUME ThreadsAssumption, QuitsAlone, CoreInv, BeginTeardown
    PROVE  Kept'
<1> USE DEF threads, shared, Goto
<1>a. Serial /\ Lines /\ Handled /\ InStep /\ QuitStops /\ TearsDown
  BY DEF CoreInv, Kept
<1>b. /\ /\ todo = [w \in Workers |-> todo[w]]
      /\ Operators \subseteq Workers
      /\ Teardown \in Workers /\ Teardown \notin Operators
      /\ pc \in [Workers -> {"check", "read", "copy", "ask", "begin", "work", "answer", "gone"}]
  BY DEF CoreInv, Typed, TypeOK, Scripted, Workers, ThreadsAssumption
<1>1. /\ /\ pc' = [pc EXCEPT ![Teardown] = "work"]
      /\ todo' = [todo EXCEPT ![Teardown] = TearDownAll]
      /\ ~runPlc /\ process = "up"
      /\ UNCHANGED <<run, runPlc, handle, serves, at, line, processing, got, process>>
  BY DEF BeginTeardown, Up
<1>2. /\ \A o \in Operators : pc'[o] = pc[o] /\ todo'[o] = todo[o]
      /\ pc'[Teardown] = "work" /\ todo'[Teardown] # <<>>
  BY <1>1, <1>b DEF TearDownAll
<1>3. Serial' /\ Lines'
  BY <1>1, <1>2, <1>a, <1>b DEF Serial, Lines, Alone, Running, Quits
<1>4. Handled' /\ Occupied' = Occupied
  BY <1>1, <1>a, SameThreads DEF Threads
<1>5. InStep' /\ QuitStops'
  BY <1>1, <1>2, <1>4, <1>a DEF InStep, QuitStops, Stopped, Doing
<1>6. TearsDown'
  BY <1>1, <1>2 DEF TearsDown
<1> QED
  BY <1>3, <1>4, <1>5, <1>6 DEF Kept

LEMMA ExitKept ==
    ASSUME ThreadsAssumption, QuitsAlone, CoreInv, Exit
    PROVE  Kept'
<1> USE DEF threads, shared
<1>a. Serial /\ Lines /\ Handled /\ InStep /\ QuitStops /\ TearsDown
  BY DEF CoreInv, Kept
<1>1. /\ pc[Teardown] = "work" /\ todo[Teardown] = <<>>
      /\ UNCHANGED <<run, runPlc, handle, serves, at, line, processing, got, pc, todo>>
  BY DEF Exit
<1>2. Occupied = {}
  <2>1. Occupied \subseteq Servers
    BY DEF Occupied, Threads, CoreInv, Typed, TypeOK
  <2>2. "modbus" \notin Occupied /\ "dnp3" \notin Occupied /\ "enip" \notin Occupied
    BY <1>1, <1>a DEF TearsDown, QuitStops, Stopped
  <2> QED
    BY <2>1, <2>2 DEF Servers
<1>3. Serial' /\ Lines'
  BY <1>1, <1>a DEF Serial, Lines, Alone, Running, Quits
<1>4. Handled' /\ Occupied' = Occupied
  BY <1>1, <1>a, SameThreads DEF Threads
<1>5. InStep' /\ QuitStops'
  BY <1>1, <1>4, <1>a DEF InStep, QuitStops, Stopped, Doing
<1>6. TearsDown'
  BY <1>1, <1>2, <1>4, <1>a DEF TearsDown
<1> QED
  BY <1>3, <1>4, <1>5, <1>6 DEF Kept

\* The tear-down's steps take flags and threads away only.
LEMMA TearStepKept ==
    ASSUME ThreadsAssumption, QuitsAlone, CoreInv, ~runPlc,
           pc[Teardown] = "work", process # "exited", process' # "exited",
           UNCHANGED <<runPlc, handle, line, processing, pc, got>>,
           \A o \in Operators : todo'[o] = todo[o],
           \A s \in Servers : run'[s] => run[s],
           Threads' \subseteq Threads, \A i \in Threads' : serves'[i] = serves[i],
           todo'[Teardown] = <<>> => "enip" \notin Occupied'
    PROVE  Kept'
<1>a. Serial /\ Lines /\ Handled /\ InStep /\ QuitStops /\ TearsDown
  BY DEF CoreInv, Kept
<1>1. Occupied' \subseteq Occupied
  BY DEF Occupied
<1>2. Handled'
  BY <1>a DEF Handled
<1>3. Serial' /\ Lines'
  BY <1>a DEF Serial, Lines, Alone, Running, Quits
<1>4. \A o \in Operators : \A x, s : Doing(o, x, s)' <=> Doing(o, x, s)
  BY DEF Doing
<1>5. InStep'
  BY <1>4, OperatorsQuiet DEF InStep
<1>6. Stopped("modbus")' /\ Stopped("dnp3")'
  BY <1>1, <1>a DEF QuitStops, Stopped, Servers
<1>7. QuitStops'
  BY <1>6 DEF QuitStops
<1>8. TearsDown'
  BY <1>a DEF TearsDown
<1> QED
  BY <1>2, <1>3, <1>5, <1>7, <1>8 DEF Kept

LEMMA TearScriptKept ==
    ASSUME ThreadsAssumption, QuitsAlone, CoreInv, ScriptStep(Teardown)
    PROVE  Kept'
<1> USE DEF threads, shared
<1>a. Serial /\ Lines /\ Handled /\ InStep /\ QuitStops /\ TearsDown
  BY DEF CoreInv, Kept
<1>b. /\ todo = [w \in Workers |-> todo[w]] /\ Operators \subseteq Workers
      /\ Teardown \in Workers /\ Teardown \notin Operators
      /\ run \in [Servers -> BOOLEAN] /\ serves \in [Ids -> Servers]
      /\ at \in [Ids -> {"free", "test", "accept", "spawn", "ended"}]
  BY DEF CoreInv, Typed, TypeOK, Scripted, Workers, ThreadsAssumption
<1>1. /\ todo[Teardown] # <<>> /\ pc[Teardown] = "work" /\ process = "up"
      /\ UNCHANGED <<line, processing, pc, got>>
  BY DEF ScriptStep, Clear, SetFlag, Join, JoinUndefined, Create, Halt, At, Up
<1>2. TearRest(todo[Teardown]) /\ ~runPlc
  BY <1>1, <1>a, <1>b DEF CoreInv, Typed, Scripted, Rest, TearsDown
<1>3. PICK what \in {"off", "join"}, s \in Servers : Head(todo[Teardown]) = <<what, s>>
  BY <1>2, TearOrder
<1>4. Tail(todo[Teardown]) = <<>> => what = "join" /\ s = "enip"
  BY <1>2, <1>3, TearOrder
<1>5. Server(Teardown) = s /\ \A x : At(Teardown, x) => x = what
  BY <1>3 DEF Server, At
<1>6. Done(Teardown) => /\ todo'[Teardown] = Tail(todo[Teardown])
                        /\ \A o \in Operators : todo'[o] = todo[o]
  BY <1>b DEF Done
<1>7. ASSUME SetFlag(Teardown) PROVE Kept'
  <2>1. what = "off" /\ run' = [run EXCEPT ![s] = FALSE] /\ Done(Teardown)
        /\ UNCHANGED <<runPlc, handle, serves, at, process>>
    <3>1. what = "off" /\ ~At(Teardown, "set")
      BY <1>3, <1>5, <1>7 DEF SetFlag
    <3> QED
      BY <1>3, <1>5, <1>7, <3>1 DEF SetFlag, At
  <2>2. /\ \A r \in Servers : run'[r] => run[r]
        /\ Threads' = Threads
    BY <1>b, <2>1 DEF Threads
  <2>3. todo'[Teardown] # <<>>
    BY <1>4, <1>6, <2>1
  <2> QED
    BY <1>1, <1>2, <1>6, <2>1, <2>2, <2>3, TearStepKept
<1>8. ASSUME Join(Teardown) PROVE Kept'
  <2> DEFINE i == handle[s]
  <2>1. what = "join" /\ at[i] = "ended" /\ Done(Teardown)
        /\ at' = [at EXCEPT ![i] = "free"] /\ serves' = [serves EXCEPT ![i] = "modbus"]
        /\ UNCHANGED <<run, runPlc, handle, process>>
    BY <1>5, <1>8 DEF Join
  <2>2. /\ Threads' = Threads \ {i}
        /\ \A j \in Threads' : serves'[j] = serves[j]
    BY <1>b, <2>1 DEF Threads
  <2>3. todo'[Teardown] = <<>> => "enip" \notin Occupied'
    <3>1. SUFFICES ASSUME todo'[Teardown] = <<>>, NEW j \in Threads', serves'[j] = "enip"
                   PROVE  FALSE
      BY DEF Occupied
    <3>2. s = "enip" /\ j \in Threads /\ j # i /\ serves[j] = "enip"
      BY <1>4, <1>6, <2>1, <2>2, <3>1
    <3> QED
      BY <1>a, <3>2 DEF Handled
  <2> QED
    BY <1>1, <1>2, <1>6, <2>1, <2>2, <2>3, TearStepKept
<1>9. ASSUME JoinUndefined(Teardown) PROVE Kept'
  <2> DEFINE i == handle[s]
  <2>1. UNCHANGED <<run, runPlc, handle, serves, at>> /\ Threads' = Threads
    BY <1>9 DEF JoinUndefined, Threads
  <2>2. \/ at[i] = "free" /\ Done(Teardown) /\ UNCHANGED process
        \/ process' = "crashed" /\ UNCHANGED todo
    BY <1>5, <1>9 DEF JoinUndefined
  <2>3. \A o \in Operators : todo'[o] = todo[o]
    BY <1>6, <2>2
  <2>4. todo'[Teardown] = <<>> => "enip" \notin Occupied'
    <3>1. SUFFICES ASSUME todo'[Teardown] = <<>>, NEW j \in Threads, serves[j] = "enip"
                   PROVE  FALSE
      BY <2>1 DEF Occupied
    <3>2. s = "enip" /\ at[i] = "free"
      BY <1>1, <1>4, <1>6, <2>2, <3>1
    <3> QED
      BY <1>a, <3>1, <3>2 DEF Handled, Threads
  <2> QED
    BY <1>1, <1>2, <2>1, <2>2, <2>3, <2>4, TearStepKept
<1> QED
  BY <1>3, <1>5, <1>7, <1>8, <1>9 DEF ScriptStep, Clear, Create, Halt

-----------------------------------------------------------------------------
\* The theorems.

LEMMA InitKept == ASSUME ThreadsAssumption, QuitsAlone PROVE Init => CoreInv
<1> SUFFICES ASSUME Init PROVE CoreInv
  OBVIOUS
<1>1. /\ \A o \in Operators : todo[o] = <<>> /\ pc[o] = "check" /\ got[o] = Ask
      /\ pc[Teardown] = "check" /\ line = Ask /\ runPlc /\ process = "up"
      /\ \A s \in Servers : ~run[s]
      /\ ~QuitRest(<<>>) /\ Ask # QuitLine
  BY DEF Init, Workers, QuitRest, Ask, QuitLine
<1>2. Threads = {} /\ Occupied = {}
  BY DEF Init, Threads, Occupied
<1>3. Serial
  BY <1>1 DEF Serial
<1>4. Lines
  BY <1>1 DEF Lines, Alone, Running
<1>5. Handled /\ TearsDown
  BY <1>1, <1>2 DEF Handled, TearsDown
<1>6. InStep /\ QuitStops
  BY <1>1, <1>2 DEF InStep, QuitStops, Doing
<1> QED
  BY <1>3, <1>4, <1>5, <1>6, InitTyped DEF CoreInv, Kept

LEMMA NextKept ==
    ASSUME ThreadsAssumption, QuitsAlone, CoreInv, [Next]_vars
    PROVE  CoreInv'
<1>0. Typed'
  BY NextTyped DEF CoreInv
<1>1. ASSUME NEW o \in Operators, Receive(o) \/ OperatorStep(o) PROVE Kept'
  BY <1>1, OperatorKept, BeginKept, OperatorScriptKept
<1>2. ASSUME BeginTeardown \/ ScriptStep(Teardown) \/ Exit PROVE Kept'
  <2>1. CASE BeginTeardown
    BY <2>1, BeginTearKept
  <2>2. CASE ScriptStep(Teardown)
    BY <2>2, TearScriptKept
  <2>3. CASE Exit
    BY <2>3, ExitKept
  <2> QED
    BY <1>2, <2>1, <2>2, <2>3
<1>3. ASSUME NEW i \in Ids, ServerStep(i) \/ Accept(i) PROVE Kept'
  BY <1>3, ServerKept
<1>4. ASSUME NEW d \in Clients, HandlerChecks(d) \/ HandlerReads(d) PROVE Kept'
  <2>1. UNCHANGED <<run, runPlc, handle, serves, line, processing, pc, got, todo, process, at>>
    BY <1>4 DEF HandlerChecks, HandlerReads, threads, shared
  <2>2. Threads' = Threads /\ Kept
    BY <2>1 DEF Threads, CoreInv
  <2> QED
    BY <2>1, <2>2, ServersKeep
<1>5. ASSUME UNCHANGED vars PROVE Kept'
  <2>1. UNCHANGED <<run, runPlc, handle, serves, line, processing, pc, got, todo, process, at>>
    BY <1>5 DEF vars, threads, shared
  <2>2. Threads' = Threads /\ Kept
    BY <2>1 DEF Threads, CoreInv
  <2> QED
    BY <2>1, <2>2, ServersKeep
<1> QED
  BY <1>0, <1>1, <1>2, <1>3, <1>4, <1>5 DEF Next, CoreInv

LEMMA CoreHolds ==
    ASSUME ThreadsAssumption, QuitsAlone
    PROVE  Spec => []CoreInv
<1>1. CoreInv /\ [Next]_vars => CoreInv'
  BY NextKept
<1> QED
  BY InitKept, <1>1, PTL DEF Spec

\* However operators restart, stop and shut down servers, no two threads
\* run one server (start and stop of processCommand(), generic server threads).
THEOREM OneThreadPerServer ==
    ASSUME ThreadsAssumption, QuitsAlone
    PROVE  Spec => []OneServer
<1>1. CoreInv => OneServer
  BY DEF CoreInv, Kept, Handled, Threads, OneServer, Live
<1> QED
  BY <1>1, CoreHolds, PTL

\* Every pthread_join() of a command is of a thread created for its server
\* that nobody has joined.
THEOREM CommandsJoinSoundly ==
    ASSUME ThreadsAssumption, QuitsAlone
    PROVE  Spec => []JoinsSound
<1>1. ASSUME CoreInv PROVE JoinsSound
  <2> SUFFICES ASSUME NEW o \in Operators, At(o, "join")
               PROVE  /\ handle[Server(o)] # Null
                      /\ at[handle[Server(o)]] # "free"
                      /\ serves[handle[Server(o)]] = Server(o)
    BY DEF JoinsSound
  <2>1. todo[o] # <<>> /\ OperatorRest(todo[o])
    BY <1>1 DEF At, CoreInv, Typed, Scripted, Rest, Workers, ThreadsAssumption
  <2>2. PICK what, s : s \in Servers /\ Head(todo[o]) = <<what, s>>
    BY <2>1, RestPair
  <2>3. Server(o) = s /\ Doing(o, "join", s)
    BY <2>1, <2>2 DEF Server, Doing, At
  <2>4. s \in Occupied
    BY <1>1, <2>2, <2>3 DEF CoreInv, Kept, InStep
  <2>5. handle[s] \in Threads /\ serves[handle[s]] = s
    BY <1>1, <2>4 DEF Occupied, CoreInv, Kept, Handled
  <2> QED
    BY <2>3, <2>5 DEF Threads, ThreadsAssumption
<1> QED
  BY <1>1, CoreHolds, PTL

\* The process exits without a thread that accepts clients or updates DNP3's
\* points, though quit() leaves EtherNet/IP to the end of
\* startInteractiveServer().  Nothing is said of the detached threads that
\* handle a client.
THEOREM ExitsWithoutThreads ==
    ASSUME ThreadsAssumption, QuitsAlone
    PROVE  Spec => []ExitIsQuiet
<1>1. CoreInv => ExitIsQuiet
  BY DEF CoreInv, Kept, TearsDown, Occupied, Threads, ExitIsQuiet, Live
<1> QED
  BY <1>1, CoreHolds, PTL

-----------------------------------------------------------------------------
\* A stopped server takes no client.  The tear-down clears flags by itself, so
\* until it has come to EtherNet/IP's that server's flag still stands for its
\* thread.
Clearing == /\ pc[Teardown] = "work"
            /\ todo[Teardown] # <<>> /\ Head(todo[Teardown])[1] = "off"

ClearsLast == Clearing /\ "enip" \in Occupied => run["enip"]

LEMMA TearClears ==
    ASSUME NEW t, TearRest(t), Tail(t) # <<>>, Head(Tail(t))[1] = "off"
    PROVE  Head(t) \in {<<"off", "modbus">>, <<"off", "dnp3">>}
<1> DEFINE u == Tail(t)
<1>u. u # <<>> /\ Head(u)[1] = "off"
  OBVIOUS
<1>1. CASE t = <<<<"off", "enip">>, <<"join", "modbus">>, <<"join", "dnp3">>,
                 <<"join", "enip">>>>
  <2>1. u = <<<<"join", "modbus">>, <<"join", "dnp3">>, <<"join", "enip">>>>
    BY <1>1
  <2> HIDE DEF u
  <2> QED
    BY <1>u, <2>1
<1>2. CASE t = <<<<"join", "modbus">>, <<"join", "dnp3">>, <<"join", "enip">>>>
  <2>1. u = <<<<"join", "dnp3">>, <<"join", "enip">>>>
    BY <1>2
  <2> HIDE DEF u
  <2> QED
    BY <1>u, <2>1
<1>3. CASE t = <<<<"join", "dnp3">>, <<"join", "enip">>>>
  <2>1. u = <<<<"join", "enip">>>>
    BY <1>3
  <2> HIDE DEF u
  <2> QED
    BY <1>u, <2>1
<1>4. CASE t = <<<<"join", "enip">>>>
  <2>1. Tail(t) = <<>>
    BY <1>4
  <2> QED
    BY <2>1
<1> QED
  BY <1>1, <1>2, <1>3, <1>4 DEF TearRest

\* What a step of an operator's handler can do to the last server during the
\* tear-down: nothing.
LEMMA OperatorLeavesLast ==
    ASSUME ThreadsAssumption, QuitsAlone, CoreInv, ~runPlc,
           NEW o \in Operators, Receive(o) \/ OperatorStep(o)
    PROVE  /\ run'["enip"] = run["enip"]
           /\ Occupied' = Occupied
           /\ pc'[Teardown] = pc[Teardown] /\ todo'[Teardown] = todo[Teardown]
<1>a. /\ Teardown # o /\ todo = [w \in Workers |-> todo[w]]
      /\ Teardown \in Workers /\ o \in Workers
      /\ run \in [Servers -> BOOLEAN]
      /\ pc \in [Workers -> {"check", "read", "copy", "ask", "begin", "work", "answer", "gone"}]
  BY DEF CoreInv, Typed, TypeOK, Scripted, Workers, ThreadsAssumption
<1>1. CASE ~ScriptStep(o)
  BY <1>1, <1>a DEF Receive, OperatorStep, CheckRun, CopyLine, AnswerBusy, SeeIdle,
     BeginCommand, EndCommand, Answer, Goto, threads, Occupied, Threads
<1>2. CASE ScriptStep(o)
  <2>1. PICK what, s : /\ s \in Servers /\ s = Server(o)
                       /\ todo[o] # <<>> /\ OperatorRest(todo[o]) /\ Head(todo[o]) = <<what, s>>
                       /\ \A x : At(o, x) <=> x = what
                       /\ what # "off"
    BY <1>2, OperatorWorks
  <2>2. what \notin {"join", "set", "create"}
    BY <2>1, OperatorsQuiet DEF Doing
  <2>3. s # "enip"
    <3>1. QuitRest(todo[o])
      BY <2>1, QuitIsLast DEF CoreInv, Kept
    <3> QED
      BY <2>1, <3>1, RestOrder
  <2>4. Clear(o) \/ Halt(o)
    BY <1>2, <2>1, <2>2 DEF ScriptStep, SetFlag, Join, JoinUndefined, Create
  <2>5. UNCHANGED <<serves, at, pc>> /\ run'["enip"] = run["enip"]
    BY <1>a, <2>1, <2>3, <2>4 DEF Clear, Halt, threads, Servers
  <2>6. todo'[Teardown] = todo[Teardown]
    BY <1>a, <2>4 DEF Clear, Halt, Done
  <2> QED
    BY <2>5, <2>6 DEF Occupied, Threads
<1> QED
  BY <1>1, <1>2

LEMMA ClearsLastStep ==
    ASSUME ThreadsAssumption, QuitsAlone, CoreInv, CoreInv', ClearsLast,
           [Next]_vars
    PROVE  ClearsLast'
<1> SUFFICES ASSUME Clearing', "enip" \in Occupied' PROVE run'["enip"]
  BY DEF ClearsLast
<1>a. /\ todo = [w \in Workers |-> todo[w]] /\ Teardown \in Workers
      /\ run \in [Servers -> BOOLEAN]
      /\ at \in [Ids -> {"free", "test", "accept", "spawn", "ended"}]
      /\ serves \in [Ids -> Servers]
      /\ pc \in [Workers -> {"check", "read", "copy", "ask", "begin", "work", "answer", "gone"}]
  BY DEF CoreInv, Typed, TypeOK, Scripted, Workers
<1>b. pc[Teardown] = "work" => ~runPlc
  BY DEF CoreInv, Kept, TearsDown
<1>0. ASSUME run'["enip"] = run["enip"], Occupied' = Occupied,
             pc'[Teardown] = pc[Teardown], todo'[Teardown] = todo[Teardown]
      PROVE  run'["enip"]
  BY <1>0 DEF ClearsLast, Clearing
<1>1. ASSUME NEW o \in Operators, Receive(o) \/ OperatorStep(o) PROVE run'["enip"]
  <2>1. pc'[Teardown] = pc[Teardown]
    BY <1>1, <1>a DEF Receive, OperatorStep, CheckRun, CopyLine, AnswerBusy, SeeIdle,
     BeginCommand, EndCommand, Answer, Goto, ScriptStep, Clear, SetFlag, Join, JoinUndefined,
     Create, Halt, Workers, ThreadsAssumption
  <2>2. ~runPlc
    BY <2>1, <1>b DEF Clearing
  <2> QED
    BY <1>0, <1>1, <2>2, OperatorLeavesLast
<1>2. CASE BeginTeardown
  <2>1. ~runPlc /\ pc[Teardown] # "work" /\ UNCHANGED <<run, serves, at>>
    BY <1>2 DEF BeginTeardown, Goto, threads
  <2>2. "enip" \in Occupied
    BY <2>1 DEF Occupied, Threads
  <2> QED
    BY <2>1, <2>2, OperatorsQuiet DEF CoreInv, Kept, InStep, Servers
<1>3. CASE ScriptStep(Teardown)
  <2>1. /\ pc[Teardown] = "work" /\ todo[Teardown] # <<>>
        /\ pc' = pc
    BY <1>3 DEF ScriptStep, Clear, SetFlag, Join, JoinUndefined, Create, Halt, At
  <2>2. TearRest(todo[Teardown])
    BY <2>1, <1>a DEF CoreInv, Typed, Scripted, Rest, ThreadsAssumption
  <2>3. Done(Teardown) => todo'[Teardown] = Tail(todo[Teardown])
    BY <1>a DEF Done
  <2>4. CASE SetFlag(Teardown)
    <3>1. todo'[Teardown] = Tail(todo[Teardown])
      BY <2>3, <2>4 DEF SetFlag
    <3>2. Head(todo[Teardown]) \in {<<"off", "modbus">>, <<"off", "dnp3">>}
      BY <2>2, <3>1, TearClears DEF Clearing
    <3>3. Server(Teardown) # "enip" /\ Clearing
      BY <2>1, <3>2 DEF Server, Clearing
    <3>4. run'["enip"] = run["enip"] /\ UNCHANGED <<serves, at>>
      BY <1>a, <2>4, <3>3 DEF SetFlag, threads, Servers
    <3> QED
      BY <3>3, <3>4 DEF ClearsLast, Occupied, Threads
  <2>5. CASE ~SetFlag(Teardown)
    <3>1. At(Teardown, "join") /\ (Join(Teardown) \/ JoinUndefined(Teardown))
      BY <1>3, <2>1, <2>2, <2>5, TearGoesOn DEF ScriptStep, Clear, Create, Halt, Join,
         JoinUndefined, At
    <3>2. Head(todo[Teardown])[1] = "join"
      BY <3>1 DEF At
    <3>3. todo'[Teardown] = Tail(todo[Teardown]) \/ todo' = todo
      BY <2>3, <3>1 DEF Join, JoinUndefined
    <3>4. CASE todo' = todo
      BY <3>2, <3>4 DEF Clearing
    <3>5. CASE todo'[Teardown] = Tail(todo[Teardown])
      BY <2>2, <3>2, <3>5, TearClears DEF Clearing
    <3> QED
      BY <3>3, <3>4, <3>5
  <2> QED
    BY <2>4, <2>5
<1>4. CASE Exit \/ UNCHANGED vars
  BY <1>0, <1>4 DEF Exit, vars, threads, Occupied, Threads
<1>5. ASSUME NEW i \in Ids, ServerStep(i) \/ Accept(i) PROVE run'["enip"]
  <2>1. UNCHANGED <<run, serves, pc, todo>>
    BY <1>5 DEF ServerStep, TestFlag, StopWaiting, Spawn, Accept
  <2>2. at[i] # "free" /\ \E x : x # "free" /\ at' = [at EXCEPT ![i] = x]
    BY <1>5 DEF ServerStep, TestFlag, StopWaiting, Spawn, Accept, Move
  <2>3. Threads' = Threads
    BY <1>a, <2>2 DEF Threads
  <2> QED
    BY <1>0, <2>1, <2>3 DEF Occupied
<1>6. ASSUME NEW d \in Clients, HandlerChecks(d) \/ HandlerReads(d) PROVE run'["enip"]
  BY <1>0, <1>6 DEF HandlerChecks, HandlerReads, threads, Occupied, Threads
<1> QED
  BY <1>1, <1>2, <1>3, <1>4, <1>5, <1>6 DEF Next

\* Where a client gets its handler: the server's thread is there, and so is its
\* flag unless somebody waits for the thread.
LEMMA TakesWhileRunning ==
    ASSUME ThreadsAssumption, QuitsAlone, CoreInv, ClearsLast, [Next]_vars,
           NEW d \in Clients, conn[d] = "accepted", conn'[d] = "check"
    PROVE  run[of[d]] \/ \E w \in Workers : At(w, "join")
<1>1. PICK i \in Ids : Spawn(i)
  <2>1. conn \in [Clients -> {"none", "accepted", "check", "read"}]
    BY DEF CoreInv, Typed, TypeOK
  <2> QED
    BY <2>1 DEF Next, vars, Receive, OperatorStep, CheckRun, CopyLine, AnswerBusy, SeeIdle,
       BeginCommand, EndCommand, Answer, ScriptStep, Clear, SetFlag, Join, JoinUndefined,
       Create, Halt, BeginTeardown, Exit, ServerStep, TestFlag, StopWaiting, Accept,
       HandlerChecks, HandlerReads
<1>2. Up /\ at[i] = "spawn" /\ serves[i] = of[d]
  BY <1>1 DEF Spawn, Move, CoreInv, Typed, TypeOK
<1>3. of[d] \in Occupied /\ of[d] \in Listening
  BY <1>2 DEF Occupied, Threads, CoreInv, Typed, TypeOK
<1>4. CASE pc[Teardown] # "work"
  <2>1. run[of[d]] \/ \E o \in Operators : Doing(o, "join", of[d]) \/ Doing(o, "create", of[d])
    BY <1>3, <1>4 DEF CoreInv, Kept, InStep, Listening, Servers
  <2>2. \A o \in Operators : ~Doing(o, "create", of[d])
    BY <1>3 DEF CoreInv, Kept, InStep, Listening, Servers
  <2>3. ASSUME NEW o \in Operators, Doing(o, "join", of[d]) PROVE At(o, "join") /\ o \in Workers
    BY <1>2, <2>3 DEF Doing, At, CoreInv, Kept, Serial, Workers
  <2> QED
    BY <2>1, <2>2, <2>3
<1>5. CASE pc[Teardown] = "work"
  <2>1. of[d] = "enip"
    BY <1>3, <1>5 DEF CoreInv, Kept, TearsDown, QuitStops, Stopped, Listening
  <2>2. todo[Teardown] # <<>>
    BY <1>3, <1>5, <2>1 DEF CoreInv, Kept, TearsDown
  <2>3. TearRest(todo[Teardown])
    BY <2>2 DEF CoreInv, Typed, Scripted, Rest, Workers, ThreadsAssumption
  <2>4. CASE Head(todo[Teardown])[1] = "off"
    BY <1>3, <1>5, <2>1, <2>2, <2>4 DEF ClearsLast, Clearing
  <2>5. CASE Head(todo[Teardown])[1] = "join"
    BY <1>2, <1>5, <2>2, <2>5 DEF At, Workers
  <2> QED
    BY <2>3, <2>4, <2>5, TearGoesOn
<1> QED
  BY <1>4, <1>5

\* What StoppedTakesNone asks of a step.
TakesRunning ==
    \A c \in Clients :
       (conn[c] = "accepted" /\ conn'[c] = "check") =>
           (run[of[c]] \/ \E w \in Workers : At(w, "join"))

\* When the operator has been told that a server is stopped, it takes no new
\* client: a client that was accepted as the flag was cleared has its handler
\* while the command still waits for the thread.
THEOREM StoppedServersTakeNone ==
    ASSUME ThreadsAssumption, QuitsAlone
    PROVE  Spec => StoppedTakesNone
<1>1. Init => ClearsLast
  BY DEF Init, ClearsLast, Clearing, Workers
<1>2. CoreInv /\ CoreInv' /\ ClearsLast /\ [Next]_vars => ClearsLast'
  BY ClearsLastStep
<1>3. CoreInv /\ ClearsLast /\ [Next]_vars => [TakesRunning]_vars
  BY TakesWhileRunning DEF TakesRunning
<1>4. StoppedTakesNone <=> [][TakesRunning]_vars
  BY DEF StoppedTakesNone, TakesRunning
<1> QED
  BY <1>1, <1>2, <1>3, <1>4, CoreHolds, PTL DEF Spec
=============================================================================
