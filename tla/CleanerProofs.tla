---------------------------- MODULE CleanerProofs ----------------------------
(***************************************************************************)
(* Theorems about the log sidecar (cmd/cleaner) and the scanner it runs.   *)
(*                                                                         *)
(* The process keeps what it writes, ends with an empty buffer and scans a *)
(* line under one config, for any size of lines and buffer and any number  *)
(* of lines and policy files.  The scanner's memory between tokens is of   *)
(* its type, and a force on the following tokens is spent, for every set   *)
(* of tokens.  What it carves out of a line is a whole number each time,   *)
(* the cards are exactly the card numbers of the line, and the rest of the *)
(* line is written in its place and scanned in the quote it is in, for     *)
(* lines of every length and every choice of the lengths of numbers.       *)
(***************************************************************************)
EXTENDS Sidecar, SegmentScan, LineCarve, FiniteSetTheorems, SequenceTheorems,
        WellFoundedInduction, TLAPS

------------------------------------------------------------------------------
(* The process: Sidecar.                                                   *)

\* A writer that was closed, or never buffered, has nothing in its buffer;
\* only the first Close of a buffered one closes the stop channel; a shutdown
\* that is past Close has closed the writer.
CloseInv ==
    /\ closed \/ ~env.buffered => buf = << >>
    /\ stops = IF closed /\ env.buffered THEN 1 ELSE 0
    /\ \A g \in Goroutines : fin[g] \in {"wait", "drain"} => closed
    /\ exited = "done" => closed

\* The line in hand is sanitized under the snapshot taken with it, and
\* nothing of it has been written yet.
LineInv ==
    /\ \A i \in DOMAIN produced : produced[i].line <= lines
    /\ at = "scan" =>
          /\ \A i \in DOMAIN produced : produced[i].line < lines
          /\ \A i \in DOMAIN work : work[i] = Chunk("clean", snap)

\* What the three properties need together.
IInv == OutputKept /\ CloseInv /\ LineInv /\ OneConfigPerLine

\* TypeOK without the texts.
ControlOK ==
    /\ env \in Envs
    /\ at \in {"start", "wait", "open", "read", "scan", "flush", "overflow", "end"}
    /\ lines \in 0..MaxLines /\ snap \in 0..MaxFiles
    /\ closed \in BOOLEAN /\ stops \in Nat
    /\ timer \in {"idle", "flush", "off"}
    /\ fin \in [Goroutines -> {"no", "close", "wait", "drain"}]
    /\ sig \in {"none", "pending", "taken"}
    /\ exited \in {"no", "done", "fatal"}
    /\ file \in [stamp : 1..MaxFiles, kind : {"missing", "bad", "ok"}]
    /\ seen \in 0..MaxFiles /\ got \in 0..MaxFiles /\ active \in 0..MaxFiles
    /\ loader \in {"off", "idle", "load", "publish"}
    /\ unread \subseteq 1..MaxFiles

------------------------------------------------------------------------------
(* The writer.                                                             *)

\* Appending in two parts is appending the whole.
LEMMA SplitConcat ==
    ASSUME NEW S, NEW s \in Seq(S), NEW n \in 0..Len(s)
    PROVE  /\ SubSeq(s, 1, n) \in Seq(S) /\ SubSeq(s, n + 1, Len(s)) \in Seq(S)
           /\ Len(SubSeq(s, n + 1, Len(s))) = Len(s) - n
           /\ SubSeq(s, 1, n) \o SubSeq(s, n + 1, Len(s)) = s
  <1>1. Len(s) \in Nat /\ \A i \in 1..Len(s) : s[i] \in S
    BY LenProperties, ElementOfSeq
  <1>2. SubSeq(s, 1, n) \in Seq(S)
    BY <1>1, SubSeqProperties
  <1>3. /\ SubSeq(s, n + 1, Len(s)) \in Seq(S)
        /\ Len(SubSeq(s, n + 1, Len(s))) = Len(s) - n
    BY <1>1, SubSeqProperties
  <1>4. SubSeq(s, 1, n) \o SubSeq(s, n + 1, Len(s)) = SubSeq(s, 1, Len(s))
    <2>1. 1 \in 1..Len(s) + 1 /\ n \in 1 - 1..Len(s) /\ Len(s) \in n..Len(s)
      BY <1>1
    <2>2. \A m \in 1..Len(s) + 1 : \A k \in m - 1..Len(s) : \A z \in k..Len(s) :
             SubSeq(s, m, k) \o SubSeq(s, k + 1, z) = SubSeq(s, m, z)
      BY ConcatAdjacentSubSeq
    <2> QED BY <2>1, <2>2
  <1> QED BY <1>2, <1>3, <1>4, SubSeqFull

\* The same behind what was written before.
LEMMA SplitWrite ==
    ASSUME NEW S, NEW o \in Seq(S), NEW p \in Seq(S), NEW n \in 0..Len(p)
    PROVE  /\ o \o SubSeq(p, 1, n) \in Seq(S) /\ SubSeq(p, n + 1, Len(p)) \in Seq(S)
           /\ (o \o SubSeq(p, 1, n)) \o SubSeq(p, n + 1, Len(p)) = o \o p
  <1> DEFINE x == SubSeq(p, 1, n)
             y == SubSeq(p, n + 1, Len(p))
  <1>1. x \in Seq(S) /\ y \in Seq(S) /\ x \o y = p
    BY SplitConcat
  <1> HIDE DEF x, y
  <1>2. o \o x \in Seq(S) /\ (o \o x) \o y = o \o (x \o y)
    <2>1. \A u, v \in Seq(S) : o \o u \in Seq(S) /\ (o \o u) \o v = o \o (u \o v)
      OBVIOUS
    <2> QED BY <1>1, <2>1
  <1> QED BY <1>1, <1>2 DEF x, y

\* What the steps below use of the concatenation of texts.
LEMMA TextConcat ==
    /\ \A u, v \in Seq(Chunks) : u \o v \in Seq(Chunks) /\ Len(u \o v) = Len(u) + Len(v)
    /\ \A u \in Seq(Chunks) : u \o << >> = u
    /\ \A u, v, w \in Seq(Chunks) : (u \o v) \o w = u \o (v \o w)
  <1>1. \A u, v \in Seq(Chunks) : u \o v \in Seq(Chunks) /\ Len(u \o v) = Len(u) + Len(v)
    OBVIOUS
  <1>2. \A u \in Seq(Chunks) : u \o << >> = u
    OBVIOUS
  <1>3. \A u, v, w \in Seq(Chunks) : (u \o v) \o w = u \o (v \o w)
    OBVIOUS
  <1> QED BY <1>1, <1>2, <1>3

\* bufio.Writer keeps the order of what it is given, split or not.
LEMMA BufferedKeeps ==
    ASSUME NEW p \in Seq(Chunks), Buffered(p),
           buf \in Seq(Chunks), Len(buf) <= BufferCap, stdout \in Seq(Chunks)
    PROVE  /\ buf' \in Seq(Chunks) /\ Len(buf') <= BufferCap /\ stdout' \in Seq(Chunks)
           /\ stdout' \o buf' = (stdout \o buf) \o p
  <1> DEFINE room == BufferCap - Len(buf)
             rest == SubSeq(p, room + 1, Len(p))
  <1>1. \/ Len(p) <= room /\ buf' = buf \o p /\ stdout' = stdout
        \/ buf = << >> /\ stdout' = stdout \o p /\ buf' = buf
        \/ stdout' = stdout \o buf \o p /\ buf' = << >>
        \/ /\ Len(p) > room /\ ~(Len(rest) > BufferCap)
           /\ stdout' = stdout \o buf \o SubSeq(p, 1, room) /\ buf' = rest
    BY Zenon DEF Buffered
  <1>2. BufferCap \in Nat /\ room \in Nat /\ Len(buf) \in Nat /\ Len(p) \in Nat
    BY SidecarAssumption, LenProperties
  <1>3. CASE Len(p) <= room /\ buf' = buf \o p /\ stdout' = stdout
    <2>1. buf \o p \in Seq(Chunks) /\ Len(buf \o p) = Len(buf) + Len(p)
      BY TextConcat
    <2>2. stdout \o (buf \o p) = (stdout \o buf) \o p
      <3>1. \A u, v \in Seq(Chunks) : (stdout \o u) \o v = stdout \o (u \o v)
        BY TextConcat, Zenon
      <3> QED BY <3>1, Zenon
    <2>3. Len(buf') <= BufferCap
      BY <1>2, <1>3, <2>1
    <2> QED BY <1>3, <2>1, <2>2, <2>3, Zenon
  <1>4. CASE buf = << >> /\ stdout' = stdout \o p /\ buf' = buf
    BY <1>2, <1>4
  <1>5. CASE stdout' = stdout \o buf \o p /\ buf' = << >>
    BY <1>2, <1>5
  <1>6. CASE /\ Len(p) > room /\ ~(Len(rest) > BufferCap)
             /\ stdout' = stdout \o buf \o SubSeq(p, 1, room) /\ buf' = rest
    <2>1. room \in 0..Len(p) /\ stdout \o buf \in Seq(Chunks)
      BY <1>2, <1>6
    <2>2. /\ stdout' \in Seq(Chunks) /\ buf' \in Seq(Chunks)
          /\ stdout' \o buf' = (stdout \o buf) \o p
      <3> HIDE DEF room
      <3> DEFINE o == stdout \o buf
      <3>1. o \in Seq(Chunks) /\ stdout' = o \o SubSeq(p, 1, room) /\ buf' = rest
        BY <1>6, <2>1, Zenon
      <3> HIDE DEF o
      <3>2. /\ o \o SubSeq(p, 1, room) \in Seq(Chunks) /\ rest \in Seq(Chunks)
            /\ (o \o SubSeq(p, 1, room)) \o rest = o \o p
        <4> HIDE DEF rest
        <4>1. \A n \in 0..Len(p) :
                 /\ o \o SubSeq(p, 1, n) \in Seq(Chunks) /\ SubSeq(p, n + 1, Len(p)) \in Seq(Chunks)
                 /\ (o \o SubSeq(p, 1, n)) \o SubSeq(p, n + 1, Len(p)) = o \o p
          BY <3>1, SplitWrite
        <4>2. rest = SubSeq(p, room + 1, Len(p))
          BY DEF rest
        <4> QED BY <2>1, <4>1, <4>2, Zenon
      <3> QED BY <3>1, <3>2, Zenon DEF o
    <2>3. Len(buf') <= BufferCap
      <3>1. Len(buf') \in Nat /\ ~(Len(buf') > BufferCap)
        BY <1>6, <2>2, LenProperties
      <3> QED BY <1>2, <3>1
    <2> QED BY <2>2, <2>3
  <1> HIDE DEF room, rest
  <1> QED BY <1>1, <1>3, <1>4, <1>5, <1>6, Zenon

\* Write hands on what it is given, buffered or not.
LEMMA WriteKeeps ==
    ASSUME OutputKept, CloseInv, NEW p \in Seq(Chunks), Write(p)
    PROVE  /\ produced' = produced \o p /\ produced' \in Seq(Chunks)
           /\ buf' \in Seq(Chunks) /\ Len(buf') <= BufferCap /\ stdout' \in Seq(Chunks)
           /\ stdout' \o buf' = produced'
           /\ closed \/ ~env.buffered => buf' = << >>
  <1>1. /\ buf \in Seq(Chunks) /\ Len(buf) <= BufferCap /\ stdout \in Seq(Chunks)
        /\ produced \in Seq(Chunks) /\ stdout \o buf = produced
        /\ closed \/ ~env.buffered => buf = << >>
    BY DEF OutputKept, TypeOK, CloseInv
  <1>2. produced' = produced \o p
    BY DEF Write
  <1>3. CASE env.buffered /\ ~closed /\ Buffered(p)
    <2>1. produced \o p \in Seq(Chunks)
      BY <1>1
    <2>2. /\ buf' \in Seq(Chunks) /\ Len(buf') <= BufferCap /\ stdout' \in Seq(Chunks)
          /\ stdout' \o buf' = (stdout \o buf) \o p
      BY <1>1, <1>3, BufferedKeeps
    <2> QED BY <1>1, <1>2, <1>3, <2>1, <2>2, Zenon
  <1>4. CASE (~env.buffered \/ closed) /\ stdout' = stdout \o p /\ buf' = buf
    <2>1. buf = << >> /\ stdout = produced
      BY <1>1, <1>4, TextConcat, Zenon
    <2>2. produced \o p \in Seq(Chunks) /\ (produced \o p) \o << >> = produced \o p
      BY <1>1, TextConcat, Zenon
    <2> QED BY <1>1, <1>2, <1>4, <2>1, <2>2, Zenon
  <1> QED BY <1>3, <1>4 DEF Write

\* Flush moves the buffer to standard output.
LEMMA FlushKeeps ==
    ASSUME OutputKept, Flush
    PROVE  /\ produced' = produced /\ buf' = << >> /\ stdout' \in Seq(Chunks)
           /\ buf' \in Seq(Chunks) /\ Len(buf') <= BufferCap
           /\ stdout' \o buf' = produced'
  BY SidecarAssumption DEF OutputKept, TypeOK, Flush

------------------------------------------------------------------------------
(* The steps.                                                              *)

\* A step that writes nothing leaves the texts as they are.
LEMMA Quiet ==
    ASSUME IInv, UNCHANGED <<ioVars, scanVars>>, at' = "scan" => at = "scan",
           ControlOK', CloseInv'
    PROVE  IInv'
  <1>1. OutputKept'
    BY DEF IInv, OutputKept, TypeOK, ControlOK, ioVars, scanVars
  <1>2. LineInv' /\ OneConfigPerLine'
    BY DEF IInv, LineInv, OneConfigPerLine, Chunk, ioVars, scanVars
  <1> QED BY <1>1, <1>2 DEF IInv

LEMMA QuietShutdown ==
    ASSUME IInv, NEW g \in Goroutines, CloseWait(g) \/ Exit(g)
    PROVE  IInv'
  <1>0. ControlOK /\ CloseInv
    BY DEF IInv, OutputKept, TypeOK, ControlOK
  <1>1. UNCHANGED <<env, at, scanVars, ioVars, closeVars, policyVars>>
    BY DEF CloseWait, Exit
  <1>2. ControlOK'
    BY <1>0, <1>1 DEF ControlOK, CloseWait, Exit, scanVars, closeVars, policyVars
  <1>3. CloseInv'
    BY <1>0, <1>1 DEF ControlOK, CloseInv, CloseWait, Exit, ioVars, closeVars
  <1> QED BY <1>1, <1>2, <1>3, Quiet

LEMMA QuietTimer ==
    ASSUME IInv, Tick \/ TimerStops
    PROVE  IInv'
  <1>0. ControlOK /\ CloseInv
    BY DEF IInv, OutputKept, TypeOK, ControlOK
  <1>1. UNCHANGED <<env, at, scanVars, ioVars, closed, stops, fin, sig, exited, policyVars>>
    BY DEF Tick, TimerStops
  <1>2. ControlOK'
    BY <1>0, <1>1 DEF ControlOK, Tick, TimerStops, scanVars, policyVars
  <1>3. CloseInv'
    BY <1>0, <1>1 DEF CloseInv, ioVars
  <1> QED BY <1>1, <1>2, <1>3, Quiet

LEMMA QuietInput ==
    ASSUME IInv, FileCreated \/ WaitInterrupted \/ InputOpens \/ OpenFails \/ InputEnds
    PROVE  IInv'
  <1>0. ControlOK /\ CloseInv
    BY DEF IInv, OutputKept, TypeOK, ControlOK
  <1>1. UNCHANGED <<env, scanVars, ioVars, closeVars, policyVars>> /\ (at' = "scan" => at = "scan")
    BY DEF FileCreated, WaitInterrupted, InputOpens, OpenFails, InputEnds
  <1>2. /\ at' \in {"open", "end", "read", at}
        /\ exited' \in {exited, "fatal"}
        /\ sig' \in {sig, "taken"}
        /\ fin' \in {fin, [fin EXCEPT !["main"] = "close"]}
    BY DEF FileCreated, WaitInterrupted, InputOpens, OpenFails, InputEnds, Finalize
  <1>3. ControlOK'
    BY <1>0, <1>1, <1>2 DEF ControlOK, Goroutines, scanVars, closeVars, policyVars
  <1>4. CloseInv'
    BY <1>0, <1>1, <1>2 DEF ControlOK, CloseInv, Goroutines, ioVars, closeVars
  <1> QED BY <1>1, <1>3, <1>4, Quiet

LEMMA QuietSignal ==
    ASSUME IInv, Signal \/ HandleSignal
    PROVE  IInv'
  <1>0. ControlOK /\ CloseInv
    BY DEF IInv, OutputKept, TypeOK, ControlOK
  <1>1. UNCHANGED <<env, at, scanVars, ioVars, closeVars, exited, policyVars>>
    BY DEF Signal, HandleSignal
  <1>2. sig' \in {"pending", "taken"} /\ fin' \in {fin, [fin EXCEPT !["signal"] = "close"]}
    BY DEF Signal, HandleSignal, Finalize
  <1>3. ControlOK'
    BY <1>0, <1>1, <1>2 DEF ControlOK, Goroutines, scanVars, closeVars, policyVars
  <1>4. CloseInv'
    BY <1>0, <1>1, <1>2 DEF ControlOK, CloseInv, Goroutines, ioVars, closeVars
  <1> QED BY <1>1, <1>3, <1>4, Quiet

LEMMA QuietReload ==
    ASSUME IInv, Reloader \/ \E kind \in {"missing", "bad", "ok"} : FileChanges(kind)
    PROVE  IInv'
  <1>0. ControlOK /\ CloseInv
    BY DEF IInv, OutputKept, TypeOK, ControlOK
  <1>1. UNCHANGED <<env, scanVars, ioVars, closeVars, fin, sig, exited>>
    BY DEF Reloader, Stat, Load, Publish, FileChanges
  <1>2. at' \in {at, "read", "wait"}
    BY DEF Reloader, Stat, Load, Publish, FileChanges, CheckDone, FirstInput
  <1>3. /\ seen' \in {seen, file.stamp} /\ got' \in {got, file.stamp} /\ active' \in {active, got}
        /\ loader' \in {loader, "load", "publish", "idle", "off"}
        /\ unread' \in {unread, unread \cup {file.stamp}}
        /\ \/ file' = file
           \/ \E kind \in {"missing", "bad", "ok"} :
                 file.stamp < MaxFiles /\ file' = [stamp |-> file.stamp + 1, kind |-> kind]
    BY DEF Reloader, Stat, Load, Publish, FileChanges, CheckDone, Examined
  <1>4. file' \in [stamp : 1..MaxFiles, kind : {"missing", "bad", "ok"}]
    BY <1>0, <1>3, SidecarAssumption DEF ControlOK
  <1>5. ControlOK'
    BY <1>0, <1>1, <1>2, <1>3, <1>4 DEF ControlOK, scanVars, closeVars
  <1>6. CloseInv'
    BY <1>0, <1>1 DEF CloseInv, ioVars, closeVars
  <1> QED BY <1>1, <1>2, <1>5, <1>6, Quiet

\* A new line takes its snapshot; nothing of it is written.
LEMMA ReadStep ==
    ASSUME IInv, ReadLine
    PROVE  IInv'
  <1>0. ControlOK /\ CloseInv /\ LineInv /\ TypeOK
    BY DEF IInv, OutputKept, TypeOK, ControlOK
  <1>1. /\ lines < MaxLines /\ lines' = lines + 1 /\ snap' = active /\ work' = << >> /\ at' = "scan"
        /\ UNCHANGED <<env, ioVars, closeVars, fin, sig, exited, policyVars>>
    BY DEF ReadLine
  <1>2. ControlOK'
    BY <1>0, <1>1, SidecarAssumption DEF ControlOK, closeVars, policyVars
  <1>3. CloseInv'
    BY <1>0, <1>1 DEF CloseInv, ioVars, closeVars
  <1>4. OutputKept'
    <2>1. work' \in Seq(Chunks) /\ Len(work') <= Parts
      BY <1>1, SidecarAssumption
    <2>2. UNCHANGED <<produced, stdout, buf>>
      BY <1>1 DEF ioVars
    <2> QED BY <1>2, <2>1, <2>2 DEF IInv, OutputKept, TypeOK, ControlOK
  <1>5. LineInv'
    <2>1. \A i \in DOMAIN produced : produced[i].line <= lines /\ produced[i].line \in Nat
      <3>1. \A i \in DOMAIN produced : produced[i] \in Chunks
        BY <1>0 DEF TypeOK
      <3> QED BY <1>0, <3>1, SidecarAssumption DEF LineInv, Chunks
    <2>2. produced' = produced /\ lines \in Nat /\ DOMAIN work' = {}
      BY <1>0, <1>1 DEF ioVars, ControlOK
    <2> QED BY <1>1, <2>1, <2>2 DEF LineInv
  <1>6. OneConfigPerLine'
    BY <1>1 DEF IInv, OneConfigPerLine, ioVars
  <1> QED BY <1>3, <1>4, <1>5, <1>6 DEF IInv

LEMMA ScanStep ==
    ASSUME IInv, ScanPart
    PROVE  IInv'
  <1>0. ControlOK /\ CloseInv /\ LineInv /\ TypeOK
    BY DEF IInv, OutputKept, TypeOK, ControlOK
  <1> DEFINE c == Chunk("clean", snap)
  <1>1. /\ at = "scan" /\ Len(work) < Parts /\ work' = Append(work, c)
        /\ UNCHANGED <<env, at, lines, snap, ioVars, closeVars, fin, sig, exited, policyVars>>
    BY DEF ScanPart, ScanConfig
  <1>2. c \in Chunks
    BY <1>0 DEF Chunk, Chunks, ControlOK
  <1>3. c' = c
    BY <1>1 DEF Chunk
  <1>4. ControlOK'
    BY <1>0, <1>1 DEF ControlOK, closeVars, policyVars
  <1>5. CloseInv'
    BY <1>0, <1>1 DEF CloseInv, ioVars, closeVars
  <1> HIDE DEF c
  <1>6. work' \in Seq(Chunks) /\ Len(work') <= Parts
    BY <1>0, <1>1, <1>2, SidecarAssumption DEF TypeOK
  <1>7. OutputKept'
    BY <1>1, <1>4, <1>6 DEF IInv, OutputKept, TypeOK, ControlOK, ioVars
  <1>8. LineInv'
    <2>1. \A i \in DOMAIN work' : work'[i] = c
      BY <1>0, <1>1, <1>2 DEF TypeOK, LineInv, c
    <2> QED BY <1>0, <1>1, <1>3, <2>1 DEF LineInv, ioVars, c
  <1>9. OneConfigPerLine'
    BY <1>1 DEF IInv, OneConfigPerLine, ioVars
  <1> QED BY <1>5, <1>7, <1>8, <1>9 DEF IInv

\* What Write is given is text of the line in hand: either nothing of it is

\* clean, or all of it is clean under one config and the first of its line.
LEMMA WriteStep ==
    ASSUME IInv, NEW p \in Seq(Chunks), Write(p), ControlOK',
           UNCHANGED <<env, snap, work, closeVars, fin, exited>>,
           lines' >= lines, at' # "scan",
           \A i \in DOMAIN p : p[i].line = lines',
           NEW cfg, \A i \in DOMAIN p : p[i].text = "clean" =>
              p[i].cfg = cfg /\ \A j \in DOMAIN produced : produced[j].line < lines'
    PROVE  IInv'
  <1>1. OutputKept /\ CloseInv /\ LineInv /\ TypeOK /\ OneConfigPerLine
    BY DEF IInv, OutputKept
  <1>2. /\ produced' = produced \o p /\ produced' \in Seq(Chunks)
        /\ buf' \in Seq(Chunks) /\ Len(buf') <= BufferCap /\ stdout' \in Seq(Chunks)
        /\ stdout' \o buf' = produced'
        /\ closed \/ ~env.buffered => buf' = << >>
    BY <1>1, WriteKeeps
  <1>3. OutputKept'
    BY <1>1, <1>2 DEF OutputKept, TypeOK, ControlOK
  <1>4. CloseInv'
    BY <1>1, <1>2 DEF CloseInv, closeVars
  <1>5. /\ produced \in Seq(Chunks) /\ \A i \in DOMAIN produced : produced[i] \in Chunks
        /\ lines \in Nat /\ lines' \in Nat
    <2>1. produced \in Seq(Chunks)
      BY <1>1, Zenon DEF TypeOK
    <2>2. lines \in Nat
      BY <1>1 DEF TypeOK
    <2>3. lines' \in Nat
      BY DEF ControlOK
    <2>4. \A q \in Seq(Chunks) : \A i \in DOMAIN q : q[i] \in Chunks
      OBVIOUS
    <2> QED BY <2>1, <2>2, <2>3, <2>4, Zenon
  <1>6. \A i \in DOMAIN produced : produced[i].line \in Nat /\ produced[i].line <= lines
    BY <1>1, <1>5, SidecarAssumption DEF LineInv, Chunks
  <1>7. \A i \in DOMAIN produced' :
           \/ i \in DOMAIN produced /\ produced'[i] = produced[i]
           \/ \E k \in DOMAIN p : produced'[i] = p[k]
    BY <1>2, <1>5
  <1>8. LineInv'
    BY <1>5, <1>6, <1>7 DEF LineInv
  <1>9. OneConfigPerLine'
    <2> SUFFICES ASSUME NEW i \in DOMAIN produced', NEW j \in DOMAIN produced',
                        produced'[i].text = "clean", produced'[j].text = "clean",
                        produced'[i].line = produced'[j].line
                 PROVE  produced'[i].cfg = produced'[j].cfg
      BY DEF OneConfigPerLine
    <2>1. CASE /\ i \in DOMAIN produced /\ produced'[i] = produced[i]
               /\ j \in DOMAIN produced /\ produced'[j] = produced[j]
      BY <1>1, <2>1, Zenon DEF OneConfigPerLine
    <2>2. CASE \E k, m \in DOMAIN p : produced'[i] = p[k] /\ produced'[j] = p[m]
      BY <2>2, Zenon
    <2>3. ASSUME NEW a \in DOMAIN produced, NEW k \in DOMAIN p, p[k].text = "clean"
          PROVE  produced[a].line # p[k].line
      BY <1>5, <1>6, <2>3
    <2>4. CASE i \in DOMAIN produced /\ produced'[i] = produced[i]
      <3>1. ~\E k \in DOMAIN p : produced'[j] = p[k]
        BY <2>3, <2>4, Zenon
      <3> QED BY <1>7, <2>1, <2>4, <3>1, Zenon
    <2>5. CASE j \in DOMAIN produced /\ produced'[j] = produced[j]
      <3>1. ~\E k \in DOMAIN p : produced'[i] = p[k]
        BY <2>3, <2>5, Zenon
      <3> QED BY <1>7, <2>1, <2>5, <3>1, Zenon
    <2> QED BY <1>7, <2>2, <2>4, <2>5, Zenon
  <1> QED BY <1>3, <1>4, <1>8, <1>9 DEF IInv

LEMMA WriteLineStep ==
    ASSUME IInv, WriteLine
    PROVE  IInv'
  <1>0. ControlOK /\ LineInv /\ TypeOK
    BY DEF IInv, OutputKept, TypeOK, ControlOK
  <1> DEFINE p == IF env.mode = "audit" THEN Original ELSE work
  <1>1. /\ at = "scan" /\ Write(p) /\ at' = "read"
        /\ UNCHANGED <<env, scanVars, closeVars, fin, sig, exited, policyVars>>
    BY DEF WriteLine
  <1>2. Original \in Seq(Chunks) /\ work \in Seq(Chunks)
    BY <1>0, SidecarAssumption DEF Original, Chunk, Chunks, ControlOK, TypeOK
  <1>3. \A i \in DOMAIN Original : Original[i].line = lines /\ Original[i].text = "raw"
    BY DEF Original, Chunk
  <1>4. /\ \A i \in DOMAIN produced : produced[i].line < lines
        /\ \A i \in DOMAIN work : work[i].line = lines /\ work[i].cfg = snap
    BY <1>0, <1>1 DEF LineInv, Chunk
  <1>5. /\ p \in Seq(Chunks)
        /\ \A i \in DOMAIN p : p[i].line = lines /\ (p[i].text = "clean" => p[i].cfg = snap)
    BY <1>2, <1>3, <1>4
  <1>6. ControlOK'
    BY <1>0, <1>1 DEF ControlOK, scanVars, closeVars, policyVars
  <1>7. lines' = lines /\ lines' >= lines
    BY <1>0, <1>1 DEF scanVars, ControlOK
  <1> HIDE DEF p
  <1> QED BY <1>1, <1>4, <1>5, <1>6, <1>7, WriteStep DEF scanVars

LEMMA PanicStep ==
    ASSUME IInv, ScanPanics
    PROVE  IInv'
  <1>0. ControlOK
    BY DEF IInv, OutputKept, TypeOK, ControlOK
  <1>1. PICK p \in {Marker, Original} :
           /\ Write(p) /\ at' \in {"flush", "read"}
           /\ UNCHANGED <<env, scanVars, closeVars, fin, sig, exited, policyVars>>
    BY DEF ScanPanics
  <1>2. /\ Original \in Seq(Chunks) /\ Marker \in Seq(Chunks)
        /\ \A i \in DOMAIN Original : Original[i].line = lines /\ Original[i].text = "raw"
        /\ \A i \in DOMAIN Marker : Marker[i].line = lines /\ Marker[i].text = "marker"
    BY <1>0, SidecarAssumption DEF Original, Marker, Chunk, Chunks, ControlOK
  <1>3. ControlOK'
    BY <1>0, <1>1 DEF ControlOK, scanVars, closeVars, policyVars
  <1>4. lines' = lines /\ lines' >= lines
    BY <1>0, <1>1 DEF scanVars, ControlOK
  <1>5. p \in Seq(Chunks) /\ \A i \in DOMAIN p : p[i].line = lines /\ p[i].text # "clean"
    BY <1>2
  <1> QED BY <1>1, <1>3, <1>4, <1>5, WriteStep DEF scanVars

LEMMA TooLongStep ==
    ASSUME IInv, LineTooLong
    PROVE  IInv'
  <1>0. ControlOK
    BY DEF IInv, OutputKept, TypeOK, ControlOK
  <1> DEFINE c == [line |-> lines + 1, text |-> "marker", cfg |-> 0]
             p == <<c>>
  <1>1. /\ Write(p) /\ at' = "overflow" /\ lines < MaxLines /\ lines' = lines + 1
        /\ UNCHANGED <<env, snap, work, closeVars, fin, sig, exited, policyVars>>
    BY DEF LineTooLong
  <1>2. c \in Chunks
    BY <1>0, <1>1, SidecarAssumption DEF Chunks, ControlOK
  <1>3. p \in Seq(Chunks) /\ \A i \in DOMAIN p : p[i] = c
    BY <1>2
  <1>4. ControlOK'
    BY <1>0, <1>1, SidecarAssumption DEF ControlOK, closeVars, policyVars
  <1>5. lines' >= lines
    BY <1>0, <1>1 DEF ControlOK
  <1>6. \A i \in DOMAIN p : p[i].line = lines' /\ p[i].text # "clean"
    BY <1>1, <1>3
  <1> HIDE DEF p
  <1> QED BY <1>1, <1>3, <1>4, <1>5, <1>6, WriteStep

\* A flush moves text that is there.
LEMMA FlushStep ==
    ASSUME IInv, Flush, ControlOK', UNCHANGED <<env, scanVars>>, at' = "scan" => at = "scan",
           /\ stops' = IF closed' /\ env.buffered THEN 1 ELSE 0
           /\ \A g \in Goroutines : fin'[g] \in {"wait", "drain"} => closed'
           /\ exited' = "done" => closed'
    PROVE  IInv'
  <1>1. /\ produced' = produced /\ buf' = << >> /\ stdout' \in Seq(Chunks)
        /\ buf' \in Seq(Chunks) /\ Len(buf') <= BufferCap
        /\ stdout' \o buf' = produced'
    BY FlushKeeps DEF IInv
  <1>2. OutputKept'
    BY <1>1 DEF IInv, OutputKept, TypeOK, ControlOK, scanVars
  <1>3. CloseInv'
    BY <1>1 DEF CloseInv
  <1>4. LineInv' /\ OneConfigPerLine'
    BY <1>1 DEF IInv, LineInv, OneConfigPerLine, Chunk, scanVars
  <1> QED BY <1>2, <1>3, <1>4 DEF IInv

\* The first Close of a buffered writer closes the stop channel, and no other.
LEMMA CloseStep ==
    ASSUME IInv, NEW g \in Goroutines, Close(g)
    PROVE  IInv'
  <1>0. ControlOK /\ CloseInv
    BY DEF IInv, OutputKept, TypeOK, ControlOK
  <1>1. /\ Flush /\ closed' = TRUE
        /\ UNCHANGED <<env, at, scanVars, timer, sig, exited, policyVars>>
        /\ stops' = IF env.buffered /\ ~closed THEN stops + 1 ELSE stops
        /\ fin' \in {[fin EXCEPT ![g] = "wait"], [fin EXCEPT ![g] = "drain"]}
    BY DEF Close, CloseLocked, StopsTimer, CloseStop
  <1>2. ControlOK'
    BY <1>0, <1>1 DEF ControlOK, scanVars, policyVars
  <1>3. stops' = IF closed' /\ env.buffered THEN 1 ELSE 0
    BY <1>0, <1>1 DEF CloseInv, ControlOK
  <1> QED BY <1>1, <1>2, <1>3, FlushStep

LEMMA OtherFlushes ==
    ASSUME IInv, TimerFlushes \/ FlushMarker \/ FlushOverflow
    PROVE  IInv'
  <1>0. ControlOK /\ CloseInv
    BY DEF IInv, OutputKept, TypeOK, ControlOK
  <1>1. /\ Flush
        /\ UNCHANGED <<env, scanVars, closed, stops, sig, exited, policyVars>>
        /\ timer' \in {timer, "idle"}
        /\ at' \in {at, "read", "open", "end"}
        /\ fin' \in {fin, [fin EXCEPT !["main"] = "close"]}
    BY DEF TimerFlushes, TickFlush, FlushMarker, FlushOverflow, Finalize, closeVars
  <1>2. ControlOK'
    BY <1>0, <1>1 DEF ControlOK, scanVars, policyVars, Goroutines
  <1>3. \A g \in Goroutines : fin'[g] \in {"wait", "drain"} => closed'
    BY <1>0, <1>1 DEF ControlOK, CloseInv, Goroutines
  <1>4. (stops' = IF closed' /\ env.buffered THEN 1 ELSE 0) /\ (exited' = "done" => closed')
    BY <1>0, <1>1 DEF CloseInv
  <1> QED BY <1>1, <1>2, <1>3, <1>4, FlushStep

------------------------------------------------------------------------------
(* The invariant and the theorems.                                         *)

LEMMA InitInv == Init => IInv
  <1> SUFFICES ASSUME Init PROVE IInv
    OBVIOUS
  <1>1. ControlOK
    <2>1. file \in [stamp : 1..MaxFiles, kind : {"missing", "bad", "ok"}]
      BY SidecarAssumption DEF Init
    <2>2. at \in {"start", "read", "wait"} /\ env \in Envs /\ timer \in {"idle", "off"}
      BY DEF Init, FirstInput
    <2>3. fin \in [Goroutines -> {"no", "close", "wait", "drain"}] /\ loader \in {"off", "idle"}
      BY DEF Init
    <2>4. /\ lines \in 0..MaxLines /\ snap \in 0..MaxFiles /\ stops \in Nat /\ closed \in BOOLEAN
          /\ seen \in 0..MaxFiles /\ got \in 0..MaxFiles /\ active \in 0..MaxFiles
      <3>1. /\ lines = 0 /\ snap = 0 /\ stops = 0
            /\ seen = 0 /\ got = 0 /\ active = 0
        BY Zenon DEF Init
      <3>2. closed \in BOOLEAN
        BY Zenon DEF Init
      <3> QED BY <3>1, <3>2, SidecarAssumption
    <2>5. sig = "none" /\ exited = "no" /\ unread = {}
      BY DEF Init
    <2> QED BY <2>1, <2>2, <2>3, <2>4, <2>5 DEF ControlOK
  <1>2. OutputKept
    <2>1. << >> \in Seq(Chunks) /\ Len(<< >>) = 0 /\ << >> \o << >> = << >>
      BY EmptySeq, ConcatEmptySeq
    <2> QED BY <1>1, <2>1, SidecarAssumption DEF Init, OutputKept, TypeOK, ControlOK
  <1>3. CloseInv
    BY DEF Init, CloseInv, Goroutines
  <1>4. LineInv /\ OneConfigPerLine
    <2>1. DOMAIN produced = {} /\ at # "scan"
      BY DEF Init, FirstInput
    <2> QED BY <2>1 DEF LineInv, OneConfigPerLine
  <1> QED BY <1>2, <1>3, <1>4 DEF IInv

LEMMA NextInv == IInv /\ [Next]_vars => IInv'
  <1> SUFFICES ASSUME IInv, [Next]_vars PROVE IInv'
    OBVIOUS
  <1>1. CASE Main
    <2>1. CASE FileCreated \/ WaitInterrupted \/ InputOpens \/ OpenFails \/ InputEnds
      BY <2>1, QuietInput
    <2>2. CASE ReadLine \/ ScanPart
      BY <2>2, ReadStep, ScanStep
    <2>3. CASE WriteLine \/ ScanPanics \/ LineTooLong
      BY <2>3, WriteLineStep, PanicStep, TooLongStep
    <2>4. CASE FlushMarker \/ FlushOverflow
      BY <2>4, OtherFlushes
    <2> QED BY <1>1, <2>1, <2>2, <2>3, <2>4 DEF Main
  <1>2. CASE \E g \in Goroutines : Shutdown(g)
    BY <1>2, CloseStep, QuietShutdown DEF Shutdown
  <1>3. CASE Timer
    BY <1>3, QuietTimer, OtherFlushes DEF Timer
  <1>4. CASE Signal \/ HandleSignal
    BY <1>4, QuietSignal
  <1>5. CASE Reloader \/ \E kind \in {"missing", "bad", "ok"} : FileChanges(kind)
    BY <1>5, QuietReload
  <1>6. CASE UNCHANGED vars
    <2>1. ControlOK' /\ CloseInv'
      BY <1>6 DEF IInv, OutputKept, TypeOK, ControlOK, CloseInv, vars, scanVars, ioVars, closeVars,
                  policyVars
    <2> QED BY <1>6, <2>1, Quiet DEF vars
  <1> QED BY <1>1, <1>2, <1>3, <1>4, <1>5, <1>6 DEF Next

\* The inductive invariant of the sidecar's goroutines.
THEOREM Invariant == Spec => []IInv
  BY InitInv, NextInv, PTL DEF Spec

\* Standard output followed by the buffer is everything that was written, in
\* order, whatever the timer and two shutdowns do, for any size of lines and
\* buffer (outputWriter).
THEOREM OutputKeptHolds == Spec => []OutputKept
  <1>1. IInv => OutputKept BY DEF IInv
  <1> QED BY <1>1, Invariant, PTL

\* A process that ended in finalize left nothing in the buffer, and the stop
\* channel is closed at most once (outputWriter.Close).
THEOREM FlushedOnExitHolds == Spec => []FlushedOnExit
  <1>1. IInv => FlushedOnExit BY DEF IInv, CloseInv, FlushedOnExit
  <1> QED BY <1>1, Invariant, PTL

\* However many reloads happen, a line is scanned under one config
\* (configState, ScanAndRedact).
THEOREM OneConfigHolds == Spec => []OneConfigPerLine
  <1>1. IInv => OneConfigPerLine BY DEF IInv
  <1> QED BY <1>1, Invariant, PTL

------------------------------------------------------------------------------
(* From token to token: SegmentScan.                                       *)

\* What the flags that can force a token say of the tokens just read.
FlagsExplained(s, p) ==
    LET n == Len(p) IN
    /\ n >= 1 =>
        /\ Has(s, "pendingKeySensitive") => Cause(p[n])
        /\ Has(s, "prevSensitive") => Cause(p[n])
        /\ Has(s, "prevStrongSecretWord") => Cause(p[n])
        /\ Has(s, "pendingSessionKey") => Cause(p[n])
        /\ Has(s, "pendingBearer") => Cause(p[n]) \/ Is(p[n], "bearer")
        /\ Has(s, "bearerAfterKey") => Cause(p[n]) \/ Is(p[n], "bearer")
    /\ n >= 2 =>
        /\ Has(s, "sepAfterSensitiveKey") => p[n].form = "sep" /\ Cause(p[n - 1])
        /\ Has(s, "pendingAfterCopula") => Carries(p[n]) /\ Cause(p[n - 1])
    /\ n >= 3 /\ (Has(s, "pendingBasic") \/ Has(s, "pendingScheme")) =>
            \/ Cause(p[n])
            \/ IsScheme(p[n]) /\ Cause(p[n - 1])
            \/ IsScheme(p[n]) /\ p[n - 1].form = "sep" /\ Cause(p[n - 2])

\* The inductive invariant behind ForceIsSpent.
ScanInv == ScanTypeOK /\ FlagsExplained(state, past) /\ ForceIsSpent
-----------------------------------------------------------------------------

\* AfterToken, flag by flag, for the flags that the properties speak of.
LEMMA FlagsAfterToken ==
    ASSUME NEW s, NEW t
    PROVE  LET f == AfterToken(s, t) IN
           /\ Has(f, "pendingKeySensitive") => IsKey(s, t)
           /\ Has(f, "prevSensitive") => Is(t, "sensitive") \/ Is(t, "sensitiveValue")
           /\ Has(f, "prevStrongSecretWord") => IsKey(s, t)
           /\ Has(f, "pendingSessionKey") => Is(t, "sessionKey") \/ IsSchemePair(t)
           /\ Has(f, "pendingBearer") => Is(t, "bearer") \/ IsSchemePair(t)
           /\ Has(f, "bearerAfterKey") => Is(t, "bearer") \/ IsSchemePair(t)
           /\ Has(f, "pendingBasic") => (Is(t, "basic") /\ SchemeSlot(s)) \/ IsSchemePair(t)
           /\ Has(f, "pendingScheme") => Is(t, "schemeWord") /\ SchemeSlot(s)
           /\ Has(f, "sepAfterSensitiveKey") =>
                t.form = "sep" /\ (Has(s, "pendingKeySensitive") \/ Has(s, "prevSensitive"))
           /\ Has(f, "pendingAfterCopula") => AfterCopula(s, t)
<1>1. CASE IsSchemePair(t)
  BY <1>1 DEF AfterToken, AfterSchemePair, Has
<1>2. CASE ~IsSchemePair(t)
  BY <1>2 DEF AfterToken, AfterWord, Flag, Has
<1> QED BY <1>1, <1>2

\* The state stays a set of flags.
LEMMA AfterTokenType ==
    ASSUME NEW s \in SUBSET Flags, NEW t
    PROVE  AfterToken(s, t) \subseteq Flags
<1>1. CASE IsSchemePair(t)
  BY <1>1 DEF AfterToken, AfterSchemePair, Flags
<1>2. CASE ~IsSchemePair(t)
  BY <1>2 DEF AfterToken, AfterWord, Flag, Flags
<1> QED BY <1>1, <1>2

\* Only a token that can put a force is reported as a key, or is a scheme pair.
LEMMA KeyIsCause ==
    ASSUME NEW s, NEW t
    PROVE  /\ IsKey(s, t) => Cause(t)
           /\ IsSchemePair(t) => Cause(t)
           /\ Is(t, "sensitive") \/ Is(t, "sensitiveValue") \/ Is(t, "sessionKey") => Cause(t)
           /\ Is(t, "basic") \/ Is(t, "schemeWord") => IsScheme(t)
BY DEF IsKey, Override, IsSchemePair, Is, Cause, IsScheme

\* Reading a token moves the remembered ones one place back; the oldest is
\* dropped when there are Memory of them.
LEMMA RememberShifts ==
    ASSUME ScanTypeOK, NEW t \in Tokens
    PROVE  LET p == Remember(t)
               d == Len(past) + 1 - Len(p)
           IN  /\ p \in Seq(Tokens) /\ Len(p) \in 1 .. Memory /\ d \in {0, 1}
               /\ p[Len(p)] = t
               /\ \A j \in 1 .. Len(p) - 1 : j + d \in 1 .. Len(past) /\ p[j] = past[j + d]
<1> USE LengthAssumption DEF ScanTypeOK
<1>1. CASE Len(past) < Memory
  BY <1>1 DEF Remember
<1>2. CASE Len(past) = Memory
  <2>1. Remember(t) = Append(Tail(past), t)
    BY <1>2 DEF Remember
  <2>2. /\ Tail(past) \in Seq(Tokens) /\ Len(Tail(past)) = Memory - 1
        /\ \A i \in 1 .. Memory - 1 : Tail(past)[i] = past[i + 1]
    BY <1>2
  <2> QED BY <1>2, <2>1, <2>2
<1>3. Len(past) < Memory \/ Len(past) = Memory
  OBVIOUS
<1> QED BY <1>1, <1>2, <1>3, Zenon

\* The same, counted from the end.
LEMMA RememberBack ==
    ASSUME ScanTypeOK, NEW t \in Tokens
    PROVE  LET p == Remember(t) IN
           \A k \in 1 .. Len(p) - 1 : Len(past) >= k /\ p[Len(p) - k] = past[Len(past) - k + 1]
<1> DEFINE p == Remember(t)
           d == Len(past) + 1 - Len(p)
<1> SUFFICES ASSUME NEW k \in 1 .. Len(p) - 1
             PROVE  Len(past) >= k /\ p[Len(p) - k] = past[Len(past) - k + 1]
  OBVIOUS
<1>1. Len(past) \in Nat /\ Len(p) \in Nat /\ d \in {0, 1}
  <2>1. Len(past) \in Nat
    BY DEF ScanTypeOK
  <2>2. Len(p) \in 1 .. Memory /\ d \in {0, 1}
    BY RememberShifts
  <2> QED BY <2>1, <2>2, LengthAssumption
<1>2. Len(p) - k \in 1 .. Len(p) - 1
  BY <1>1
<1>3. (Len(p) - k) + d \in 1 .. Len(past) /\ p[Len(p) - k] = past[(Len(p) - k) + d]
  BY <1>2, RememberShifts
<1>4. (Len(p) - k) + d = Len(past) - k + 1
  BY <1>1
<1> QED BY <1>1, <1>3, <1>4
-----------------------------------------------------------------------------

\* A token that is forced stands close behind the cause.
LEMMA ForcedIsExplained ==
    ASSUME ScanTypeOK, FlagsExplained(state, past), Len(past) >= 3, NEW t \in Tokens, Forced(state, t)
    PROVE  LET n == Len(past) IN
           \/ Cause(past[n]) \/ Is(past[n], "bearer")
           \/ Cause(past[n - 1]) /\ Carries(past[n])
           \/ Cause(past[n - 2]) /\ past[n - 1].form = "sep" /\ IsScheme(past[n])
<1>1. Len(past) \in Nat
  BY DEF ScanTypeOK
<1>2. IsScheme(past[Len(past)]) => Carries(past[Len(past)])
  BY DEF Carries
<1>3. \/ Has(state, "pendingKeySensitive") \/ Has(state, "pendingBearer")
      \/ Has(state, "bearerAfterKey") \/ Has(state, "pendingBasic")
      \/ Has(state, "pendingScheme") \/ Has(state, "pendingSessionKey")
      \/ Has(state, "pendingAfterCopula")
  BY DEF Forced, KeyForces, SchemeCredential
<1> QED BY <1>1, <1>2, <1>3 DEF FlagsExplained

\* A word that is kept on its own is hidden only by a force.
LEMMA HiddenIsForced ==
    ASSUME NEW s, NEW t, t.form = "word", HiddenHere(s, t), ~ScoredHidden(t, TRUE)
    PROVE  Forced(s, t)
BY DEF HiddenHere, Hidden, IsWhole, ScoredHidden

\* Reading a token keeps FlagsExplained.
LEMMA TokenKeepsFlags ==
    ASSUME ScanTypeOK, FlagsExplained(state, past), NEW t \in Tokens
    PROVE  FlagsExplained(AfterToken(state, t), Remember(t))
<1> DEFINE f == AfterToken(state, t)
           p == Remember(t)
           n == Len(p)
           m == Len(past)
<1>1. n \in Nat /\ m \in Nat /\ n >= 1 /\ p[n] = t
  <2>1. m \in Nat
    BY DEF ScanTypeOK
  <2>2. n \in 1 .. Memory /\ p[n] = t
    BY RememberShifts
  <2> QED BY <2>1, <2>2, LengthAssumption
<1>2. n >= 2 => m >= 1 /\ p[n - 1] = past[m]
  <2> SUFFICES ASSUME n >= 2 PROVE m >= 1 /\ p[n - 1] = past[m] OBVIOUS
  <2>1. 1 \in 1 .. n - 1 /\ m - 1 + 1 = m
    BY <1>1
  <2> QED BY <2>1, RememberBack
<1>3. n >= 3 => m >= 2 /\ p[n - 2] = past[m - 1]
  <2> SUFFICES ASSUME n >= 3 PROVE m >= 2 /\ p[n - 2] = past[m - 1] OBVIOUS
  <2>1. 2 \in 1 .. n - 1 /\ m - 2 + 1 = m - 1
    BY <1>1
  <2> QED BY <2>1, RememberBack
<1>4. /\ Has(f, "pendingKeySensitive") => Cause(t)
      /\ Has(f, "prevSensitive") => Cause(t)
      /\ Has(f, "prevStrongSecretWord") => Cause(t)
      /\ Has(f, "pendingSessionKey") => Cause(t)
      /\ Has(f, "pendingBearer") => Cause(t) \/ Is(t, "bearer")
      /\ Has(f, "bearerAfterKey") => Cause(t) \/ Is(t, "bearer")
  BY FlagsAfterToken, KeyIsCause
<1>5. ASSUME n >= 2
      PROVE  /\ Has(f, "sepAfterSensitiveKey") => t.form = "sep" /\ Cause(past[m])
             /\ Has(f, "pendingAfterCopula") => Carries(t) /\ Cause(past[m])
  BY <1>2, <1>5, FlagsAfterToken DEF FlagsExplained, AfterCopula, Carries
<1>6. ASSUME n >= 3, Has(f, "pendingBasic") \/ Has(f, "pendingScheme")
      PROVE  \/ Cause(t)
             \/ IsScheme(t) /\ Cause(past[m])
             \/ IsScheme(t) /\ past[m].form = "sep" /\ Cause(past[m - 1])
  <2>1. Cause(t) \/ (IsScheme(t) /\ SchemeSlot(state))
    BY <1>6, FlagsAfterToken, KeyIsCause
  <2>2. SchemeSlot(state) => Cause(past[m]) \/ (past[m].form = "sep" /\ Cause(past[m - 1]))
    BY <1>1, <1>3, <1>6 DEF SchemeSlot, FlagsExplained
  <2> QED BY <2>1, <2>2
<1> QED BY <1>1, <1>2, <1>3, <1>4, <1>5, <1>6 DEF FlagsExplained

\* Reading a token keeps ForceIsSpent.
LEMMA TokenKeepsForceIsSpent ==
    ASSUME ScanInv, NEW t \in Tokens, ScanToken(t)
    PROVE  ForceIsSpent'
<1> DEFINE n == Len(past')
           m == Len(past)
<1> SUFFICES ASSUME n = Memory, Memory > 3, hidden', past'[n - 0].form = "word",
                    ~ScoredHidden(past'[n - 0], TRUE)
             PROVE  \/ Cause(past'[n - 1]) \/ Is(past'[n - 1], "bearer")
                    \/ Cause(past'[n - 2]) /\ Carries(past'[n - 1])
                    \/ Cause(past'[n - 3]) /\ past'[n - 2].form = "sep" /\ IsScheme(past'[n - 1])
  BY DEF ForceIsSpent, Back
<1>1. n \in Nat /\ m \in Nat /\ past'[n] = t /\ n - 0 = n
  BY RememberShifts, LengthAssumption DEF ScanInv, ScanTypeOK, ScanToken
<1>2. \A k \in 1 .. n - 1 : m >= k /\ past'[n - k] = past[m - k + 1]
  BY RememberBack DEF ScanInv, ScanToken
<1>3. m >= 3 /\ past'[n - 1] = past[m] /\ past'[n - 2] = past[m - 1] /\ past'[n - 3] = past[m - 2]
  <2>1. 1 \in 1 .. n - 1 /\ 2 \in 1 .. n - 1 /\ 3 \in 1 .. n - 1
    BY <1>1
  <2>2. m - 1 + 1 = m /\ m - 2 + 1 = m - 1 /\ m - 3 + 1 = m - 2
    BY <1>1
  <2> QED BY <1>2, <2>1, <2>2
<1>4. Forced(state, t)
  BY <1>1, HiddenIsForced DEF ScanToken
<1> QED BY <1>3, <1>4, ForcedIsExplained DEF ScanInv

\* ScanInv holds before the first token.
LEMMA ScanInvStart == ScanInit => ScanInv
<1> SUFFICES ASSUME ScanInit PROVE ScanInv
  OBVIOUS
<1>1. past \in Seq(Tokens) /\ Len(past) = 0 /\ hidden = FALSE /\ state = {}
  BY DEF ScanInit
<1>2. ScanTypeOK
  <2>1. Len(past) <= Memory
    BY <1>1, LengthAssumption
  <2>2. hidden \in BOOLEAN
    BY <1>1
  <2> QED BY <1>1, <2>1, <2>2 DEF ScanTypeOK
<1>3. FlagsExplained(state, past)
  BY <1>1 DEF FlagsExplained
<1>4. ForceIsSpent
  BY <1>1 DEF ForceIsSpent
<1> QED BY <1>2, <1>3, <1>4 DEF ScanInv

\* Every step keeps ScanInv.
LEMMA ScanInvStep == ScanInv /\ [ScanNext]_segmentVars => ScanInv'
<1> SUFFICES ASSUME ScanInv, [ScanNext]_segmentVars PROVE ScanInv'
  OBVIOUS
<1>1. ASSUME NEW t \in Tokens, ScanToken(t) PROVE ScanInv'
  <2>1. state' \subseteq Flags
    BY <1>1, AfterTokenType DEF ScanInv, ScanTypeOK, ScanToken
  <2>2. past' \in Seq(Tokens) /\ Len(past') <= Memory
    BY <1>1, RememberShifts, LengthAssumption DEF ScanInv, ScanToken
  <2>3. hidden' \in BOOLEAN
    BY <1>1 DEF ScanToken, HiddenHere
  <2>4. FlagsExplained(state', past')
    BY <1>1, TokenKeepsFlags DEF ScanInv, ScanToken
  <2>5. ForceIsSpent'
    BY <1>1, TokenKeepsForceIsSpent
  <2> QED BY <2>1, <2>2, <2>3, <2>4, <2>5 DEF ScanInv, ScanTypeOK
<1>2. ASSUME ScanMarker PROVE ScanInv'
  <2>1. state' \subseteq Flags
    BY <1>2 DEF ScanInv, ScanTypeOK, ScanMarker, AfterMarker, Flags
  <2>2. past' \in Seq(Tokens) /\ hidden' = FALSE /\ Len(past') = 0
    BY <1>2 DEF ScanMarker
  <2>3. ScanTypeOK'
    <3>1. Len(past') <= Memory
      BY <2>2, LengthAssumption
    <3>2. hidden' \in BOOLEAN
      BY <2>2
    <3> QED BY <2>1, <2>2, <3>1, <3>2 DEF ScanTypeOK
  <2>4. FlagsExplained(state, past)'
    BY <2>2 DEF FlagsExplained
  <2>5. ForceIsSpent'
    BY <2>2 DEF ForceIsSpent
  <2> QED BY <2>3, <2>4, <2>5 DEF ScanInv
<1>3. ASSUME NEW bracket \in BOOLEAN, ScanSeparator(bracket) PROVE ScanInv'
  <2>1. state' \subseteq Flags /\ past' = past /\ hidden' = hidden
    BY <1>3 DEF ScanInv, ScanTypeOK, ScanSeparator, AfterSeparator, Flag, Flags
  <2>2. \A f \in Flags : f # "bracketAfterContext" /\ Has(state', f) => Has(state, f)
    BY <1>3 DEF ScanSeparator, AfterSeparator, Flag, Has
  <2>3. FlagsExplained(state', past')
    BY <2>1, <2>2 DEF ScanInv, FlagsExplained, Flags
  <2>4. ForceIsSpent'
    BY <2>1 DEF ScanInv, ForceIsSpent, Back
  <2> QED BY <2>1, <2>3, <2>4 DEF ScanInv, ScanTypeOK
<1>4. ASSUME UNCHANGED segmentVars PROVE ScanInv'
  BY <1>4 DEF ScanInv, ScanTypeOK, ForceIsSpent, Back, segmentVars
<1> QED BY <1>1, <1>2, <1>3, <1>4 DEF ScanNext

\* The flags, the remembered tokens and the outcome keep their types.
THEOREM ScanTypeCorrect == ScanSpec => []ScanTypeOK
<1>1. ScanInv => ScanTypeOK
  BY DEF ScanInv
<1> QED BY <1>1, ScanInvStart, ScanInvStep, PTL DEF ScanSpec

\* processAndAppend spends every force: a word kept on its own is hidden only
\* close behind what caused it.
THEOREM ForceSpent == ScanSpec => []ForceIsSpent
<1>1. ScanInv => ForceIsSpent
  BY DEF ScanInv
<1> QED BY <1>1, ScanInvStart, ScanInvStep, PTL DEF ScanSpec
-----------------------------------------------------------------------------
\* The place k is the value slot of a sensitive key.
Slotted(p, k) ==
    \/ p[k].form = "colon" /\ Is(p[k], "sensitive")
    \/ p[k].form = "sep" /\ Is(p[k - 1], "sensitive") /\ p[k - 1].form # "pair"

\* What the tokens just read say of the flags.
FlagsRaised(s, p) ==
    LET n == Len(p) IN
    /\ Has(s, "afterMarker") => n = 0
    /\ n >= 1 =>
        /\ p[n].form = "word" => ~Has(s, "pendingHashKey")
        /\ Is(p[n], "sensitive") /\ p[n].form # "pair" => Has(s, "prevSensitive")
        /\ p[n].form = "colon" /\ Is(p[n], "generic") =>
              Has(s, "pendingGenericKey") /\ Has(s, "isInValuePos")
    /\ n >= 2 => (Slotted(p, n) => SchemeSlot(s))
    /\ n >= 3 => (p[n].form = "word" /\ IsScheme(p[n]) /\ Slotted(p, n - 1) =>
                      Has(s, "pendingBearer") \/ Has(s, "pendingBasic") \/ Has(s, "pendingScheme"))

\* What stands in the line since name=password or name: password keeps the flag.
ValueAwaited(s, p) ==
    \A i \in 1 .. Len(p) :
        Arms(p, i) /\ (\A j \in i + 1 .. Len(p) : PassesBy(p[j])) => Has(s, "nextValueIsSensitive")

\* The inductive invariant behind CredentialHidden and GenericValueHidden.
HideInv ==
    /\ ScanTypeOK /\ FlagsRaised(state, past) /\ ValueAwaited(state, past)
    /\ CredentialHidden /\ GenericValueHidden

\* AfterToken, flag by flag, the other way round.
LEMMA FlagsSetByToken ==
    ASSUME NEW s, NEW t, ~IsSchemePair(t)
    PROVE  LET f == AfterToken(s, t) IN
           /\ ~Has(f, "afterMarker")
           /\ ~IsName(t) => ~Has(f, "pendingHashKey")
           /\ Is(t, "sensitive") => Has(f, "prevSensitive")
           /\ IsName(t) => Has(f, "isInValuePos")
           /\ PendingGenericKey(s, t) => Has(f, "pendingGenericKey")
           /\ IsKey(s, t) => Has(f, "pendingKeySensitive")
           /\ t.form = "sep" /\ Has(s, "prevSensitive") => Has(f, "sepAfterSensitiveKey")
           /\ Is(t, "bearer") => Has(f, "pendingBearer")
           /\ Is(t, "basic") /\ SchemeSlot(s) => Has(f, "pendingBasic")
           /\ Is(t, "schemeWord") /\ SchemeSlot(s) => Has(f, "pendingScheme")
           /\ Armed(s, t) => Has(f, "nextValueIsSensitive")
BY DEF AfterToken, AfterWord, Flag, Has

\* A scheme pair is a pair, ends afterMarker and keeps nextValueIsSensitive.
LEMMA FlagsSetBySchemePair ==
    ASSUME NEW s, NEW t, IsSchemePair(t)
    PROVE  /\ t.form = "pair"
           /\ ~Has(AfterToken(s, t), "afterMarker")
           /\ Has(s, "nextValueIsSensitive") => Has(AfterToken(s, t), "nextValueIsSensitive")
BY DEF AfterToken, AfterSchemePair, IsSchemePair, Has

\* A sensitive name with its colon is a key, when the token is not glued to a marker.
LEMMA ColonIsKey ==
    ASSUME NEW s, NEW t, t.form = "colon", Is(t, "sensitive"), ~Has(s, "afterMarker")
    PROVE  IsKey(s, t)
BY DEF IsKey, IsKept, IsShortHash, IsWhole, IsName

\* Reading a token keeps FlagsRaised.
LEMMA TokenKeepsRaised ==
    ASSUME ScanTypeOK, FlagsRaised(state, past), NEW t \in Tokens
    PROVE  FlagsRaised(AfterToken(state, t), Remember(t))
<1> DEFINE f == AfterToken(state, t)
           p == Remember(t)
           n == Len(p)
           m == Len(past)
<1>1. n \in Nat /\ m \in Nat /\ n >= 1 /\ p[n] = t
  <2>1. m \in Nat
    BY DEF ScanTypeOK
  <2>2. n \in 1 .. Memory /\ p[n] = t
    BY RememberShifts
  <2> QED BY <2>1, <2>2, LengthAssumption
<1>2. n >= 2 => m >= 1 /\ p[n - 1] = past[m]
  <2> SUFFICES ASSUME n >= 2 PROVE m >= 1 /\ p[n - 1] = past[m] OBVIOUS
  <2>1. 1 \in 1 .. n - 1 /\ m - 1 + 1 = m
    BY <1>1
  <2> QED BY <2>1, RememberBack
<1>3. n >= 3 => m >= 2 /\ p[n - 2] = past[m - 1]
  <2> SUFFICES ASSUME n >= 3 PROVE m >= 2 /\ p[n - 2] = past[m - 1] OBVIOUS
  <2>1. 2 \in 1 .. n - 1 /\ m - 2 + 1 = m - 1
    BY <1>1
  <2> QED BY <2>1, RememberBack
<1>4. ~Has(f, "afterMarker")
  BY FlagsSetByToken, FlagsSetBySchemePair
<1>5. /\ t.form = "word" => ~Has(f, "pendingHashKey")
      /\ Is(t, "sensitive") /\ t.form # "pair" => Has(f, "prevSensitive")
      /\ t.form = "colon" /\ Is(t, "generic") => Has(f, "pendingGenericKey") /\ Has(f, "isInValuePos")
  BY FlagsSetByToken, FlagsSetBySchemePair DEF IsName, PendingGenericKey
<1>6. ASSUME n >= 2, Slotted(p, n)
      PROVE  SchemeSlot(f)
  <2>1. CASE t.form = "colon" /\ Is(t, "sensitive")
    BY <1>1, <1>2, <1>6, <2>1, ColonIsKey, FlagsSetByToken, FlagsSetBySchemePair
       DEF FlagsRaised, SchemeSlot
  <2>2. CASE t.form = "sep" /\ Is(past[m], "sensitive") /\ past[m].form # "pair"
    BY <1>1, <1>2, <1>6, <2>2, FlagsSetByToken, FlagsSetBySchemePair DEF FlagsRaised, SchemeSlot
  <2> QED BY <1>1, <1>2, <1>6, <2>1, <2>2 DEF Slotted
<1>7. ASSUME n >= 3, t.form = "word", IsScheme(t), Slotted(p, n - 1)
      PROVE  Has(f, "pendingBearer") \/ Has(f, "pendingBasic") \/ Has(f, "pendingScheme")
  <2>1. n >= 2 /\ (n - 1) - 1 = n - 2
    BY <1>1, <1>7
  <2>2. Slotted(past, m)
    BY <1>2, <1>3, <1>7, <2>1 DEF Slotted
  <2>3. SchemeSlot(state)
    BY <1>1, <1>3, <1>7, <2>2 DEF FlagsRaised
  <2>4. Is(t, "bearer") \/ Is(t, "basic") \/ Is(t, "schemeWord")
    BY <1>7 DEF IsScheme, Is
  <2> QED BY <1>7, <2>3, <2>4, FlagsSetByToken, FlagsSetBySchemePair
<1> QED BY <1>1, <1>4, <1>5, <1>6, <1>7 DEF FlagsRaised

\* A token that passes by keeps nextValueIsSensitive.
LEMMA PassingKeepsAwaited ==
    ASSUME NEW s, NEW t, PassesBy(t), Has(s, "nextValueIsSensitive")
    PROVE  Has(AfterToken(s, t), "nextValueIsSensitive")
<1>1. ~Override(s, t)
  BY DEF Override, PassesBy
<1>2. ~IsKey(s, t)
  BY <1>1 DEF IsKey, IsWhole, IsName, PassesBy
<1> QED BY <1>1, <1>2, FlagsSetByToken, FlagsSetBySchemePair DEF Armed

\* What arms the flag, and what passes by since, is found one place further back.
LEMMA ArmsShift ==
    ASSUME ScanTypeOK, NEW t \in Tokens, NEW i \in 1 .. Len(Remember(t)) - 1, Arms(Remember(t), i),
           \A j \in i + 1 .. Len(Remember(t)) - 1 : PassesBy(Remember(t)[j])
    PROVE  \E k \in 1 .. Len(past) : Arms(past, k) /\ \A j \in k + 1 .. Len(past) : PassesBy(past[j])
<1> DEFINE p == Remember(t)
           n == Len(p)
           m == Len(past)
           d == m + 1 - n
<1>1. n \in Nat /\ m \in Nat /\ d \in {0, 1}
  <2>1. m \in Nat
    BY DEF ScanTypeOK
  <2>2. n \in 1 .. Memory /\ d \in {0, 1}
    BY RememberShifts
  <2> QED BY <2>1, <2>2, LengthAssumption
<1>2. \A j \in 1 .. n - 1 : j + d \in 1 .. m /\ p[j] = past[j + d]
  BY RememberShifts
<1>3. i + d \in 1 .. m /\ p[i] = past[i + d]
  BY <1>2
<1>4. Arms(past, i + d)
  <2>1. i > 1 => p[i - 1] = past[(i + d) - 1]
    <3> SUFFICES ASSUME i > 1 PROVE p[i - 1] = past[(i + d) - 1] OBVIOUS
    <3>1. i - 1 \in 1 .. n - 1 /\ (i - 1) + d = (i + d) - 1
      BY <1>1
    <3> QED BY <1>2, <3>1
  <2>2. i > 1 => i + d > 1
    BY <1>1
  <2> QED BY <1>3, <2>1, <2>2 DEF Arms
<1>5. ASSUME NEW j \in (i + d) + 1 .. m PROVE PassesBy(past[j])
  <2>1. j - d \in i + 1 .. n - 1 /\ j - d \in 1 .. n - 1 /\ (j - d) + d = j
    BY <1>1, <1>5
  <2> QED BY <1>2, <2>1
<1> QED BY <1>3, <1>4, <1>5

\* Reading a token keeps ValueAwaited.
LEMMA TokenKeepsAwaited ==
    ASSUME ScanTypeOK, FlagsRaised(state, past), ValueAwaited(state, past), NEW t \in Tokens
    PROVE  ValueAwaited(AfterToken(state, t), Remember(t))
<1> DEFINE p == Remember(t)
           n == Len(p)
           m == Len(past)
<1> SUFFICES ASSUME NEW i \in 1 .. n, Arms(p, i), \A j \in i + 1 .. n : PassesBy(p[j])
             PROVE  Has(AfterToken(state, t), "nextValueIsSensitive")
  BY DEF ValueAwaited
<1>1. n \in Nat /\ m \in Nat /\ n >= 1 /\ p[n] = t
  <2>1. m \in Nat
    BY DEF ScanTypeOK
  <2>2. n \in 1 .. Memory /\ p[n] = t
    BY RememberShifts
  <2> QED BY <2>1, <2>2, LengthAssumption
<1>2. CASE i = n
  <2>1. CASE t.form = "pair" /\ {"generic", "sensitiveValue"} \subseteq t.is /\ ~IsSchemePair(t)
    <3>1. ~IsKey(state, t)
      BY <2>1 DEF IsKey, IsWhole, IsName
    <3> QED BY <2>1, <3>1, FlagsSetByToken DEF Armed, Is
  <2>2. CASE /\ n > 1 /\ t.form = "word" /\ Is(t, "sensitive")
             /\ p[n - 1].form = "colon" /\ Is(p[n - 1], "generic")
    <3>1. m >= 1 /\ p[n - 1] = past[m]
      <4>1. 1 \in 1 .. n - 1 /\ m - 1 + 1 = m
        BY <1>1, <2>2
      <4> QED BY <4>1, RememberBack
    <3>2. Has(state, "pendingGenericKey") /\ Has(state, "isInValuePos")
      BY <1>1, <2>2, <3>1 DEF FlagsRaised
    <3>3. ~IsKey(state, t) /\ ~IsSchemePair(t)
      BY <2>2, <3>2 DEF IsKey, IsWhole, IsSchemePair
    <3> QED BY <2>2, <3>2, <3>3, FlagsSetByToken DEF Armed
  <2> QED BY <1>1, <1>2, <2>1, <2>2 DEF Arms
<1>3. CASE i < n
  <2>1. i \in 1 .. n - 1 /\ n \in i + 1 .. n /\ \A j \in i + 1 .. n - 1 : j \in i + 1 .. n
    BY <1>1, <1>3
  <2>2. PassesBy(t)
    BY <1>1, <2>1
  <2>3. \E k \in 1 .. m : Arms(past, k) /\ \A j \in k + 1 .. m : PassesBy(past[j])
    BY <2>1, ArmsShift
  <2>4. Has(state, "nextValueIsSensitive")
    BY <2>3 DEF ValueAwaited
  <2> QED BY <2>2, <2>4, PassingKeepsAwaited
<1> QED BY <1>1, <1>2, <1>3

\* A credential in a scheme's slot is hidden.
LEMMA CredentialIsHidden ==
    ASSUME NEW s, NEW t \in Tokens, t.form = "word",
           t.len >= minBearerCredentialLength, t.len >= MinSecretLength,
           {"odd", "base64"} \subseteq t.is, t.is \cap {"letters", "stamp", "safe"} = {},
           Has(s, "pendingBearer") \/ Has(s, "pendingBasic") \/ Has(s, "pendingScheme"),
           ~Has(s, "pendingHashKey"), ~Has(s, "afterMarker")
    PROVE  HiddenHere(s, t)
<1>1. SchemeCredential(s, t)
  BY DEF SchemeCredential, Is
<1>2. IsWhole(s, t) /\ Forced(s, t)
  BY <1>1 DEF IsWhole, Forced
<1>3. ~IsKept(s, t) /\ ~IsKey(s, t) /\ ~Is(t, "safe") /\ ~IsSchemePair(t)
  BY <1>1, <1>2 DEF IsKept, IsShortHash, IsKey, Is, IsSchemePair
<1> QED BY <1>2, <1>3 DEF HiddenHere, Hidden

\* The pair that carries the awaited value is hidden.
LEMMA ValueIsHidden ==
    ASSUME NEW s, NEW t, t.form = "pair", Is(t, "genericValue"),
           t.is \cap {"hashKey", "safe"} = {}, ~IsSchemePair(t),
           Has(s, "nextValueIsSensitive"), ~Has(s, "afterMarker")
    PROVE  HiddenHere(s, t)
<1>1. Override(s, t)
  BY DEF Override
<1>2. ~IsKept(s, t) /\ ~IsKey(s, t) /\ ~Is(t, "safe")
  BY DEF IsKept, IsShortHash, IsKey, IsWhole, IsName, Is
<1> QED BY <1>1, <1>2 DEF HiddenHere, Hidden

\* Reading a token keeps CredentialHidden.
LEMMA TokenKeepsCredentialHidden ==
    ASSUME HideInv, NEW t \in Tokens, ScanToken(t)
    PROVE  CredentialHidden'
<1> DEFINE n == Len(past')
           m == Len(past)
<1> SUFFICES ASSUME n > 3, past'[n - 0].form = "word",
                    past'[n - 0].len >= minBearerCredentialLength, past'[n - 0].len >= MinSecretLength,
                    {"odd", "base64"} \subseteq past'[n - 0].is,
                    past'[n - 0].is \cap {"letters", "stamp", "safe"} = {},
                    past'[n - 1].form = "word", IsScheme(past'[n - 1]),
                    \/ past'[n - 2].form = "colon" /\ Is(past'[n - 2], "sensitive")
                    \/ past'[n - 2].form = "sep" /\ Is(past'[n - 3], "sensitive") /\ past'[n - 3].form # "pair"
             PROVE  hidden'
  BY DEF CredentialHidden, Back
<1>1. n \in Nat /\ m \in Nat /\ past'[n] = t /\ n - 0 = n
  <2>1. m \in Nat
    BY DEF HideInv, ScanTypeOK
  <2>2. n \in 1 .. Memory /\ past'[n] = t
    BY RememberShifts DEF HideInv, ScanToken
  <2> QED BY <2>1, <2>2, LengthAssumption
<1>2. \A k \in 1 .. n - 1 : m >= k /\ past'[n - k] = past[m - k + 1]
  BY RememberBack DEF HideInv, ScanToken
<1>3. m >= 3 /\ past'[n - 1] = past[m] /\ past'[n - 2] = past[m - 1] /\ past'[n - 3] = past[m - 2]
  <2>1. 1 \in 1 .. n - 1 /\ 2 \in 1 .. n - 1 /\ 3 \in 1 .. n - 1
    BY <1>1
  <2>2. m - 1 + 1 = m /\ m - 2 + 1 = m - 1 /\ m - 3 + 1 = m - 2
    BY <1>1
  <2> QED BY <1>2, <2>1, <2>2
<1>4. (m - 1) - 1 = m - 2
  BY <1>1
<1>5. past[m].form = "word" /\ IsScheme(past[m]) /\ Slotted(past, m - 1)
  BY <1>3, <1>4 DEF Slotted
<1>6. /\ Has(state, "pendingBearer") \/ Has(state, "pendingBasic") \/ Has(state, "pendingScheme")
      /\ ~Has(state, "pendingHashKey") /\ ~Has(state, "afterMarker")
  BY <1>1, <1>3, <1>5 DEF HideInv, FlagsRaised
<1>7. HiddenHere(state, t)
  BY <1>1, <1>6, CredentialIsHidden
<1> QED BY <1>7 DEF ScanToken

\* Reading a token keeps GenericValueHidden.
LEMMA TokenKeepsValueHidden ==
    ASSUME HideInv, NEW t \in Tokens, ScanToken(t)
    PROVE  GenericValueHidden'
<1> DEFINE p == Remember(t)
           n == Len(p)
<1>1. past' = p /\ hidden' = HiddenHere(state, t) /\ ScanTypeOK
  BY DEF ScanToken, HideInv
<1>2. n \in Nat /\ p[n - 0] = t
  <2>1. n \in 1 .. Memory /\ p[n] = t
    BY <1>1, RememberShifts
  <2> QED BY <2>1, LengthAssumption
<1>3. ASSUME NEW i \in 1 .. n - 1, Arms(p, i), \A j \in i + 1 .. n - 1 : PassesBy(p[j]),
             t.form = "pair", Is(t, "genericValue"),
             t.is \cap {"hashKey", "safe"} = {}, ~IsSchemePair(t)
      PROVE  HiddenHere(state, t)
  <2>1. PICK k \in 1 .. Len(past) : Arms(past, k) /\ \A j \in k + 1 .. Len(past) : PassesBy(past[j])
    BY <1>1, <1>3, ArmsShift
  <2>2. Has(state, "nextValueIsSensitive")
    BY <2>1 DEF HideInv, ValueAwaited
  <2>3. Len(past) # 0
    BY <2>1
  <2>4. ~Has(state, "afterMarker")
    BY <2>3 DEF HideInv, FlagsRaised
  <2> QED BY <1>3, <2>2, <2>4, ValueIsHidden
<1> QED BY <1>1, <1>2, <1>3 DEF GenericValueHidden, Back

\* HideInv holds before the first token.
LEMMA HideInvStart == ScanInit => HideInv
<1> SUFFICES ASSUME ScanInit PROVE HideInv
  OBVIOUS
<1>1. Len(past) = 0 /\ state = {}
  BY DEF ScanInit
<1>2. ScanTypeOK
  BY ScanInvStart DEF ScanInv
<1>3. FlagsRaised(state, past)
  BY <1>1 DEF FlagsRaised, Has
<1>4. ValueAwaited(state, past) /\ CredentialHidden /\ GenericValueHidden
  BY <1>1 DEF ValueAwaited, CredentialHidden, GenericValueHidden
<1> QED BY <1>2, <1>3, <1>4 DEF HideInv

\* Every step keeps HideInv.
LEMMA HideInvStep == ScanInv /\ HideInv /\ [ScanNext]_segmentVars => HideInv'
<1> SUFFICES ASSUME ScanInv, HideInv, [ScanNext]_segmentVars PROVE HideInv'
  OBVIOUS
<1>0. ScanTypeOK'
  BY ScanInvStep DEF ScanInv
<1>1. ASSUME NEW t \in Tokens, ScanToken(t) PROVE HideInv'
  <2>1. FlagsRaised(state', past')
    BY <1>1, TokenKeepsRaised DEF HideInv, ScanToken
  <2>2. ValueAwaited(state', past')
    BY <1>1, TokenKeepsAwaited DEF HideInv, ScanToken
  <2>3. CredentialHidden' /\ GenericValueHidden'
    BY <1>1, TokenKeepsCredentialHidden, TokenKeepsValueHidden
  <2> QED BY <1>0, <2>1, <2>2, <2>3 DEF HideInv
<1>2. ASSUME ScanMarker PROVE HideInv'
  <2>1. Len(past') = 0
    BY <1>2 DEF ScanMarker
  <2>2. FlagsRaised(state, past)'
    BY <2>1 DEF FlagsRaised
  <2>3. ValueAwaited(state, past)' /\ CredentialHidden' /\ GenericValueHidden'
    BY <2>1 DEF ValueAwaited, CredentialHidden, GenericValueHidden
  <2> QED BY <1>0, <2>2, <2>3 DEF HideInv
<1>3. ASSUME NEW bracket \in BOOLEAN, ScanSeparator(bracket) PROVE HideInv'
  <2>1. past' = past /\ hidden' = hidden
    BY <1>3 DEF ScanSeparator
  <2>2. /\ \A f \in Flags \ {"afterMarker", "bracketAfterContext"} : Has(state', f) <=> Has(state, f)
        /\ ~Has(state', "afterMarker")
    BY <1>3 DEF ScanSeparator, AfterSeparator, Flag, Has
  <2>3. FlagsRaised(state', past')
    BY <2>1, <2>2 DEF HideInv, FlagsRaised, SchemeSlot, Flags
  <2>4. ValueAwaited(state', past')
    BY <2>1, <2>2 DEF HideInv, ValueAwaited, Flags
  <2>5. CredentialHidden' /\ GenericValueHidden'
    BY <2>1 DEF HideInv, CredentialHidden, GenericValueHidden, Back
  <2> QED BY <1>0, <2>3, <2>4, <2>5 DEF HideInv
<1>4. ASSUME UNCHANGED segmentVars PROVE HideInv'
  BY <1>0, <1>4 DEF HideInv, CredentialHidden, GenericValueHidden, Back, segmentVars
<1> QED BY <1>1, <1>2, <1>3, <1>4 DEF ScanNext

\* processAndAppend carries the scheme slot over a separator: a token with the
\* shape of a credential behind a key and a scheme word is hidden.
THEOREM CredentialsHidden == ScanSpec => []CredentialHidden
<1>1. HideInv => CredentialHidden
  BY DEF HideInv
<1> QED BY <1>1, ScanInvStart, ScanInvStep, HideInvStart, HideInvStep, PTL DEF ScanSpec

\* nextValueIsSensitive lasts until the pair that carries the value, whatever
\* passes by, and that pair is hidden.
THEOREM GenericValuesHidden == ScanSpec => []GenericValueHidden
<1>1. HideInv => GenericValueHidden
  BY DEF HideInv
<1> QED BY <1>1, ScanInvStart, ScanInvStep, HideInvStart, HideInvStep, PTL DEF ScanSpec

------------------------------------------------------------------------------
(* The line: LineCarve.  Its loops are recursive functions over the rounds *)
(* they make; what holds after each round is proved by induction, with a   *)
(* set in the place of the predicate.                                      *)

LessRel == OpToRel(<, Nat)

LEMMA LeastOf ==
    ASSUME NEW T, T \subseteq Nat, T # {}
    PROVE  \E n \in T : \A m \in T : n <= m
  <1>0. IsWellFoundedOn(LessRel, Nat)
    BY NatLessThanWellFounded DEF LessRel
  <1>1. PICK x \in T : \A y \in T : ~(<<y, x>> \in LessRel)
    BY <1>0, WFMin
  <1>2. ASSUME NEW m \in T PROVE x <= m
    <2>1. m \in Nat /\ x \in Nat
      OBVIOUS
    <2>2. ~(m < x)
      BY <1>1, <2>1 DEF LessRel, OpToRel
    <2> QED BY <2>1, <2>2
  <1> QED BY <1>2

LEMMA CountUp ==
    ASSUME NEW N \in Nat, NEW B, 0 \in B,
           \A n \in 0..N - 1 : n \in B => n + 1 \in B
    PROVE  0..N \subseteq B
  <1> DEFINE T == (0..N) \ B
  <1> SUFFICES ASSUME T # {} PROVE FALSE
    OBVIOUS
  <1>0. T \subseteq Nat
    OBVIOUS
  <1>1. PICK n \in T : \A m \in T : n <= m
    <2> HIDE DEF T
    <2> QED BY <1>0, LeastOf
  <1>2. n # 0 /\ n - 1 \in 0..N - 1 /\ n - 1 \in 0..N /\ ~(n <= n - 1) /\ n = (n - 1) + 1
    BY <1>1
  <1>3. n - 1 \in B
    BY <1>1, <1>2
  <1> QED BY <1>1, <1>2, <1>3

\* How many lengths and how many starts a window can have.
WindowCount(d, i, r) == Max2(0, Min2(Min2(MaxCard, Len(d) - i + 1), r - i) - MinCard + 1)
Starts(d) == Max2(0, Len(d) - MinCard + 1)
ScanStart(cs) ==
    [chunk |-> 1, inQuote |-> FALSE, written |-> <<>>, pieces |-> <<>>, carves |-> cs]

\* The loop that collects the digits.
DigitsBy(l, N, f) ==
    f = [n \in 0..N |-> IF n = 0 THEN <<>> ELSE DigitNext(l, f[n - 1], n)]

LEMMA DigitsExists ==
    ASSUME NEW l \in Seq(STRING), NEW N \in Nat
    PROVE  \E f : DigitsBy(l, N, f)
  <1> DEFINE B == {n \in 0..N : \E f : DigitsBy(l, n, f)}
  <1>1. 0 \in B
    <2> DEFINE f == [k \in 0..0 |-> <<>>]
    <2>1. DigitsBy(l, 0, f)
      BY DEF DigitsBy
    <2> QED BY <2>1
  <1>2. ASSUME NEW n \in 0..N - 1, n \in B PROVE n + 1 \in B
    <2>1. PICK f : DigitsBy(l, n, f)
      BY <1>2
    <2> DEFINE h == [k \in 0..n + 1 |-> IF k = 0 THEN <<>> ELSE DigitNext(l, f[k - 1], k)]
    <2>2. \A k \in 0..n : h[k] = f[k]
      BY <2>1 DEF DigitsBy
    <2>3. \A k \in 0..n + 1 : k # 0 => h[k - 1] = f[k - 1]
      <3> HIDE DEF h
      <3>1. \A k \in 0..n + 1 : k # 0 => k - 1 \in 0..n
        OBVIOUS
      <3> QED BY <2>2, <3>1
    <2>4. h = [k \in 0..n + 1 |-> IF k = 0 THEN <<>> ELSE DigitNext(l, h[k - 1], k)]
      BY <2>3
    <2>5. DigitsBy(l, n + 1, h) /\ n + 1 \in 0..N
      <3> HIDE DEF h
      <3> QED BY <2>4 DEF DigitsBy
    <2> HIDE DEF h
    <2> QED BY <2>5
  <1>3. N \in B
    <2> HIDE DEF B
    <2>1. \A n \in 0..N - 1 : n \in B => n + 1 \in B
      BY <1>2
    <2>2. 0..N \subseteq B
      BY <1>1, <2>1, CountUp
    <2> QED BY <2>2
  <1> QED BY <1>3

\* f[n] is what the loop holds after n rounds.
DigitsRun(l, f) ==
    /\ f[0] = <<>>
    /\ \A n \in 1..Len(l) : f[n] = DigitNext(l, f[n - 1], n)
    /\ DigitIndices(l) = f[Len(l)]

LEMMA DigitsLoop ==
    ASSUME NEW l \in Seq(STRING)
    PROVE  \E f : DigitsRun(l, f)
  <1> DEFINE f == CHOOSE f : DigitsBy(l, Len(l), f)
  <1>0. Len(l) \in Nat
    OBVIOUS
  <1>1. DigitsBy(l, Len(l), f)
    BY <1>0, DigitsExists
  <1>2. DigitIndices(l) = f[Len(l)]
    BY DEF DigitIndices, DigitsBy
  <1> HIDE DEF f
  <1>3. \A n \in 0..Len(l) : f[n] = IF n = 0 THEN <<>> ELSE DigitNext(l, f[n - 1], n)
    BY <1>1 DEF DigitsBy
  <1>4. f[0] = <<>>
    BY <1>0, <1>3
  <1>5. \A n \in 1..Len(l) : f[n] = DigitNext(l, f[n - 1], n)
    BY <1>0, <1>3
  <1>6. DigitsRun(l, f)
    BY <1>2, <1>4, <1>5 DEF DigitsRun
  <1> QED BY <1>6

\* The loop over the lengths of a window.
WindowsBy(l, d, i, r, N, f) ==
    f = [n \in 0..N |-> IF n = 0 THEN <<>> ELSE WindowNext(l, d, i, f[n - 1], MinCard + n - 1)]

LEMMA WindowsExists ==
    ASSUME NEW l, NEW d, NEW i, NEW r, NEW N \in Nat
    PROVE  \E f : WindowsBy(l, d, i, r, N, f)
  <1> DEFINE B == {n \in 0..N : \E f : WindowsBy(l, d, i, r, n, f)}
  <1>1. 0 \in B
    <2> DEFINE f == [k \in 0..0 |-> <<>>]
    <2>1. WindowsBy(l, d, i, r, 0, f)
      BY DEF WindowsBy
    <2> QED BY <2>1
  <1>2. ASSUME NEW n \in 0..N - 1, n \in B PROVE n + 1 \in B
    <2>1. PICK f : WindowsBy(l, d, i, r, n, f)
      BY <1>2
    <2> DEFINE h == [k \in 0..n + 1 |-> IF k = 0 THEN <<>> ELSE WindowNext(l, d, i, f[k - 1], MinCard + k - 1)]
    <2>2. \A k \in 0..n : h[k] = f[k]
      BY <2>1 DEF WindowsBy
    <2>3. \A k \in 0..n + 1 : k # 0 => h[k - 1] = f[k - 1]
      <3> HIDE DEF h
      <3>1. \A k \in 0..n + 1 : k # 0 => k - 1 \in 0..n
        OBVIOUS
      <3> QED BY <2>2, <3>1
    <2>4. h = [k \in 0..n + 1 |-> IF k = 0 THEN <<>> ELSE WindowNext(l, d, i, h[k - 1], MinCard + k - 1)]
      BY <2>3
    <2>5. WindowsBy(l, d, i, r, n + 1, h) /\ n + 1 \in 0..N
      <3> HIDE DEF h
      <3> QED BY <2>4 DEF WindowsBy
    <2> HIDE DEF h
    <2> QED BY <2>5
  <1>3. N \in B
    <2> HIDE DEF B
    <2>1. \A n \in 0..N - 1 : n \in B => n + 1 \in B
      BY <1>2
    <2>2. 0..N \subseteq B
      BY <1>1, <2>1, CountUp
    <2> QED BY <2>2
  <1> QED BY <1>3

\* f[n] is what the loop holds after n rounds.
WindowsRun(l, d, i, r, f) ==
    /\ f[0] = <<>>
    /\ \A n \in 1..WindowCount(d, i, r) : f[n] = WindowNext(l, d, i, f[n - 1], MinCard + n - 1)
    /\ Windows(l, d, i, r) = f[WindowCount(d, i, r)]

LEMMA WindowsLoop ==
    ASSUME NEW l, NEW d, NEW i, NEW r, WindowCount(d, i, r) \in Nat
    PROVE  \E f : WindowsRun(l, d, i, r, f)
  <1> DEFINE f == CHOOSE f : WindowsBy(l, d, i, r, WindowCount(d, i, r), f)
  <1>0. WindowCount(d, i, r) \in Nat
    OBVIOUS
  <1>1. WindowsBy(l, d, i, r, WindowCount(d, i, r), f)
    BY <1>0, WindowsExists
  <1>2. Windows(l, d, i, r) = f[WindowCount(d, i, r)]
    BY DEF Windows, WindowCount, WindowsBy
  <1> HIDE DEF f
  <1>3. \A n \in 0..WindowCount(d, i, r) : f[n] = IF n = 0 THEN <<>> ELSE WindowNext(l, d, i, f[n - 1], MinCard + n - 1)
    BY <1>1 DEF WindowsBy
  <1>4. f[0] = <<>>
    BY <1>0, <1>3
  <1>5. \A n \in 1..WindowCount(d, i, r) : f[n] = WindowNext(l, d, i, f[n - 1], MinCard + n - 1)
    BY <1>0, <1>3
  <1>6. WindowsRun(l, d, i, r, f)
    BY <1>2, <1>4, <1>5 DEF WindowsRun
  <1> QED BY <1>6

\* The loop of mergeRanges.
MergeBy(rs, N, f) ==
    f = [n \in 0..N |-> IF n = 0 THEN <<>> ELSE MergeNext(f[n - 1], rs[n])]

LEMMA MergeExists ==
    ASSUME NEW rs, NEW N \in Nat
    PROVE  \E f : MergeBy(rs, N, f)
  <1> DEFINE B == {n \in 0..N : \E f : MergeBy(rs, n, f)}
  <1>1. 0 \in B
    <2> DEFINE f == [k \in 0..0 |-> <<>>]
    <2>1. MergeBy(rs, 0, f)
      BY DEF MergeBy
    <2> QED BY <2>1
  <1>2. ASSUME NEW n \in 0..N - 1, n \in B PROVE n + 1 \in B
    <2>1. PICK f : MergeBy(rs, n, f)
      BY <1>2
    <2> DEFINE h == [k \in 0..n + 1 |-> IF k = 0 THEN <<>> ELSE MergeNext(f[k - 1], rs[k])]
    <2>2. \A k \in 0..n : h[k] = f[k]
      BY <2>1 DEF MergeBy
    <2>3. \A k \in 0..n + 1 : k # 0 => h[k - 1] = f[k - 1]
      <3> HIDE DEF h
      <3>1. \A k \in 0..n + 1 : k # 0 => k - 1 \in 0..n
        OBVIOUS
      <3> QED BY <2>2, <3>1
    <2>4. h = [k \in 0..n + 1 |-> IF k = 0 THEN <<>> ELSE MergeNext(h[k - 1], rs[k])]
      BY <2>3
    <2>5. MergeBy(rs, n + 1, h) /\ n + 1 \in 0..N
      <3> HIDE DEF h
      <3> QED BY <2>4 DEF MergeBy
    <2> HIDE DEF h
    <2> QED BY <2>5
  <1>3. N \in B
    <2> HIDE DEF B
    <2>1. \A n \in 0..N - 1 : n \in B => n + 1 \in B
      BY <1>2
    <2>2. 0..N \subseteq B
      BY <1>1, <2>1, CountUp
    <2> QED BY <2>2
  <1> QED BY <1>3

\* f[n] is what the loop holds after n rounds.
MergeRun(rs, f) ==
    /\ f[0] = <<>>
    /\ \A n \in 1..Len(rs) : f[n] = MergeNext(f[n - 1], rs[n])
    /\ MergeRanges(rs) = f[Len(rs)]

LEMMA MergeLoop ==
    ASSUME NEW rs, Len(rs) \in Nat
    PROVE  \E f : MergeRun(rs, f)
  <1> DEFINE f == CHOOSE f : MergeBy(rs, Len(rs), f)
  <1>0. Len(rs) \in Nat
    OBVIOUS
  <1>1. MergeBy(rs, Len(rs), f)
    BY <1>0, MergeExists
  <1>2. MergeRanges(rs) = f[Len(rs)]
    BY DEF MergeRanges, MergeBy
  <1> HIDE DEF f
  <1>3. \A n \in 0..Len(rs) : f[n] = IF n = 0 THEN <<>> ELSE MergeNext(f[n - 1], rs[n])
    BY <1>1 DEF MergeBy
  <1>4. f[0] = <<>>
    BY <1>0, <1>3
  <1>5. \A n \in 1..Len(rs) : f[n] = MergeNext(f[n - 1], rs[n])
    BY <1>0, <1>3
  <1>6. MergeRun(rs, f)
    BY <1>2, <1>4, <1>5 DEF MergeRun
  <1> QED BY <1>6

\* The loop over the starts of a window.
LuhnBy(l, d, N, f) ==
    f = [n \in 0..N |-> IF n = 0 THEN [runEnd |-> 1, out |-> <<>>] ELSE LuhnNext(l, d, f[n - 1], n)]

LEMMA LuhnExists ==
    ASSUME NEW l, NEW d, NEW N \in Nat
    PROVE  \E f : LuhnBy(l, d, N, f)
  <1> DEFINE B == {n \in 0..N : \E f : LuhnBy(l, d, n, f)}
  <1>1. 0 \in B
    <2> DEFINE f == [k \in 0..0 |-> [runEnd |-> 1, out |-> <<>>]]
    <2>1. LuhnBy(l, d, 0, f)
      BY DEF LuhnBy
    <2> QED BY <2>1
  <1>2. ASSUME NEW n \in 0..N - 1, n \in B PROVE n + 1 \in B
    <2>1. PICK f : LuhnBy(l, d, n, f)
      BY <1>2
    <2> DEFINE h == [k \in 0..n + 1 |-> IF k = 0 THEN [runEnd |-> 1, out |-> <<>>] ELSE LuhnNext(l, d, f[k - 1], k)]
    <2>2. \A k \in 0..n : h[k] = f[k]
      BY <2>1 DEF LuhnBy
    <2>3. \A k \in 0..n + 1 : k # 0 => h[k - 1] = f[k - 1]
      <3> HIDE DEF h
      <3>1. \A k \in 0..n + 1 : k # 0 => k - 1 \in 0..n
        OBVIOUS
      <3> QED BY <2>2, <3>1
    <2>4. h = [k \in 0..n + 1 |-> IF k = 0 THEN [runEnd |-> 1, out |-> <<>>] ELSE LuhnNext(l, d, h[k - 1], k)]
      BY <2>3
    <2>5. LuhnBy(l, d, n + 1, h) /\ n + 1 \in 0..N
      <3> HIDE DEF h
      <3> QED BY <2>4 DEF LuhnBy
    <2> HIDE DEF h
    <2> QED BY <2>5
  <1>3. N \in B
    <2> HIDE DEF B
    <2>1. \A n \in 0..N - 1 : n \in B => n + 1 \in B
      BY <1>2
    <2>2. 0..N \subseteq B
      BY <1>1, <2>1, CountUp
    <2> QED BY <2>2
  <1> QED BY <1>3

\* f[n] is what the loop holds after n rounds.
LuhnRun(l, d, f) ==
    /\ f[0] = [runEnd |-> 1, out |-> <<>>]
    /\ \A n \in 1..Starts(d) : f[n] = LuhnNext(l, d, f[n - 1], n)
    /\ LuhnRanges(l, d) = f[Starts(d)].out

LEMMA LuhnLoop ==
    ASSUME NEW l, NEW d, Starts(d) \in Nat
    PROVE  \E f : LuhnRun(l, d, f)
  <1> DEFINE f == CHOOSE f : LuhnBy(l, d, Starts(d), f)
  <1>0. Starts(d) \in Nat
    OBVIOUS
  <1>1. LuhnBy(l, d, Starts(d), f)
    BY <1>0, LuhnExists
  <1>2. LuhnRanges(l, d) = f[Starts(d)].out
    BY DEF LuhnRanges, Starts, LuhnBy
  <1> HIDE DEF f
  <1>3. \A n \in 0..Starts(d) : f[n] = IF n = 0 THEN [runEnd |-> 1, out |-> <<>>] ELSE LuhnNext(l, d, f[n - 1], n)
    BY <1>1 DEF LuhnBy
  <1>4. f[0] = [runEnd |-> 1, out |-> <<>>]
    BY <1>0, <1>3
  <1>5. \A n \in 1..Starts(d) : f[n] = LuhnNext(l, d, f[n - 1], n)
    BY <1>0, <1>3
  <1>6. LuhnRun(l, d, f)
    BY <1>2, <1>4, <1>5 DEF LuhnRun
  <1> QED BY <1>6

\* The loop of matchPhoneGroups.
GroupsBy(l, m, parens, N, f) ==
    f = [n \in 0..N |-> IF n = 0 THEN m ELSE PhoneGroup(l, f[n - 1], parens, n)]

LEMMA GroupsExists ==
    ASSUME NEW l, NEW m, NEW parens, NEW N \in Nat
    PROVE  \E f : GroupsBy(l, m, parens, N, f)
  <1> DEFINE B == {n \in 0..N : \E f : GroupsBy(l, m, parens, n, f)}
  <1>1. 0 \in B
    <2> DEFINE f == [k \in 0..0 |-> m]
    <2>1. GroupsBy(l, m, parens, 0, f)
      BY DEF GroupsBy
    <2> QED BY <2>1
  <1>2. ASSUME NEW n \in 0..N - 1, n \in B PROVE n + 1 \in B
    <2>1. PICK f : GroupsBy(l, m, parens, n, f)
      BY <1>2
    <2> DEFINE h == [k \in 0..n + 1 |-> IF k = 0 THEN m ELSE PhoneGroup(l, f[k - 1], parens, k)]
    <2>2. \A k \in 0..n : h[k] = f[k]
      BY <2>1 DEF GroupsBy
    <2>3. \A k \in 0..n + 1 : k # 0 => h[k - 1] = f[k - 1]
      <3> HIDE DEF h
      <3>1. \A k \in 0..n + 1 : k # 0 => k - 1 \in 0..n
        OBVIOUS
      <3> QED BY <2>2, <3>1
    <2>4. h = [k \in 0..n + 1 |-> IF k = 0 THEN m ELSE PhoneGroup(l, h[k - 1], parens, k)]
      BY <2>3
    <2>5. GroupsBy(l, m, parens, n + 1, h) /\ n + 1 \in 0..N
      <3> HIDE DEF h
      <3> QED BY <2>4 DEF GroupsBy
    <2> HIDE DEF h
    <2> QED BY <2>5
  <1>3. N \in B
    <2> HIDE DEF B
    <2>1. \A n \in 0..N - 1 : n \in B => n + 1 \in B
      BY <1>2
    <2>2. 0..N \subseteq B
      BY <1>1, <2>1, CountUp
    <2> QED BY <2>2
  <1> QED BY <1>3

\* f[n] is what the loop holds after n rounds.
GroupsRun(l, m, parens, f) ==
    /\ f[0] = m
    /\ \A n \in 1..MaxGroups : f[n] = PhoneGroup(l, f[n - 1], parens, n)
    /\ PhoneGroups(l, m, parens) = f[MaxGroups]

LEMMA GroupsLoop ==
    ASSUME NEW l, NEW m, NEW parens, MaxGroups \in Nat
    PROVE  \E f : GroupsRun(l, m, parens, f)
  <1> DEFINE f == CHOOSE f : GroupsBy(l, m, parens, MaxGroups, f)
  <1>0. MaxGroups \in Nat
    OBVIOUS
  <1>1. GroupsBy(l, m, parens, MaxGroups, f)
    BY <1>0, GroupsExists
  <1>2. PhoneGroups(l, m, parens) = f[MaxGroups]
    BY DEF PhoneGroups, GroupsBy
  <1> HIDE DEF f
  <1>3. \A n \in 0..MaxGroups : f[n] = IF n = 0 THEN m ELSE PhoneGroup(l, f[n - 1], parens, n)
    BY <1>1 DEF GroupsBy
  <1>4. f[0] = m
    BY <1>0, <1>3
  <1>5. \A n \in 1..MaxGroups : f[n] = PhoneGroup(l, f[n - 1], parens, n)
    BY <1>0, <1>3
  <1>6. GroupsRun(l, m, parens, f)
    BY <1>2, <1>4, <1>5 DEF GroupsRun
  <1> QED BY <1>6

\* The loop of findShapedNumbers.
ShapedBy(l, N, f) ==
    f = [n \in 0..N |-> IF n = 0 THEN [next |-> 1, out |-> <<>>] ELSE ShapedNext(l, f[n - 1], n)]

LEMMA ShapedExists ==
    ASSUME NEW l, NEW N \in Nat
    PROVE  \E f : ShapedBy(l, N, f)
  <1> DEFINE B == {n \in 0..N : \E f : ShapedBy(l, n, f)}
  <1>1. 0 \in B
    <2> DEFINE f == [k \in 0..0 |-> [next |-> 1, out |-> <<>>]]
    <2>1. ShapedBy(l, 0, f)
      BY DEF ShapedBy
    <2> QED BY <2>1
  <1>2. ASSUME NEW n \in 0..N - 1, n \in B PROVE n + 1 \in B
    <2>1. PICK f : ShapedBy(l, n, f)
      BY <1>2
    <2> DEFINE h == [k \in 0..n + 1 |-> IF k = 0 THEN [next |-> 1, out |-> <<>>] ELSE ShapedNext(l, f[k - 1], k)]
    <2>2. \A k \in 0..n : h[k] = f[k]
      BY <2>1 DEF ShapedBy
    <2>3. \A k \in 0..n + 1 : k # 0 => h[k - 1] = f[k - 1]
      <3> HIDE DEF h
      <3>1. \A k \in 0..n + 1 : k # 0 => k - 1 \in 0..n
        OBVIOUS
      <3> QED BY <2>2, <3>1
    <2>4. h = [k \in 0..n + 1 |-> IF k = 0 THEN [next |-> 1, out |-> <<>>] ELSE ShapedNext(l, h[k - 1], k)]
      BY <2>3
    <2>5. ShapedBy(l, n + 1, h) /\ n + 1 \in 0..N
      <3> HIDE DEF h
      <3> QED BY <2>4 DEF ShapedBy
    <2> HIDE DEF h
    <2> QED BY <2>5
  <1>3. N \in B
    <2> HIDE DEF B
    <2>1. \A n \in 0..N - 1 : n \in B => n + 1 \in B
      BY <1>2
    <2>2. 0..N \subseteq B
      BY <1>1, <2>1, CountUp
    <2> QED BY <2>2
  <1> QED BY <1>3

\* f[n] is what the loop holds after n rounds.
ShapedRun(l, f) ==
    /\ f[0] = [next |-> 1, out |-> <<>>]
    /\ \A n \in 1..Len(l) : f[n] = ShapedNext(l, f[n - 1], n)
    /\ FindShapedNumbers(l) = f[Len(l)].out

LEMMA ShapedLoop ==
    ASSUME NEW l, Len(l) \in Nat
    PROVE  \E f : ShapedRun(l, f)
  <1> DEFINE f == CHOOSE f : ShapedBy(l, Len(l), f)
  <1>0. Len(l) \in Nat
    OBVIOUS
  <1>1. ShapedBy(l, Len(l), f)
    BY <1>0, ShapedExists
  <1>2. FindShapedNumbers(l) = f[Len(l)].out
    BY DEF FindShapedNumbers, ShapedBy
  <1> HIDE DEF f
  <1>3. \A n \in 0..Len(l) : f[n] = IF n = 0 THEN [next |-> 1, out |-> <<>>] ELSE ShapedNext(l, f[n - 1], n)
    BY <1>1 DEF ShapedBy
  <1>4. f[0] = [next |-> 1, out |-> <<>>]
    BY <1>0, <1>3
  <1>5. \A n \in 1..Len(l) : f[n] = ShapedNext(l, f[n - 1], n)
    BY <1>0, <1>3
  <1>6. ShapedRun(l, f)
    BY <1>2, <1>4, <1>5 DEF ShapedRun
  <1> QED BY <1>6

\* The loop of mergeCarves.
CarvesBy(cs, ns, N, f) ==
    f = [n \in 0..N |-> IF n = 0 THEN [i |-> 1, j |-> 1, out |-> <<>>] ELSE CarveNext(f[n - 1], cs, ns)]

LEMMA CarvesExists ==
    ASSUME NEW cs, NEW ns, NEW N \in Nat
    PROVE  \E f : CarvesBy(cs, ns, N, f)
  <1> DEFINE B == {n \in 0..N : \E f : CarvesBy(cs, ns, n, f)}
  <1>1. 0 \in B
    <2> DEFINE f == [k \in 0..0 |-> [i |-> 1, j |-> 1, out |-> <<>>]]
    <2>1. CarvesBy(cs, ns, 0, f)
      BY DEF CarvesBy
    <2> QED BY <2>1
  <1>2. ASSUME NEW n \in 0..N - 1, n \in B PROVE n + 1 \in B
    <2>1. PICK f : CarvesBy(cs, ns, n, f)
      BY <1>2
    <2> DEFINE h == [k \in 0..n + 1 |-> IF k = 0 THEN [i |-> 1, j |-> 1, out |-> <<>>] ELSE CarveNext(f[k - 1], cs, ns)]
    <2>2. \A k \in 0..n : h[k] = f[k]
      BY <2>1 DEF CarvesBy
    <2>3. \A k \in 0..n + 1 : k # 0 => h[k - 1] = f[k - 1]
      <3> HIDE DEF h
      <3>1. \A k \in 0..n + 1 : k # 0 => k - 1 \in 0..n
        OBVIOUS
      <3> QED BY <2>2, <3>1
    <2>4. h = [k \in 0..n + 1 |-> IF k = 0 THEN [i |-> 1, j |-> 1, out |-> <<>>] ELSE CarveNext(h[k - 1], cs, ns)]
      BY <2>3
    <2>5. CarvesBy(cs, ns, n + 1, h) /\ n + 1 \in 0..N
      <3> HIDE DEF h
      <3> QED BY <2>4 DEF CarvesBy
    <2> HIDE DEF h
    <2> QED BY <2>5
  <1>3. N \in B
    <2> HIDE DEF B
    <2>1. \A n \in 0..N - 1 : n \in B => n + 1 \in B
      BY <1>2
    <2>2. 0..N \subseteq B
      BY <1>1, <2>1, CountUp
    <2> QED BY <2>2
  <1> QED BY <1>3

\* f[n] is what the loop holds after n rounds.
CarvesRun(cs, ns, f) ==
    /\ f[0] = [i |-> 1, j |-> 1, out |-> <<>>]
    /\ \A n \in 1..Len(cs) + Len(ns) : f[n] = CarveNext(f[n - 1], cs, ns)
    /\ MergeCarves(cs, ns) = f[Len(cs) + Len(ns)].out

LEMMA CarvesLoop ==
    ASSUME NEW cs, NEW ns, Len(cs) + Len(ns) \in Nat
    PROVE  \E f : CarvesRun(cs, ns, f)
  <1> DEFINE f == CHOOSE f : CarvesBy(cs, ns, Len(cs) + Len(ns), f)
  <1>0. Len(cs) + Len(ns) \in Nat
    OBVIOUS
  <1>1. CarvesBy(cs, ns, Len(cs) + Len(ns), f)
    BY <1>0, CarvesExists
  <1>2. MergeCarves(cs, ns) = f[Len(cs) + Len(ns)].out
    BY DEF MergeCarves, CarvesBy
  <1> HIDE DEF f
  <1>3. \A n \in 0..Len(cs) + Len(ns) : f[n] = IF n = 0 THEN [i |-> 1, j |-> 1, out |-> <<>>] ELSE CarveNext(f[n - 1], cs, ns)
    BY <1>1 DEF CarvesBy
  <1>4. f[0] = [i |-> 1, j |-> 1, out |-> <<>>]
    BY <1>0, <1>3
  <1>5. \A n \in 1..Len(cs) + Len(ns) : f[n] = CarveNext(f[n - 1], cs, ns)
    BY <1>0, <1>3
  <1>6. CarvesRun(cs, ns, f)
    BY <1>2, <1>4, <1>5 DEF CarvesRun
  <1> QED BY <1>6

\* The loop of scanLine over the carves.
ScanBy(l, cs, N, f) ==
    f = [n \in 0..N |-> IF n = 0 THEN ScanStart(cs) ELSE ScanCarve(l, f[n - 1], cs[n])]

LEMMA ScanExists ==
    ASSUME NEW l, NEW cs, NEW N \in Nat
    PROVE  \E f : ScanBy(l, cs, N, f)
  <1> DEFINE B == {n \in 0..N : \E f : ScanBy(l, cs, n, f)}
  <1>1. 0 \in B
    <2> DEFINE f == [k \in 0..0 |-> ScanStart(cs)]
    <2>1. ScanBy(l, cs, 0, f)
      BY DEF ScanBy
    <2> QED BY <2>1
  <1>2. ASSUME NEW n \in 0..N - 1, n \in B PROVE n + 1 \in B
    <2>1. PICK f : ScanBy(l, cs, n, f)
      BY <1>2
    <2> DEFINE h == [k \in 0..n + 1 |-> IF k = 0 THEN ScanStart(cs) ELSE ScanCarve(l, f[k - 1], cs[k])]
    <2>2. \A k \in 0..n : h[k] = f[k]
      BY <2>1 DEF ScanBy
    <2>3. \A k \in 0..n + 1 : k # 0 => h[k - 1] = f[k - 1]
      <3> HIDE DEF h
      <3>1. \A k \in 0..n + 1 : k # 0 => k - 1 \in 0..n
        OBVIOUS
      <3> QED BY <2>2, <3>1
    <2>4. h = [k \in 0..n + 1 |-> IF k = 0 THEN ScanStart(cs) ELSE ScanCarve(l, h[k - 1], cs[k])]
      BY <2>3
    <2>5. ScanBy(l, cs, n + 1, h) /\ n + 1 \in 0..N
      <3> HIDE DEF h
      <3> QED BY <2>4 DEF ScanBy
    <2> HIDE DEF h
    <2> QED BY <2>5
  <1>3. N \in B
    <2> HIDE DEF B
    <2>1. \A n \in 0..N - 1 : n \in B => n + 1 \in B
      BY <1>2
    <2>2. 0..N \subseteq B
      BY <1>1, <2>1, CountUp
    <2> QED BY <2>2
  <1> QED BY <1>3

\* f[n] is what the loop holds after n rounds.
ScanRun(l, cs, f) ==
    /\ f[0] = ScanStart(cs)
    /\ \A n \in 1..Len(cs) : f[n] = ScanCarve(l, f[n - 1], cs[n])
    /\ ScanCarves(l, cs) = f[Len(cs)]

LEMMA ScanLoop ==
    ASSUME NEW l, NEW cs, Len(cs) \in Nat
    PROVE  \E f : ScanRun(l, cs, f)
  <1> DEFINE f == CHOOSE f : ScanBy(l, cs, Len(cs), f)
  <1>0. Len(cs) \in Nat
    OBVIOUS
  <1>1. ScanBy(l, cs, Len(cs), f)
    BY <1>0, ScanExists
  <1>2. ScanCarves(l, cs) = f[Len(cs)]
    BY DEF ScanCarves, ScanStart, ScanBy
  <1> HIDE DEF f
  <1>3. \A n \in 0..Len(cs) : f[n] = IF n = 0 THEN ScanStart(cs) ELSE ScanCarve(l, f[n - 1], cs[n])
    BY <1>1 DEF ScanBy
  <1>4. f[0] = ScanStart(cs)
    BY <1>0, <1>3
  <1>5. \A n \in 1..Len(cs) : f[n] = ScanCarve(l, f[n - 1], cs[n])
    BY <1>0, <1>3
  <1>6. ScanRun(l, cs, f)
    BY <1>2, <1>4, <1>5 DEF ScanRun
  <1> QED BY <1>6

------------------------------------------------------------------------------
(* Runs of digits.                                                         *)

Quote == "\""
Space == " "

LEMMA DigitsApart ==
    /\ Quote \notin Digits /\ "none" \notin Digits /\ "." \notin Digits
    /\ Space \notin Digits /\ "-" \notin Digits /\ "(" \notin Digits /\ ")" \notin Digits
    /\ "+" \notin Digits
  BY LineAssumption DEF Quote, Space

LEMMA NotQuote ==
    /\ Space # Quote /\ "-" # Quote /\ "." # Quote /\ "(" # Quote /\ ")" # Quote /\ "+" # Quote
    /\ "none" # Quote
  BY DEF Quote, Space

LEMMA Lengths ==
    /\ MinCard \in Nat \ {0} /\ MaxCard \in Nat \ {0} /\ MaxCC \in Nat \ {0}
    /\ MinPhone \in Nat \ {0} /\ MaxPhone \in Nat \ {0} /\ MinKeyed \in Nat \ {0}
    /\ MaxGroup \in Nat \ {0} /\ MaxGroups \in Nat \ {0} /\ MaxArea \in Nat \ {0}
    /\ NanpGroup \in Nat \ {0} /\ NanpLine \in Nat \ {0}
    /\ MinID \in Nat \ {0} /\ MaxID \in Nat \ {0} /\ MinOTP \in Nat \ {0} /\ MaxOTP \in Nat \ {0}
    /\ MinSession \in Nat \ {0}
  BY LineAssumption

LEMMA LineIs ==
    ASSUME NEW l \in Seq(STRING)
    PROVE  /\ Len(l) \in Nat /\ DOMAIN l = 1..Len(l)
           /\ \A i : IsDigit(l, i) <=> i \in 1..Len(l) /\ l[i] \in Digits
           /\ \A i : At(l, i) = IF i \in 1..Len(l) THEN l[i] ELSE "none"
  BY LenProperties DEF IsDigit, At

\* RunOf ends at the first character that is not a digit, or after max digits.
LEMMA RunOfIs ==
    ASSUME NEW l \in Seq(STRING), NEW i \in 1..Len(l) + 1, NEW max \in Nat
    PROVE  /\ RunOf(l, i, max) \in i..Len(l) + 1
           /\ RunOf(l, i, max) - i <= max
           /\ \A k \in i..RunOf(l, i, max) - 1 : l[k] \in Digits
           /\ RunOf(l, i, max) - i = max \/ ~IsDigit(l, RunOf(l, i, max))
  <1> DEFINE T == {j \in i..Len(l) + 1 : j - i = max \/ ~IsDigit(l, j)}
             Run(j) == /\ j - i <= max
                       /\ \A k \in i..j - 1 : l[k] \in Digits
                       /\ j - i = max \/ ~IsDigit(l, j)
  <1>0. Len(l) \in Nat /\ \A k : IsDigit(l, k) <=> k \in 1..Len(l) /\ l[k] \in Digits
    BY LineIs
  <1>1. Len(l) + 1 \in T /\ T \subseteq Nat
    BY <1>0
  <1>2. PICK j \in T : \A m \in T : j <= m
    <2> HIDE DEF T
    <2> QED BY <1>1, LeastOf
  <1>3. j \in i..Len(l) + 1 /\ (j - i = max \/ ~IsDigit(l, j))
    BY <1>2
  <1>4. j - i <= max
    <2> SUFFICES ASSUME j - i > max PROVE FALSE
      BY <1>0, <1>3
    <2>1. i + max \in T /\ ~(j <= i + max)
      BY <1>0, <1>3
    <2> HIDE DEF T
    <2> QED BY <1>2, <2>1
  <1>5. ASSUME NEW k \in i..j - 1 PROVE l[k] \in Digits
    <2>1. k \in i..Len(l) + 1 /\ ~(j <= k)
      BY <1>0, <1>3
    <2>2. k \notin T
      <3> HIDE DEF T
      <3> QED BY <1>2, <2>1
    <2> QED BY <1>0, <2>1, <2>2
  <1>6. \E r \in i..Len(l) + 1 : Run(r)
    BY <1>3, <1>4, <1>5
  <1>7. RunOf(l, i, max) = CHOOSE r \in i..Len(l) + 1 : Run(r)
    BY DEF RunOf
  <1>8. RunOf(l, i, max) \in i..Len(l) + 1 /\ Run(RunOf(l, i, max))
    <2> HIDE DEF Run
    <2> QED BY <1>6, <1>7
  <1> QED BY <1>8

\* A range of the line, not empty and without a quote.
Plain(l, i, e) == e \in i + 1..Len(l) + 1 /\ \A k \in i..e - 1 : l[k] # Quote

\* A run of digits is one.
LEMMA RunPlain ==
    ASSUME NEW l \in Seq(STRING), NEW i \in 1..Len(l) + 1, NEW max \in Nat,
           RunOf(l, i, max) # i
    PROVE  Plain(l, i, RunOf(l, i, max))
  <1>1. Len(l) \in Nat
    BY LineIs
  <1>2. \A k \in i..RunOf(l, i, max) - 1 : l[k] # Quote
    BY RunOfIs, DigitsApart
  <1>3. RunOf(l, i, max) \in i + 1..Len(l) + 1
    BY <1>1, RunOfIs
  <1> QED BY <1>2, <1>3 DEF Plain

\* Two of them behind one another.
LEMMA PlainThen ==
    ASSUME NEW l \in Seq(STRING), NEW i \in Nat, NEW j \in Nat, NEW e,
           Plain(l, i, j), Plain(l, j, e)
    PROVE  Plain(l, i, e)
  <1>1. Len(l) \in Nat
    BY LineIs
  <1>2. e \in i + 1..Len(l) + 1 /\ j \in i + 1..Len(l) + 1 /\ e \in j + 1..Len(l) + 1
    BY <1>1 DEF Plain
  <1>3. ASSUME NEW k \in i..e - 1 PROVE l[k] # Quote
    <2>1. k \in i..j - 1 \/ k \in j..e - 1
      BY <1>1, <1>2
    <2> QED BY <2>1 DEF Plain
  <1> QED BY <1>2, <1>3 DEF Plain
------------------------------------------------------------------------------
(* Numbers with a shape or a key: what is matched has no quote in it.      *)

Groups == [end : Nat, next : Nat, digits : Int, sep : {" ", "-", ".", "none"}, dots : Nat,
           afterArea : BOOLEAN, done : BOOLEAN]

\* The groups matched from position j on.
GroupsOK(l, j, m) ==
    /\ m \in Groups
    /\ m.next \in j..Len(l) + 1
    /\ m.end = 0 \/ m.end \in j + 1..m.next
    /\ \A q \in j..m.next - 1 : l[q] # Quote

LEMMA GroupStep ==
    ASSUME NEW l \in Seq(STRING), NEW j \in 1..Len(l) + 1, NEW m, GroupsOK(l, j, m),
           NEW parens, NEW g \in Nat
    PROVE  GroupsOK(l, j, PhoneGroup(l, m, parens, g))
  <1> DEFINE s     == At(l, m.next)
             isSep == s \in {" ", "-", "."}
             k     == IF isSep THEN m.next + 1 ELSE m.next
             noted == IF isSep THEN [m EXCEPT !.sep = s, !.dots = @ + IF s = "." THEN 1 ELSE 0] ELSE m
             close == RunOf(l, k + 1, MaxArea)
             stop  == RunOf(l, k, MaxGroup)
             space == At(l, close + 1) = " " /\ IsDigit(l, close + 2)
             behind  == IF space THEN close + 2 ELSE close + 1
             halt  == [m EXCEPT !.done = TRUE]
             ended == [noted EXCEPT !.done = TRUE]
             area  == [noted EXCEPT !.end = close + 1, !.digits = @ + close - k - 1,
                                    !.next = behind, !.sep = "none", !.afterArea = space]
             more  == [noted EXCEPT !.end = stop, !.digits = @ + stop - k, !.next = stop,
                                    !.afterArea = FALSE]
             inArea == parens /\ g = 1 /\ At(l, k) = "("
             outside == \/ m.done
                        \/ isSep /\ m.sep \notin {"none", s}
                        \/ ~isSep /\ g > 1 /\ ~m.afterArea
  <1>0. /\ Len(l) \in Nat
        /\ \A i : IsDigit(l, i) <=> i \in 1..Len(l) /\ l[i] \in Digits
        /\ \A i : At(l, i) = IF i \in 1..Len(l) THEN l[i] ELSE "none"
    BY LineIs
  <1>L. Len(l) \in Nat
    BY <1>0
  <1>1. /\ m \in Groups
        /\ m.next \in j..Len(l) + 1
        /\ m.end = 0 \/ m.end \in j + 1..m.next
        /\ \A q \in j..m.next - 1 : l[q] # Quote
    BY DEF GroupsOK
  <1>2. isSep => m.next \in 1..Len(l) /\ l[m.next] = s /\ s # Quote
    BY <1>0, <1>1, NotQuote, Zenon DEF Space
  <1>a. (isSep => k = m.next + 1) /\ (~isSep => k = m.next)
    OBVIOUS
  <1>3. k \in m.next..Len(l) + 1 /\ k \in 1..Len(l) + 1
    <2> HIDE DEF isSep, k, s
    <2>1. m.next \in 1..Len(l) + 1
      BY <1>0, <1>1
    <2> QED BY <1>0, <1>2, <1>a, <2>1
  <1>4. \A q \in j..k - 1 : l[q] # Quote
    <2> SUFFICES ASSUME NEW q \in j..k - 1 PROVE l[q] # Quote
      OBVIOUS
    <2> HIDE DEF isSep, k, s
    <2>1. q \in j..m.next - 1 \/ (isSep /\ q = m.next)
      BY <1>0, <1>1, <1>a
    <2> QED BY <1>1, <1>2, <2>1
  <1>5. noted \in Groups /\ noted.next = m.next /\ noted.end = m.end
    <2>1. isSep => s \in {" ", "-", ".", "none"}
      OBVIOUS
    <2>2. CASE isSep
      <3>1. m.dots + (IF s = "." THEN 1 ELSE 0) \in Nat
        <4>1. m.dots \in Nat
          BY <1>1 DEF Groups
        <4> HIDE DEF s
        <4> QED BY <4>1
      <3> QED BY <1>1, <2>1, <2>2, <3>1 DEF Groups
    <2>3. CASE ~isSep
      BY <1>1, <2>3
    <2> QED BY <2>2, <2>3
  <1>6. PhoneGroup(l, m, parens, g) =
            IF outside THEN halt
            ELSE IF inArea THEN IF close = k + 1 \/ At(l, close) # ")" THEN ended ELSE area
            ELSE IF stop = k \/ IsDigit(l, stop) THEN ended ELSE more
    BY DEF PhoneGroup
  <1> HIDE DEF s, isSep, k, noted, close, stop, space, behind
  <1>7. GroupsOK(l, j, halt)
    <2>1. halt \in Groups /\ halt.next = m.next /\ halt.end = m.end
      BY <1>1 DEF Groups
    <2> HIDE DEF halt
    <2> QED BY <1>1, <2>1 DEF GroupsOK
  <1>8. GroupsOK(l, j, ended)
    <2>1. ended \in Groups /\ ended.next = m.next /\ ended.end = m.end
      BY <1>5 DEF Groups
    <2> HIDE DEF ended
    <2> QED BY <1>1, <2>1 DEF GroupsOK
  <1>9. ASSUME inArea, At(l, close) = ")" PROVE GroupsOK(l, j, area)
    <2>1. k \in 1..Len(l) /\ l[k] = "("
      BY <1>0, <1>3, <1>9
    <2>2. /\ close \in k + 1..Len(l) + 1
          /\ \A q \in k + 1..close - 1 : l[q] \in Digits
      <3>1. k + 1 \in 1..Len(l) + 1 /\ MaxArea \in Nat
        BY <1>0, <2>1, Lengths
      <3> QED BY <3>1, RunOfIs DEF close
    <2>3. close \in 1..Len(l) /\ l[close] = ")"
      BY <1>0, <1>3, <1>9, <2>2
    <2>4. behind \in close + 1..Len(l) + 1 /\ (behind # close + 1 => behind = close + 2 /\ l[close + 1] = Space)
      <3>1. CASE space
        <4>1. At(l, close + 1) = Space /\ behind = close + 2
          BY <3>1 DEF space, behind, Space
        <4>2. close + 1 \in 1..Len(l) /\ l[close + 1] = Space
          <5>1. Space # "none"
            BY DEF Space
          <5> QED BY <1>0, <4>1, <5>1
        <4> QED BY <1>L, <2>3, <4>1, <4>2
      <3>2. CASE ~space
        BY <1>0, <2>3, <3>2 DEF behind
      <3> QED BY <3>1, <3>2
    <2>5. \A q \in j..behind - 1 : l[q] # Quote
      <3> SUFFICES ASSUME NEW q \in j..behind - 1 PROVE l[q] # Quote
        OBVIOUS
      <3>1. q \in j..k - 1 \/ q = k \/ q \in k + 1..close - 1 \/ q = close
            \/ (q = close + 1 /\ l[close + 1] = Space)
        <4>1. close \in Nat /\ k \in Nat /\ behind \in Nat /\ j \in Nat
          BY <1>L, <1>3, <2>3, <2>4
        <4> QED BY <2>4, <4>1
      <3> QED BY <1>4, <2>1, <2>2, <2>3, <3>1, NotQuote, DigitsApart
    <2>6. close + 1 \in j + 1..behind /\ behind \in j..Len(l) + 1
      <3>1. close \in Nat /\ k \in Nat /\ m.next \in Nat /\ j \in Nat
        BY <1>L, <1>1, <1>3, <2>3
      <3> QED BY <1>L, <1>1, <1>3, <2>2, <2>4, <3>1
    <2>7. close + 1 \in Nat /\ behind \in Nat /\ space \in BOOLEAN
      <3>1. close + 1 \in Nat /\ behind \in Nat
        BY <1>L, <2>3, <2>4
      <3>2. space \in BOOLEAN
        BY DEF space
      <3> QED BY <3>1, <3>2
    <2>8. noted.digits + close - k - 1 \in Int
      <3>1. noted.digits \in Int
        BY <1>5 DEF Groups
      <3> QED BY <1>L, <1>3, <2>3, <3>1
    <2>9. area \in Groups /\ area.next = behind /\ area.end = close + 1
      BY <1>5, <2>7, <2>8 DEF Groups
    <2> HIDE DEF area
    <2> QED BY <2>5, <2>6, <2>9 DEF GroupsOK
  <1>10. ASSUME stop # k PROVE GroupsOK(l, j, more)
    <2>1. /\ stop \in k + 1..Len(l) + 1
          /\ \A q \in k..stop - 1 : l[q] \in Digits
      <3>1. MaxGroup \in Nat
        BY Lengths
      <3>2. stop \in k..Len(l) + 1 /\ \A q \in k..stop - 1 : l[q] \in Digits
        BY <1>3, <3>1, RunOfIs DEF stop
      <3> QED BY <1>0, <1>3, <1>10, <3>2
    <2>2. \A q \in j..stop - 1 : l[q] # Quote
      <3> SUFFICES ASSUME NEW q \in j..stop - 1 PROVE l[q] # Quote
        OBVIOUS
      <3>1. q \in j..k - 1 \/ q \in k..stop - 1
        BY <1>0, <1>3, <2>1
      <3> QED BY <1>4, <2>1, <3>1, DigitsApart
    <2>3. stop \in j + 1..stop /\ stop \in j..Len(l) + 1 /\ stop \in Nat
      BY <1>0, <1>1, <1>3, <2>1
    <2>4. noted.digits + stop - k \in Int
      <3>1. noted.digits \in Int
        BY <1>5 DEF Groups
      <3> QED BY <1>L, <1>3, <2>1, <3>1
    <2>5. more \in Groups /\ more.next = stop /\ more.end = stop
      BY <1>5, <2>3, <2>4 DEF Groups
    <2> HIDE DEF more
    <2> QED BY <2>2, <2>3, <2>5 DEF GroupsOK
  <1> HIDE DEF halt, ended, area, more, inArea, outside
  <1> QED BY <1>6, <1>7, <1>8, <1>9, <1>10

\* What matchPhoneGroups matches.
LEMMA GroupsPlain ==
    ASSUME NEW l \in Seq(STRING), NEW j \in 1..Len(l) + 1, NEW have \in Int, NEW parens
    PROVE  LET m == MatchPhoneGroups(l, j, have, parens)
           IN  m.end = 0 \/ Plain(l, j, m.end)
  <1> DEFINE m0 == [end |-> 0, next |-> j, digits |-> have, sep |-> "none", dots |-> 0,
                    afterArea |-> FALSE, done |-> FALSE]
  <1>0. MaxGroups \in Nat /\ Len(l) \in Nat
    BY Lengths, LineIs
  <1>1. PICK f : GroupsRun(l, m0, parens, f)
    <2> HIDE DEF m0
    <2> QED BY <1>0, GroupsLoop
  <1>a. /\ f[0] = m0
        /\ \A n \in 1..MaxGroups : f[n] = PhoneGroup(l, f[n - 1], parens, n)
        /\ PhoneGroups(l, m0, parens) = f[MaxGroups]
    <2> HIDE DEF m0
    <2> QED BY <1>1 DEF GroupsRun
  <1>2. GroupsOK(l, j, m0)
    <2>1. j \in Nat /\ j \in j..Len(l) + 1
      BY <1>0
    <2>2. m0 \in Groups /\ m0.next = j /\ m0.end = 0
      BY <2>1 DEF Groups
    <2>3. \A q \in j..j - 1 : l[q] # Quote
      BY <1>0
    <2> HIDE DEF m0
    <2> QED BY <2>1, <2>2, <2>3 DEF GroupsOK
  <1> DEFINE B == {n \in 0..MaxGroups : GroupsOK(l, j, f[n])}
  <1>3. 0 \in B
    BY <1>0, <1>a, <1>2
  <1>4. ASSUME NEW n \in 0..MaxGroups - 1, n \in B PROVE n + 1 \in B
    <2>1. n + 1 \in 1..MaxGroups /\ n + 1 \in 0..MaxGroups /\ n + 1 \in Nat /\ (n + 1) - 1 = n
      BY <1>0
    <2>2. f[n + 1] = PhoneGroup(l, f[n], parens, n + 1)
      BY <1>a, <2>1
    <2>3. GroupsOK(l, j, f[n])
      BY <1>4
    <2> QED BY <2>1, <2>2, <2>3, GroupStep
  <1>5. GroupsOK(l, j, PhoneGroups(l, m0, parens))
    <2> HIDE DEF B, m0
    <2>1. 0..MaxGroups \subseteq B
      BY <1>0, <1>3, <1>4, CountUp
    <2>2. MaxGroups \in B
      BY <1>0, <2>1
    <2> QED BY <1>a, <2>2 DEF B
  <1> DEFINE m1 == PhoneGroups(l, m0, parens)
             m == NotDecimal(m1)
  <1>6. MatchPhoneGroups(l, j, have, parens) = m
    BY DEF MatchPhoneGroups
  <1>7. m.end = 0 \/ m.end = m1.end
    <2>1. m1 \in Groups
      BY <1>5 DEF GroupsOK
    <2> HIDE DEF m1
    <2> QED BY <2>1 DEF NotDecimal, Groups
  <1>8. m1.end = 0 \/ Plain(l, j, m1.end)
    <2> HIDE DEF m1, m0
    <2>1. /\ m1.next \in j..Len(l) + 1
          /\ m1.end = 0 \/ m1.end \in j + 1..m1.next
          /\ \A q \in j..m1.next - 1 : l[q] # Quote
      BY <1>5 DEF GroupsOK, m1
    <2> QED BY <1>0, <2>1 DEF Plain
  <1> HIDE DEF m, m1
  <1> QED BY <1>6, <1>7, <1>8

\* A character that is no quote.
LEMMA PlainOne ==
    ASSUME NEW l \in Seq(STRING), NEW i \in 1..Len(l), l[i] # Quote
    PROVE  Plain(l, i, i + 1)
  <1>1. Len(l) \in Nat
    BY LineIs
  <1> QED BY <1>1 DEF Plain

LEMMA InternationalPlain ==
    ASSUME NEW l \in Seq(STRING), NEW i \in 1..Len(l), l[i] = "+"
    PROVE  MatchInternationalPhone(l, i) = 0 \/ Plain(l, i, MatchInternationalPhone(l, i))
  <1> DEFINE cc  == RunOf(l, i + 1, MaxCC)
             run == RunOf(l, i + 1, Len(l))
             m   == MatchPhoneGroups(l, cc, cc - i - 1, TRUE)
  <1>0. Len(l) \in Nat /\ i + 1 \in 1..Len(l) + 1 /\ MaxCC \in Nat /\ i \in Nat /\ i + 1 \in Nat
    BY LineIs, Lengths
  <1>1. Plain(l, i, i + 1)
    BY PlainOne, NotQuote
  <1>2. cc \in i + 1..Len(l) + 1 /\ run \in i + 1..Len(l) + 1
    BY <1>0, RunOfIs
  <1>3. (cc # i + 1 => Plain(l, i + 1, cc)) /\ (run # i + 1 => Plain(l, i + 1, run))
    BY <1>0, RunPlain
  <1> HIDE DEF cc, run
  <1>4. (cc # i + 1 => Plain(l, i, cc)) /\ (run # i + 1 => Plain(l, i, run))
    BY <1>0, <1>1, <1>3, PlainThen
  <1>5. cc \in 1..Len(l) + 1 /\ cc - i - 1 \in Int /\ cc \in Nat
    BY <1>0, <1>2
  <1>6. m.end = 0 \/ Plain(l, cc, m.end)
    BY <1>5, GroupsPlain
  <1>7. MatchInternationalPhone(l, i) =
            IF cc = i + 1 THEN 0
            ELSE IF run > cc THEN InPhone(run, run - i - 1, MinPhone)
            ELSE PhoneOf(m, MinPhone)
    BY DEF MatchInternationalPhone, cc, run
  <1> HIDE DEF m
  <1>8. (m.end # 0 /\ cc # i + 1) => Plain(l, i, m.end)
    BY <1>0, <1>4, <1>5, <1>6, PlainThen
  <1>9. run > cc => run # i + 1
    BY <1>0, <1>2
  <1> QED BY <1>4, <1>7, <1>8, <1>9 DEF InPhone, PhoneOf

LEMMA KeyedPhonePlain ==
    ASSUME NEW l \in Seq(STRING), NEW i \in 1..Len(l)
    PROVE  MatchKeyedPhone(l, i) = 0 \/ Plain(l, i, MatchKeyedPhone(l, i))
  <1> DEFINE group == RunOf(l, i, MaxGroup)
             run   == RunOf(l, i, Len(l))
             m     == MatchPhoneGroups(l, group, group - i, FALSE)
  <1>0. Len(l) \in Nat /\ i \in 1..Len(l) + 1 /\ MaxGroup \in Nat /\ i \in Nat
    BY LineIs, Lengths
  <1>2. group \in i..Len(l) + 1 /\ run \in i..Len(l) + 1
    BY <1>0, RunOfIs
  <1>3. (group # i => Plain(l, i, group)) /\ (run # i => Plain(l, i, run))
    BY <1>0, RunPlain
  <1> HIDE DEF group, run
  <1>5. group \in 1..Len(l) + 1 /\ group - i \in Int /\ group \in Nat
    BY <1>0, <1>2
  <1>6. m.end = 0 \/ Plain(l, group, m.end)
    BY <1>5, GroupsPlain
  <1>7. MatchKeyedPhone(l, i) =
            IF run > group THEN InPhone(run, run - i, MinKeyed)
            ELSE GroupedOr(m, group, group - i)
    BY DEF MatchKeyedPhone, group, run
  <1> HIDE DEF m
  <1>8. m.end # 0 => Plain(l, i, m.end)
    BY <1>0, <1>3, <1>5, <1>6, PlainThen
  <1>9. run > group => run # i
    BY <1>0, <1>2
  <1>10. group - i \in MinKeyed..MaxPhone => group # i
    BY <1>0, <1>5, Lengths
  <1> QED BY <1>3, <1>7, <1>8, <1>9, <1>10 DEF InPhone, PhoneOf, GroupedOr

LEMMA SessionPlain ==
    ASSUME NEW l \in Seq(STRING), NEW i \in 1..Len(l)
    PROVE  MatchSessionNumber(l, i) = 0 \/ Plain(l, i, MatchSessionNumber(l, i))
  <1> DEFINE j == RunOf(l, i, Len(l))
  <1>0. Len(l) \in Nat /\ i \in 1..Len(l) + 1 /\ MinSession \in Nat \ {0}
    BY LineIs, Lengths
  <1>1. j # i => Plain(l, i, j)
    BY <1>0, RunPlain
  <1>2. MatchSessionNumber(l, i) = IF j - i >= MinSession THEN j ELSE 0
    BY DEF MatchSessionNumber
  <1> HIDE DEF j
  <1>3. j - i >= MinSession => j # i
    BY <1>0
  <1> QED BY <1>1, <1>2, <1>3

LEMMA GroupedPlain ==
    ASSUME NEW l \in Seq(STRING), NEW i \in 1..Len(l), NEW min \in Nat \ {0}, NEW max \in Nat
    PROVE  LET e == MatchGroupedDigits(l, i, min, max) IN e = 0 \/ Plain(l, i, e)
  <1> DEFINE seps    == {"-", "."} \cup IF At(l, i - 1) = "\"" THEN {" "} ELSE {}
             Goes(j) == IsDigit(l, j) \/ (At(l, j) \in seps /\ IsDigit(l, j - 1) /\ IsDigit(l, j + 1))
             Stops(j) == ~Goes(j) /\ \A k \in i..j - 1 : Goes(k)
             end     == CHOOSE j \in i..Len(l) + 1 : Stops(j)
             n       == Cardinality({k \in i..end - 1 : IsDigit(l, k)})
             T       == {j \in i..Len(l) + 1 : ~Goes(j)}
  <1>0. /\ Len(l) \in Nat
        /\ \A k : IsDigit(l, k) <=> k \in 1..Len(l) /\ l[k] \in Digits
        /\ \A k : At(l, k) = IF k \in 1..Len(l) THEN l[k] ELSE "none"
    BY LineIs
  <1>L. Len(l) \in Nat
    BY <1>0
  <1>1. Quote \notin seps /\ "none" \notin seps
    BY NotQuote, Zenon DEF Space
  <1>2. ASSUME NEW k, Goes(k) PROVE k \in 1..Len(l) /\ l[k] # Quote
    <2> HIDE DEF seps
    <2>1. CASE IsDigit(l, k)
      BY <1>0, <2>1, DigitsApart
    <2>2. CASE At(l, k) \in seps
      <3>1. k \in 1..Len(l)
        BY <1>0, <1>1, <2>2
      <3> QED BY <1>0, <1>1, <2>2, <3>1
    <2> QED BY <1>2, <2>1, <2>2
  <1> HIDE DEF Goes
  <1>3. Len(l) + 1 \in T /\ T \subseteq Nat
    <2>1. Len(l) + 1 \notin 1..Len(l) /\ Len(l) + 1 \in i..Len(l) + 1
      BY <1>L
    <2>2. ~Goes(Len(l) + 1)
      BY <1>2, <2>1
    <2>3. \A j \in i..Len(l) + 1 : j \in Nat
      BY <1>L
    <2> QED BY <2>1, <2>2, <2>3
  <1>4. PICK j \in T : \A q \in T : j <= q
    <2> HIDE DEF T
    <2> QED BY <1>3, LeastOf
  <1>5. ASSUME NEW k \in i..j - 1 PROVE Goes(k)
    <2>1. j \in i..Len(l) + 1
      BY <1>4
    <2>2. k \in i..Len(l) + 1 /\ ~(j <= k)
      BY <1>L, <2>1
    <2>3. k \notin T
      <3> HIDE DEF T
      <3> QED BY <1>4, <2>2
    <2> QED BY <2>2, <2>3
  <1>6. j \in i..Len(l) + 1 /\ Stops(j)
    BY <1>4, <1>5
  <1> HIDE DEF T
  <1>7. end \in i..Len(l) + 1 /\ Stops(end)
    <2> HIDE DEF Stops
    <2> QED BY <1>6
  <1>8. MatchGroupedDigits(l, i, min, max) = IF n \in min..max THEN end ELSE 0
    BY DEF MatchGroupedDigits, Goes
  <1> HIDE DEF end
  <1>9. ASSUME n \in min..max PROVE Plain(l, i, end)
    <2>1. end # i
      <3> SUFFICES ASSUME end = i PROVE FALSE
        OBVIOUS
      <3>1. {k \in i..end - 1 : IsDigit(l, k)} = {}
        BY <1>L
      <3>2. n = 0
        BY <3>1, FS_EmptySet
      <3> HIDE DEF n
      <3> QED BY <1>9, <3>2
    <2>2. end \in i + 1..Len(l) + 1
      BY <1>L, <1>7, <2>1
    <2>3. \A k \in i..end - 1 : l[k] # Quote
      BY <1>2, <1>7
    <2> QED BY <2>2, <2>3 DEF Plain
  <1> HIDE DEF n
  <1> QED BY <1>8, <1>9
LEMMA NANPPlain ==
    ASSUME NEW l \in Seq(STRING), NEW i \in 1..Len(l)
    PROVE  MatchNANPPhone(l, i) = 0 \/ Plain(l, i, MatchNANPPhone(l, i))
  <1> DEFINE paren == l[i] = "("
             area  == IF paren THEN i + 1 ELSE i
             sep   == area + NanpGroup
             space == At(l, sep + 1) = " "
             exch  == IF paren /\ space THEN sep + 2 ELSE sep + 1
             dash  == exch + NanpGroup
             end   == dash + 1 + NanpLine
             Sep   == At(l, sep) \in IF paren THEN {")"} ELSE {"-", "."}
             Dash  == At(l, dash) \in IF paren THEN {"-", " ", "."} ELSE {At(l, sep)}
             Nanp  == /\ StartsNanp(l, area)
                      /\ Sep
                      /\ StartsNanp(l, exch)
                      /\ Dash
                      /\ DigitGroup(l, dash + 1, NanpLine) /\ ~IsDigit(l, end)
  <1>0. /\ Len(l) \in Nat
        /\ \A k : IsDigit(l, k) <=> k \in 1..Len(l) /\ l[k] \in Digits
        /\ \A k : At(l, k) = IF k \in 1..Len(l) THEN l[k] ELSE "none"
    BY LineIs
  <1>L. Len(l) \in Nat /\ i \in Nat /\ NanpGroup \in Nat \ {0} /\ NanpLine \in Nat \ {0}
    BY <1>0, Lengths
  <1>1. MatchNANPPhone(l, i) = IF Nanp THEN end ELSE 0
    BY DEF MatchNANPPhone
  <1>2. Sep => At(l, sep) # Quote
    BY NotQuote, Zenon
  <1>3. Sep /\ Dash => At(l, dash) # Quote
    BY <1>2, NotQuote, Zenon DEF Space
  <1>4. space => At(l, sep + 1) # Quote
    BY NotQuote, Zenon DEF Space
  <1>5. (paren => area = i + 1) /\ (~paren => area = i)
    OBVIOUS
  <1>6. exch = sep + 1 \/ (space /\ exch = sep + 2)
    BY Zenon
  <1>7. sep = area + NanpGroup /\ dash = exch + NanpGroup /\ end = dash + 1 + NanpLine
    OBVIOUS
  <1>8. paren => At(l, i) # Quote
    BY <1>0, NotQuote
  <1> SUFFICES ASSUME Nanp PROVE Plain(l, i, end)
    <2> HIDE DEF Nanp, end
    <2> QED BY <1>1
  <1>9. StartsNanp(l, area) /\ StartsNanp(l, exch) /\ DigitGroup(l, dash + 1, NanpLine) /\ Sep /\ Dash
    OBVIOUS
  <1> HIDE DEF paren, area, sep, space, exch, dash, end, Sep, Dash, Nanp
  <1>10. /\ area \in Nat /\ sep \in Nat /\ exch \in Nat /\ dash \in Nat /\ end \in Nat
         /\ end - 1 \in dash + 1..end - 1 /\ i + 1 <= end
    <2>1. (area = i + 1 \/ area = i) /\ (exch = sep + 1 \/ exch = sep + 2)
      BY <1>5, <1>6, Zenon
    <2>2. area \in Nat /\ area >= i
      BY <1>L, <2>1
    <2>3. sep \in Nat /\ sep >= area
      BY <1>L, <1>7, <2>2
    <2>4. exch \in Nat /\ exch >= sep
      BY <2>1, <2>3
    <2>5. dash \in Nat /\ dash >= exch
      BY <1>L, <1>7, <2>4
    <2>6. end \in Nat /\ end >= dash + 2
      BY <1>L, <1>7, <2>5
    <2> QED BY <1>L, <2>2, <2>3, <2>4, <2>5, <2>6
  <1>11. /\ \A q \in area..sep - 1 : IsDigit(l, q)
         /\ \A q \in exch..dash - 1 : IsDigit(l, q)
         /\ \A q \in dash + 1..end - 1 : IsDigit(l, q)
    <2>1. /\ \A q \in area..area + NanpGroup - 1 : IsDigit(l, q)
          /\ \A q \in exch..exch + NanpGroup - 1 : IsDigit(l, q)
          /\ \A q \in dash + 1..dash + 1 + NanpLine - 1 : IsDigit(l, q)
      BY <1>9 DEF StartsNanp, DigitGroup
    <2>2. sep - 1 = area + NanpGroup - 1 /\ dash - 1 = exch + NanpGroup - 1
          /\ end - 1 = dash + 1 + NanpLine - 1
      BY <1>L, <1>7, <1>10
    <2> QED BY <2>1, <2>2
  <1>12. end - 1 \in 1..Len(l)
    BY <1>0, <1>11, <1>10
  <1>13. \A q : IsDigit(l, q) => At(l, q) # Quote
    BY <1>0, DigitsApart
  <1>14. ASSUME NEW q \in i..end - 1 PROVE At(l, q) # Quote
    <2>1. \/ paren /\ q = i
          \/ q \in area..sep - 1 \/ q = sep \/ (space /\ q = sep + 1)
          \/ q \in exch..dash - 1 \/ q = dash \/ q \in dash + 1..end - 1
      BY <1>L, <1>5, <1>6, <1>7, <1>10
    <2> QED BY <1>2, <1>3, <1>4, <1>8, <1>9, <1>11, <1>13, <2>1, Zenon
  <1>15. ASSUME NEW q \in i..end - 1 PROVE l[q] # Quote
    <2>1. q \in 1..Len(l)
      BY <1>L, <1>10, <1>12
    <2> QED BY <1>0, <1>14, <2>1
  <1>16. end \in i + 1..Len(l) + 1
    BY <1>L, <1>10, <1>12
  <1> QED BY <1>15, <1>16 DEF Plain

LEMMA KeyedPlain ==
    ASSUME NEW l \in Seq(STRING), NEW i \in 1..Len(l)
    PROVE  MatchKeyedNumber(l, i) = 0 \/ Plain(l, i, MatchKeyedNumber(l, i))
  <1> DEFINE key == KeyBefore(l, i)
             e == KeyedEnd(l, i, key)
  <1>1. MatchKeyedNumber(l, i) = e
    BY DEF MatchKeyedNumber
  <1> HIDE DEF key
  <1>2. CASE key = "P"
    <2>1. e = MatchKeyedPhone(l, i)
      BY <1>2 DEF KeyedEnd
    <2> QED BY <1>1, <2>1, KeyedPhonePlain
  <1>3. CASE key = "I"
    <2>1. e = MatchGroupedDigits(l, i, MinID, MaxID)
      BY <1>3 DEF KeyedEnd
    <2>2. MinID \in Nat \ {0} /\ MaxID \in Nat
      BY Lengths
    <2> QED BY <1>1, <2>1, <2>2, GroupedPlain
  <1>4. CASE key = "O"
    <2>1. e = MatchGroupedDigits(l, i, MinOTP, MaxOTP)
      BY <1>4 DEF KeyedEnd
    <2>2. MinOTP \in Nat \ {0} /\ MaxOTP \in Nat
      BY Lengths
    <2> QED BY <1>1, <2>1, <2>2, GroupedPlain
  <1>5. CASE key = "S"
    <2>1. e = MatchSessionNumber(l, i)
      BY <1>5 DEF KeyedEnd
    <2> QED BY <1>1, <2>1, SessionPlain
  <1>6. CASE key # "P" /\ key # "I" /\ key # "O" /\ key # "S"
    <2>1. e = 0
      BY <1>6 DEF KeyedEnd
    <2> QED BY <1>1, <2>1
  <1> QED BY <1>2, <1>3, <1>4, <1>5, <1>6

LEMMA ShapedPlain ==
    ASSUME NEW l \in Seq(STRING), NEW i \in 1..Len(l)
    PROVE  ShapedEnd(l, i) = 0 \/ Plain(l, i, ShapedEnd(l, i))
  <1>1. CASE l[i] = "+"
    <2>1. ShapedEnd(l, i) = MatchInternationalPhone(l, i)
      BY <1>1 DEF ShapedEnd
    <2> QED BY <1>1, <2>1, InternationalPlain
  <1>2. CASE l[i] # "+" /\ (l[i] = "(" \/ MatchNANPPhone(l, i) > 0)
    <2>1. ShapedEnd(l, i) = MatchNANPPhone(l, i)
      BY <1>2 DEF ShapedEnd
    <2> QED BY <2>1, NANPPlain
  <1>3. CASE l[i] # "+" /\ ~(l[i] = "(" \/ MatchNANPPhone(l, i) > 0)
    <2>1. ShapedEnd(l, i) = MatchKeyedNumber(l, i)
      BY <1>3 DEF ShapedEnd
    <2> QED BY <2>1, KeyedPlain
  <1> QED BY <1>1, <1>2, <1>3

\* A range that is carved: plain, and no part of a longer number.
Ranges == [start : Nat, end : Nat]
Carvable(l, c) ==
    /\ c \in Ranges
    /\ c.start \in 1..Len(l)
    /\ Plain(l, c.start, c.end)
    /\ ~InsideNumber(l, c.start) /\ ~InsideNumber(l, c.end)

\* Ranges in order.
InOrder(rs) == \A a, b \in DOMAIN rs : a < b => rs[a].end <= rs[b].start

\* What is not glued is no part of a longer number.
LEMMA NotGlued ==
    ASSUME NEW l \in Seq(STRING), NEW i \in 1..Len(l), NEW e, Plain(l, i, e),
           ~PhoneGlue(At(l, i - 1)), ~PhoneGluedAfter(l, e)
    PROVE  Carvable(l, [start |-> i, end |-> e])
  <1>0. /\ Len(l) \in Nat
        /\ \A k : IsDigit(l, k) <=> k \in 1..Len(l) /\ l[k] \in Digits
        /\ \A k : At(l, k) = IF k \in 1..Len(l) THEN l[k] ELSE "none"
    BY LineIs
  <1>1. \A k : IsDigit(l, k) => At(l, k) \in Digits
    BY <1>0
  <1>2. ~IsDigit(l, i - 1) /\ At(l, i - 1) # "."
    BY <1>1 DEF PhoneGlue
  <1>3. ~InsideNumber(l, i)
    BY <1>2 DEF InsideNumber
  <1>4. ~IsDigit(l, e) /\ ~(At(l, e) = "." /\ IsDigit(l, e + 1))
    BY <1>1 DEF PhoneGluedAfter
  <1>5. ~InsideNumber(l, e)
    BY <1>4 DEF InsideNumber
  <1>6. [start |-> i, end |-> e] \in Ranges
    BY <1>0 DEF Plain, Ranges
  <1> QED BY <1>3, <1>5, <1>6 DEF Carvable

\* One range more at the end.
LEMMA OneMore ==
    ASSUME NEW rs \in Seq(Ranges), NEW r \in Ranges
    PROVE  /\ Append(rs, r) \in Seq(Ranges)
           /\ Len(Append(rs, r)) = Len(rs) + 1 /\ Len(rs) \in Nat
           /\ DOMAIN rs = 1..Len(rs) /\ DOMAIN Append(rs, r) = 1..Len(rs) + 1
           /\ \A a \in 1..Len(rs) : Append(rs, r)[a] = rs[a]
           /\ Append(rs, r)[Len(rs) + 1] = r
           /\ \A a \in 1..Len(rs) : rs[a] \in Ranges /\ rs[a].start \in Nat /\ rs[a].end \in Nat
  <1>1. /\ Append(rs, r) \in Seq(Ranges) /\ Len(rs) \in Nat /\ DOMAIN rs = 1..Len(rs)
        /\ Len(Append(rs, r)) = Len(rs) + 1
        /\ \A a \in 1..Len(rs) : Append(rs, r)[a] = rs[a]
        /\ Append(rs, r)[Len(rs) + 1] = r
    BY AppendProperties, LenProperties
  <1>2. DOMAIN Append(rs, r) = 1..Len(rs) + 1
    BY <1>1, LenProperties
  <1>3. \A a \in 1..Len(rs) : rs[a] \in Ranges
    BY ElementOfSeq
  <1> QED BY <1>1, <1>2, <1>3 DEF Ranges

LEMMA OrderMore ==
    ASSUME NEW rs \in Seq(Ranges), NEW r \in Ranges, InOrder(rs),
           \A a \in DOMAIN rs : rs[a].end <= r.start
    PROVE  InOrder(Append(rs, r))
  <1> DEFINE s == Append(rs, r)
  <1>1. /\ Len(rs) \in Nat /\ DOMAIN rs = 1..Len(rs) /\ DOMAIN s = 1..Len(rs) + 1
        /\ \A a \in 1..Len(rs) : s[a] = rs[a]
        /\ s[Len(rs) + 1] = r
    BY OneMore
  <1> HIDE DEF s
  <1>2. ASSUME NEW a \in DOMAIN s, NEW b \in DOMAIN s, a < b
        PROVE  s[a].end <= s[b].start
    <2>1. a \in 1..Len(rs) /\ (b \in 1..Len(rs) \/ b = Len(rs) + 1)
      BY <1>1, <1>2
    <2>2. CASE b \in 1..Len(rs)
      BY <1>1, <1>2, <2>1, <2>2 DEF InOrder
    <2>3. CASE b = Len(rs) + 1
      BY <1>1, <2>1, <2>3
    <2> QED BY <2>1, <2>2, <2>3
  <1>3. InOrder(s)
    BY <1>2 DEF InOrder
  <1> QED BY <1>3 DEF s

\* findShapedNumbers, after some positions.
ShapedOK(l, acc) ==
    /\ acc \in [next : Nat, out : Seq(Ranges)]
    /\ \A a \in DOMAIN acc.out : Carvable(l, acc.out[a]) /\ acc.out[a].end <= acc.next
    /\ InOrder(acc.out)

LEMMA ShapedStep ==
    ASSUME NEW l \in Seq(STRING), NEW i \in 1..Len(l), NEW acc, ShapedOK(l, acc)
    PROVE  ShapedOK(l, ShapedNext(l, acc, i))
  <1> DEFINE end == IF PhoneGlue(At(l, i - 1)) THEN 0 ELSE ShapedEnd(l, i)
             c == [start |-> i, end |-> end]
             taken == [next |-> end, out |-> Append(acc.out, c)]
             skipped == [acc EXCEPT !.next = SkipPhoneRun(l, i)]
  <1>0. Len(l) \in Nat /\ i \in Nat /\ i \in 1..Len(l) + 1
    BY LineIs
  <1>1. /\ acc \in [next : Nat, out : Seq(Ranges)] /\ acc.next \in Nat /\ acc.out \in Seq(Ranges)
        /\ \A a \in DOMAIN acc.out : Carvable(l, acc.out[a]) /\ acc.out[a].end <= acc.next
        /\ InOrder(acc.out)
    BY DEF ShapedOK
  <1>2. ASSUME ~(i < acc.next), end > 0, ~PhoneGluedAfter(l, end)
        PROVE  ShapedOK(l, taken)
    <2>1. ~PhoneGlue(At(l, i - 1)) /\ end = ShapedEnd(l, i)
      BY <1>2
    <2> HIDE DEF end
    <2>2. Plain(l, i, end)
      BY <1>2, <2>1, ShapedPlain
    <2>3. Carvable(l, c)
      BY <1>2, <2>1, <2>2, NotGlued
    <2>4. c \in Ranges /\ c.start = i /\ c.end = end /\ end \in Nat /\ i < end
      BY <1>0, <2>2, <2>3 DEF Carvable, Plain
    <2> HIDE DEF c
    <2>5. \A a \in DOMAIN acc.out : acc.out[a].end <= i
      <3> SUFFICES ASSUME NEW a \in DOMAIN acc.out PROVE acc.out[a].end <= i
        OBVIOUS
      <3>1. acc.out[a].end \in Nat /\ acc.out[a].end <= acc.next
        BY <1>1 DEF Carvable, Ranges
      <3> QED BY <1>0, <1>1, <1>2, <3>1
    <2>6. InOrder(Append(acc.out, c))
      BY <1>1, <2>4, <2>5, OrderMore
    <2> DEFINE s == Append(acc.out, c)
    <2>7. /\ s \in Seq(Ranges) /\ DOMAIN acc.out = 1..Len(acc.out) /\ DOMAIN s = 1..Len(acc.out) + 1
          /\ Len(acc.out) \in Nat
          /\ \A a \in 1..Len(acc.out) : s[a] = acc.out[a]
          /\ s[Len(acc.out) + 1] = c
          /\ \A a \in 1..Len(acc.out) : acc.out[a].end \in Nat
      BY <1>1, <2>4, OneMore
    <2>8. taken.next = end /\ taken.out = s /\ taken \in [next : Nat, out : Seq(Ranges)]
      BY <2>4, <2>7
    <2> HIDE DEF s, taken
    <2>9. ASSUME NEW a \in DOMAIN s PROVE Carvable(l, s[a]) /\ s[a].end <= end
      <3>1. CASE a \in 1..Len(acc.out)
        <4>1. Carvable(l, s[a]) /\ s[a].end \in Nat /\ s[a].end <= i
          BY <1>1, <2>5, <2>7, <3>1
        <4> QED BY <1>0, <2>4, <4>1
      <3>2. CASE a = Len(acc.out) + 1
        BY <2>3, <2>4, <2>7, <3>2
      <3> QED BY <2>7, <3>1, <3>2
    <2> QED BY <2>6, <2>8, <2>9 DEF ShapedOK, s
  <1>3. ASSUME ~(i < acc.next) PROVE ShapedOK(l, skipped)
    <2>1. SkipPhoneRun(l, i) \in Nat /\ SkipPhoneRun(l, i) >= i
      <3>1. RunOf(l, i, Len(l)) \in i..Len(l) + 1
        BY <1>0, RunOfIs
      <3> QED BY <1>0, <3>1 DEF SkipPhoneRun
    <2>2. /\ skipped.next = SkipPhoneRun(l, i) /\ skipped.out = acc.out
          /\ skipped \in [next : Nat, out : Seq(Ranges)]
      BY <1>1, <2>1
    <2> HIDE DEF skipped
    <2>3. ASSUME NEW a \in DOMAIN acc.out PROVE acc.out[a].end <= skipped.next
      <3>1. acc.out[a].end \in Nat /\ acc.out[a].end <= acc.next
        BY <1>1 DEF Carvable, Ranges
      <3> QED BY <1>0, <1>1, <1>3, <2>1, <2>2, <3>1
    <2> QED BY <1>1, <2>2, <2>3 DEF ShapedOK
  <1>4. \/ ShapedNext(l, acc, i) = acc
        \/ ~(i < acc.next) /\ end > 0 /\ ~PhoneGluedAfter(l, end) /\ ShapedNext(l, acc, i) = taken
        \/ ~(i < acc.next) /\ ShapedNext(l, acc, i) = skipped
    BY DEF ShapedNext, ShapedThen
  <1> HIDE DEF end, taken, skipped
  <1> QED BY <1>2, <1>3, <1>4

\* The shaped numbers of a line can be carved, and are in order.
LEMMA NumbersCarvable ==
    ASSUME NEW l \in Seq(STRING)
    PROVE  LET ns == FindShapedNumbers(l)
           IN  /\ ns \in Seq(Ranges) /\ InOrder(ns)
               /\ \A a \in DOMAIN ns : Carvable(l, ns[a])
  <1>0. Len(l) \in Nat
    BY LineIs
  <1>1. PICK f : ShapedRun(l, f)
    BY <1>0, ShapedLoop
  <1>2. /\ f[0] = [next |-> 1, out |-> <<>>]
        /\ \A n \in 1..Len(l) : f[n] = ShapedNext(l, f[n - 1], n)
        /\ FindShapedNumbers(l) = f[Len(l)].out
    BY <1>1 DEF ShapedRun
  <1> DEFINE B == {n \in 0..Len(l) : ShapedOK(l, f[n])}
  <1>3. 0 \in B
    <2>1. <<>> \in Seq(Ranges) /\ DOMAIN <<>> = {}
      BY EmptySeq
    <2>2. f[0] \in [next : Nat, out : Seq(Ranges)] /\ f[0].out = <<>>
      BY <1>2, <2>1
    <2> QED BY <1>0, <2>1, <2>2 DEF ShapedOK, InOrder
  <1>4. ASSUME NEW n \in 0..Len(l) - 1, n \in B PROVE n + 1 \in B
    <2>1. n + 1 \in 1..Len(l) /\ n + 1 \in 0..Len(l) /\ (n + 1) - 1 = n
      BY <1>0
    <2>2. f[n + 1] = ShapedNext(l, f[n], n + 1)
      BY <1>2, <2>1
    <2>3. ShapedOK(l, f[n])
      BY <1>4
    <2> QED BY <2>1, <2>2, <2>3, ShapedStep
  <1>5. Len(l) \in B
    <2> HIDE DEF B
    <2>1. 0..Len(l) \subseteq B
      BY <1>0, <1>3, <1>4, CountUp
    <2> QED BY <1>0, <2>1
  <1>6. ShapedOK(l, f[Len(l)])
    BY <1>5
  <1> QED BY <1>2, <1>6 DEF ShapedOK

------------------------------------------------------------------------------
(* mergeCarves: every number, and the cards that do not overlap one.       *)

\* mergeCarves after some rounds: what was taken lies before what is left.
CarvesOK(cs, ns, m) ==
    /\ m \in [i : 1..Len(cs) + 1, j : 1..Len(ns) + 1, out : Seq(Ranges)]
    /\ InOrder(m.out)
    /\ \A a \in DOMAIN m.out : \E b : \/ b \in DOMAIN cs /\ m.out[a] = cs[b]
                                      \/ b \in DOMAIN ns /\ m.out[a] = ns[b]
    /\ \A a \in DOMAIN m.out : \A b \in DOMAIN cs : b >= m.i => m.out[a].end <= cs[b].start
    /\ \A a \in DOMAIN m.out : \A b \in DOMAIN ns : b >= m.j => m.out[a].end <= ns[b].start
    /\ \A b \in 1..m.j - 1 : \E a \in DOMAIN m.out : m.out[a] = ns[b]

\* One more range is taken, which lies before what is left.
LEMMA TakeOne ==
    ASSUME NEW cs \in Seq(Ranges), NEW ns \in Seq(Ranges), NEW m, CarvesOK(cs, ns, m),
           NEW i \in 1..Len(cs) + 1, NEW j \in 1..Len(ns) + 1, NEW r \in Ranges,
           i >= m.i, j >= m.j,
           \E b : \/ b \in DOMAIN cs /\ r = cs[b]
                  \/ b \in DOMAIN ns /\ r = ns[b],
           \A a \in DOMAIN m.out : m.out[a].end <= r.start,
           \A b \in DOMAIN cs : b >= i => r.end <= cs[b].start,
           \A b \in DOMAIN ns : b >= j => r.end <= ns[b].start,
           \A b \in m.j..j - 1 : r = ns[b]
    PROVE  CarvesOK(cs, ns, [i |-> i, j |-> j, out |-> Append(m.out, r)])
  <1> DEFINE s == Append(m.out, r)
             z == [i |-> i, j |-> j, out |-> s]
  <1>0. Len(cs) \in Nat /\ Len(ns) \in Nat /\ DOMAIN cs = 1..Len(cs) /\ DOMAIN ns = 1..Len(ns)
    BY LenProperties
  <1>1. /\ m.i \in 1..Len(cs) + 1 /\ m.j \in 1..Len(ns) + 1 /\ m.out \in Seq(Ranges)
        /\ InOrder(m.out)
        /\ \A a \in DOMAIN m.out : \E b : \/ b \in DOMAIN cs /\ m.out[a] = cs[b]
                                          \/ b \in DOMAIN ns /\ m.out[a] = ns[b]
        /\ \A a \in DOMAIN m.out : \A b \in DOMAIN cs : b >= m.i => m.out[a].end <= cs[b].start
        /\ \A a \in DOMAIN m.out : \A b \in DOMAIN ns : b >= m.j => m.out[a].end <= ns[b].start
        /\ \A b \in 1..m.j - 1 : \E a \in DOMAIN m.out : m.out[a] = ns[b]
    BY DEF CarvesOK
  <1>2. /\ s \in Seq(Ranges) /\ DOMAIN m.out = 1..Len(m.out) /\ DOMAIN s = 1..Len(m.out) + 1
        /\ Len(m.out) \in Nat
        /\ \A a \in 1..Len(m.out) : s[a] = m.out[a]
        /\ s[Len(m.out) + 1] = r
    BY <1>1, OneMore
  <1>3. InOrder(s)
    BY <1>1, OrderMore
  <1>4. z \in [i : 1..Len(cs) + 1, j : 1..Len(ns) + 1, out : Seq(Ranges)]
        /\ z.i = i /\ z.j = j /\ z.out = s
    <2>1. s \in Seq(Ranges)
      BY <1>2
    <2> HIDE DEF s
    <2> QED BY <2>1
  <1> HIDE DEF s
  <1>5. \A a \in DOMAIN s : (a \in DOMAIN m.out /\ s[a] = m.out[a]) \/ s[a] = r
    <2>1. \A n \in Nat : \A a \in 1..n + 1 : a \in 1..n \/ a = n + 1
      OBVIOUS
    <2> QED BY <1>2, <2>1, Zenon
  <1>6. \A a \in DOMAIN s : \E b : \/ b \in DOMAIN cs /\ s[a] = cs[b]
                                   \/ b \in DOMAIN ns /\ s[a] = ns[b]
    <2> SUFFICES ASSUME NEW a \in DOMAIN s
                 PROVE  \E b : \/ b \in DOMAIN cs /\ s[a] = cs[b]
                               \/ b \in DOMAIN ns /\ s[a] = ns[b]
      OBVIOUS
    <2>1. CASE a \in DOMAIN m.out /\ s[a] = m.out[a]
      BY <1>1, <2>1
    <2>2. CASE s[a] = r
      BY <2>2
    <2> QED BY <1>5, <2>1, <2>2
  <1>7. \A a \in DOMAIN s : \A b \in DOMAIN cs : b >= i => s[a].end <= cs[b].start
    <2> SUFFICES ASSUME NEW a \in DOMAIN s, NEW b \in DOMAIN cs, b >= i
                 PROVE  s[a].end <= cs[b].start
      OBVIOUS
    <2>1. b >= m.i
      BY <1>0, <1>1
    <2> QED BY <1>1, <1>5, <2>1
  <1>8. \A a \in DOMAIN s : \A b \in DOMAIN ns : b >= j => s[a].end <= ns[b].start
    <2> SUFFICES ASSUME NEW a \in DOMAIN s, NEW b \in DOMAIN ns, b >= j
                 PROVE  s[a].end <= ns[b].start
      OBVIOUS
    <2>1. b >= m.j
      BY <1>0, <1>1
    <2> QED BY <1>1, <1>5, <2>1
  <1>9. \A b \in 1..j - 1 : \E a \in DOMAIN s : s[a] = ns[b]
    <2> SUFFICES ASSUME NEW b \in 1..j - 1 PROVE \E a \in DOMAIN s : s[a] = ns[b]
      OBVIOUS
    <2>1. CASE b \in 1..m.j - 1
      <3>1. PICK a \in DOMAIN m.out : m.out[a] = ns[b]
        BY <1>1, <2>1
      <3>2. a \in DOMAIN s /\ s[a] = m.out[a]
        BY <1>2
      <3> QED BY <3>1, <3>2
    <2>2. CASE b \in m.j..j - 1
      <3>1. Len(m.out) + 1 \in DOMAIN s
        BY <1>2
      <3> QED BY <1>2, <2>2, <3>1
    <2> QED BY <1>0, <1>1, <2>1, <2>2
  <1>10. CarvesOK(cs, ns, z)
    <2> HIDE DEF z
    <2> QED BY <1>3, <1>4, <1>6, <1>7, <1>8, <1>9 DEF CarvesOK
  <1> QED BY <1>10 DEF s

LEMMA CarveStep ==
    ASSUME NEW cs \in Seq(Ranges), NEW ns \in Seq(Ranges), InOrder(cs), InOrder(ns),
           \A a \in DOMAIN cs : cs[a].start <= cs[a].end,
           \A a \in DOMAIN ns : ns[a].start <= ns[a].end,
           NEW m, CarvesOK(cs, ns, m), m.i + m.j < Len(cs) + Len(ns) + 2
    PROVE  LET z == CarveNext(m, cs, ns)
           IN  CarvesOK(cs, ns, z) /\ z.i + z.j = m.i + m.j + 1
  <1> DEFINE z == CarveNext(m, cs, ns)
  <1>0. Len(cs) \in Nat /\ Len(ns) \in Nat /\ DOMAIN cs = 1..Len(cs) /\ DOMAIN ns = 1..Len(ns)
    BY LenProperties
  <1>1. /\ m \in [i : 1..Len(cs) + 1, j : 1..Len(ns) + 1, out : Seq(Ranges)]
        /\ m.i \in 1..Len(cs) + 1 /\ m.j \in 1..Len(ns) + 1
        /\ \A a \in DOMAIN m.out : \A b \in DOMAIN cs : b >= m.i => m.out[a].end <= cs[b].start
        /\ \A a \in DOMAIN m.out : \A b \in DOMAIN ns : b >= m.j => m.out[a].end <= ns[b].start
    BY DEF CarvesOK
  <1>2. /\ \A b \in 1..Len(cs) : cs[b] \in Ranges /\ cs[b].start \in Nat /\ cs[b].end \in Nat
        /\ \A b \in 1..Len(ns) : ns[b] \in Ranges /\ ns[b].start \in Nat /\ ns[b].end \in Nat
    BY OneMore
  <1>3. TakeCard(m, cs) = [i |-> m.i + 1, j |-> m.j, out |-> Append(m.out, cs[m.i])]
    BY DEF TakeCard
  <1>4. TakeNumber(m, ns) = [i |-> m.i, j |-> m.j + 1, out |-> Append(m.out, ns[m.j])]
    BY DEF TakeNumber
  <1>5. ASSUME m.i \in 1..Len(cs), \A b \in DOMAIN ns : b >= m.j => cs[m.i].end <= ns[b].start
        PROVE  CarvesOK(cs, ns, TakeCard(m, cs))
    <2>1. /\ m.i + 1 \in 1..Len(cs) + 1 /\ m.i + 1 >= m.i /\ m.j >= m.j /\ cs[m.i] \in Ranges
          /\ m.i \in DOMAIN cs
      BY <1>0, <1>1, <1>2, <1>5
    <2>2. \A a \in DOMAIN m.out : m.out[a].end <= cs[m.i].start
      <3>1. m.i \in DOMAIN cs /\ m.i >= m.i
        BY <2>1, <1>1
      <3> QED BY <1>1, <3>1
    <2>3. \A b \in DOMAIN cs : b >= m.i + 1 => cs[m.i].end <= cs[b].start
      BY <1>0, <1>5 DEF InOrder
    <2>4. \A b \in m.j..m.j - 1 : cs[m.i] = ns[b]
      BY <1>1
    <2>5. CarvesOK(cs, ns, [i |-> m.i + 1, j |-> m.j, out |-> Append(m.out, cs[m.i])])
      BY <1>1, <1>5, <2>1, <2>2, <2>3, <2>4, TakeOne
    <2> QED BY <1>3, <2>5
  <1>6. ASSUME m.j \in 1..Len(ns), \A b \in DOMAIN cs : b >= m.i => ns[m.j].end <= cs[b].start
        PROVE  CarvesOK(cs, ns, TakeNumber(m, ns))
    <2>1. /\ m.j + 1 \in 1..Len(ns) + 1 /\ m.j + 1 >= m.j /\ m.i >= m.i /\ ns[m.j] \in Ranges
          /\ m.j \in DOMAIN ns
      BY <1>0, <1>1, <1>2, <1>6
    <2>2. \A a \in DOMAIN m.out : m.out[a].end <= ns[m.j].start
      BY <1>0, <1>1, <1>6
    <2>3. \A b \in DOMAIN ns : b >= m.j + 1 => ns[m.j].end <= ns[b].start
      BY <1>0, <1>6 DEF InOrder
    <2>4. \A b \in m.j..(m.j + 1) - 1 : ns[m.j] = ns[b]
      BY <1>1
    <2>5. CarvesOK(cs, ns, [i |-> m.i, j |-> m.j + 1, out |-> Append(m.out, ns[m.j])])
      BY <1>1, <1>6, <2>1, <2>2, <2>3, <2>4, TakeOne
    <2> QED BY <1>4, <2>5
  <1>7. TakeCard(m, cs).i + TakeCard(m, cs).j = m.i + m.j + 1
    BY <1>1, <1>3
  <1>8. TakeNumber(m, ns).i + TakeNumber(m, ns).j = m.i + m.j + 1
    BY <1>1, <1>4
  <1>9. CASE m.j > Len(ns)
    <2>1. z = TakeCard(m, cs)
      BY <1>9 DEF CarveNext
    <2>2. m.i \in 1..Len(cs) /\ \A b \in DOMAIN ns : ~(b >= m.j)
      BY <1>0, <1>1, <1>9
    <2> QED BY <1>5, <1>7, <2>1, <2>2
  <1>10. CASE ~(m.j > Len(ns)) /\ m.i > Len(cs)
    <2>1. z = TakeNumber(m, ns)
      BY <1>10 DEF CarveNext
    <2>2. m.j \in 1..Len(ns) /\ \A b \in DOMAIN cs : ~(b >= m.i)
      BY <1>0, <1>1, <1>10
    <2> QED BY <1>6, <1>8, <2>1, <2>2
  <1>11. CASE ~(m.j > Len(ns)) /\ ~(m.i > Len(cs)) /\ ns[m.j].end <= cs[m.i].start
    <2>1. z = TakeNumber(m, ns)
      BY <1>11 DEF CarveNext
    <2>2. m.j \in 1..Len(ns) /\ m.i \in 1..Len(cs)
      BY <1>0, <1>1, <1>11
    <2>3. ASSUME NEW b \in DOMAIN cs, b >= m.i PROVE ns[m.j].end <= cs[b].start
      <3>1. b = m.i \/ cs[m.i].end <= cs[b].start
        <4>1. b = m.i \/ m.i < b
          BY <1>0, <2>2, <2>3
        <4>2. m.i \in DOMAIN cs
          BY <1>0, <2>2
        <4> QED BY <2>3, <4>1, <4>2, Zenon DEF InOrder
      <3>2. cs[m.i].start <= cs[m.i].end /\ b \in 1..Len(cs)
        BY <1>0, <2>2
      <3>3. /\ cs[m.i].start \in Nat /\ cs[m.i].end \in Nat /\ cs[b].start \in Nat
            /\ ns[m.j].end \in Nat
        BY <1>2, <2>2, <3>2
      <3>4. \A x, y, u, v \in Nat : x <= y /\ y <= u /\ u <= v => x <= v
        OBVIOUS
      <3>5. CASE b = m.i
        BY <1>11, <3>5, Zenon
      <3>6. CASE cs[m.i].end <= cs[b].start
        BY <1>11, <3>2, <3>3, <3>4, <3>6, Zenon
      <3> QED BY <3>1, <3>5, <3>6
    <2> QED BY <1>6, <1>8, <2>1, <2>2, <2>3
  <1>12. CASE ~(m.j > Len(ns)) /\ ~(m.i > Len(cs)) /\ ~(ns[m.j].end <= cs[m.i].start)
              /\ cs[m.i].end <= ns[m.j].start
    <2>1. z = TakeCard(m, cs)
      BY <1>12 DEF CarveNext
    <2>2. m.j \in 1..Len(ns) /\ m.i \in 1..Len(cs)
      BY <1>0, <1>1, <1>12
    <2>3. ASSUME NEW b \in DOMAIN ns, b >= m.j PROVE cs[m.i].end <= ns[b].start
      <3>1. b = m.j \/ ns[m.j].end <= ns[b].start
        <4>1. b = m.j \/ m.j < b
          BY <1>0, <2>2, <2>3
        <4>2. m.j \in DOMAIN ns
          BY <1>0, <2>2
        <4> QED BY <2>3, <4>1, <4>2, Zenon DEF InOrder
      <3>2. ns[m.j].start <= ns[m.j].end /\ b \in 1..Len(ns)
        BY <1>0, <2>2
      <3>3. /\ ns[m.j].start \in Nat /\ ns[m.j].end \in Nat /\ ns[b].start \in Nat
            /\ cs[m.i].end \in Nat
        BY <1>2, <2>2, <3>2
      <3>4. \A x, y, u, v \in Nat : x <= y /\ y <= u /\ u <= v => x <= v
        OBVIOUS
      <3>5. CASE b = m.j
        BY <1>12, <3>5, Zenon
      <3>6. CASE ns[m.j].end <= ns[b].start
        BY <1>12, <3>2, <3>3, <3>4, <3>6, Zenon
      <3> QED BY <3>1, <3>5, <3>6
    <2> QED BY <1>5, <1>7, <2>1, <2>2, <2>3
  <1>13. CASE ~(m.j > Len(ns)) /\ ~(m.i > Len(cs)) /\ ~(ns[m.j].end <= cs[m.i].start)
              /\ ~(cs[m.i].end <= ns[m.j].start)
    <2> DEFINE y == [i |-> m.i + 1, j |-> m.j, out |-> m.out]
    <2>1. z = y
      BY <1>13 DEF CarveNext
    <2>2. m.i \in 1..Len(cs)
      BY <1>0, <1>1, <1>13
    <2>3. /\ y \in [i : 1..Len(cs) + 1, j : 1..Len(ns) + 1, out : Seq(Ranges)]
          /\ y.i = m.i + 1 /\ y.j = m.j /\ y.out = m.out
      BY <1>0, <1>1, <2>2
    <2> HIDE DEF y, z
    <2>4. \A a \in DOMAIN m.out : \A b \in DOMAIN cs : b >= m.i + 1 => m.out[a].end <= cs[b].start
      <3>1. \A b \in DOMAIN cs : b >= m.i + 1 => b >= m.i
        BY <1>0, <1>1
      <3> QED BY <1>1, <3>1
    <2>5. CarvesOK(cs, ns, y)
      BY <2>3, <2>4 DEF CarvesOK
    <2>6. y.i + y.j = m.i + m.j + 1
      BY <1>1, <2>3
    <2> QED BY <2>1, <2>5, <2>6 DEF z
  <1> QED BY <1>9, <1>10, <1>11, <1>12, <1>13

\* mergeCarves returns ranges in order, each a card or a number, and every

\* number.
LEMMA CarvesMerged ==
    ASSUME NEW cs \in Seq(Ranges), NEW ns \in Seq(Ranges), InOrder(cs), InOrder(ns),
           \A a \in DOMAIN cs : cs[a].start <= cs[a].end,
           \A a \in DOMAIN ns : ns[a].start <= ns[a].end
    PROVE  LET ms == MergeCarves(cs, ns)
           IN  /\ ms \in Seq(Ranges) /\ InOrder(ms)
               /\ \A a \in DOMAIN ms : \E b : \/ b \in DOMAIN cs /\ ms[a] = cs[b]
                                              \/ b \in DOMAIN ns /\ ms[a] = ns[b]
               /\ \A b \in DOMAIN ns : \E a \in DOMAIN ms : ms[a] = ns[b]
  <1> DEFINE N == Len(cs) + Len(ns)
  <1>0. /\ Len(cs) \in Nat /\ Len(ns) \in Nat /\ N \in Nat
        /\ DOMAIN cs = 1..Len(cs) /\ DOMAIN ns = 1..Len(ns)
    BY LenProperties
  <1>1. PICK f : CarvesRun(cs, ns, f)
    BY <1>0, CarvesLoop
  <1>2. /\ f[0] = [i |-> 1, j |-> 1, out |-> <<>>]
        /\ \A n \in 1..N : f[n] = CarveNext(f[n - 1], cs, ns)
        /\ MergeCarves(cs, ns) = f[N].out
    BY <1>1 DEF CarvesRun
  <1> DEFINE B == {n \in 0..N : CarvesOK(cs, ns, f[n]) /\ f[n].i + f[n].j = n + 2}
  <1>3. 0 \in B
    <2>1. <<>> \in Seq(Ranges) /\ DOMAIN <<>> = {}
      BY EmptySeq
    <2>2. /\ f[0] \in [i : 1..Len(cs) + 1, j : 1..Len(ns) + 1, out : Seq(Ranges)]
          /\ f[0].i = 1 /\ f[0].j = 1 /\ f[0].out = <<>>
      BY <1>0, <1>2, <2>1
    <2>3. CarvesOK(cs, ns, f[0])
      BY <2>1, <2>2 DEF CarvesOK, InOrder
    <2> QED BY <1>0, <2>2, <2>3
  <1>4. ASSUME NEW n \in 0..N - 1, n \in B PROVE n + 1 \in B
    <2>1. n + 1 \in 1..N /\ n + 1 \in 0..N /\ (n + 1) - 1 = n
      BY <1>0
    <2>2. f[n + 1] = CarveNext(f[n], cs, ns)
      BY <1>2, <2>1
    <2>3. CarvesOK(cs, ns, f[n]) /\ f[n].i + f[n].j = n + 2 /\ f[n].i + f[n].j < Len(cs) + Len(ns) + 2
      BY <1>0, <1>4
    <2>4. CarvesOK(cs, ns, f[n + 1]) /\ f[n + 1].i + f[n + 1].j = (n + 2) + 1
      BY <2>2, <2>3, CarveStep
    <2> QED BY <2>1, <2>4
  <1>5. N \in B
    <2> HIDE DEF B, N
    <2>1. 0..N \subseteq B
      BY <1>0, <1>3, <1>4, CountUp
    <2> QED BY <1>0, <2>1
  <1> DEFINE m == f[N]
  <1>6. CarvesOK(cs, ns, m) /\ m.i + m.j = N + 2
    BY <1>5
  <1>7. MergeCarves(cs, ns) = m.out
    BY <1>2
  <1> HIDE DEF m
  <1>8. m.j = Len(ns) + 1
    <2>1. m.i \in 1..Len(cs) + 1 /\ m.j \in 1..Len(ns) + 1
      BY <1>6 DEF CarvesOK
    <2> QED BY <1>0, <1>6, <2>1
  <1>9. \A b \in DOMAIN ns : \E a \in DOMAIN m.out : m.out[a] = ns[b]
    <2>1. 1..m.j - 1 = DOMAIN ns
      BY <1>0, <1>8
    <2> QED BY <1>6, <2>1 DEF CarvesOK
  <1>10. /\ m.out \in Seq(Ranges) /\ InOrder(m.out)
         /\ \A a \in DOMAIN m.out : \E b : \/ b \in DOMAIN cs /\ m.out[a] = cs[b]
                                           \/ b \in DOMAIN ns /\ m.out[a] = ns[b]
    BY <1>6 DEF CarvesOK
  <1> QED BY <1>7, <1>9, <1>10
------------------------------------------------------------------------------
(* Cards: the digits of a line, the windows on them, the ranges they make. *)

\* s holds the positions of the digits among the first n characters, in order.
DigitsOK(l, n, s) ==
    /\ s \in Seq(Nat)
    /\ \A a \in 1..Len(s) : s[a] \in 1..n /\ l[s[a]] \in Digits
    /\ \A a, b \in 1..Len(s) : a < b => s[a] < s[b]
    /\ \A p \in 1..n : l[p] \in Digits => \E a \in 1..Len(s) : s[a] = p

LEMMA DigitStep ==
    ASSUME NEW l \in Seq(STRING), NEW n \in Nat, NEW s, DigitsOK(l, n, s)
    PROVE  DigitsOK(l, n + 1, DigitNext(l, s, n + 1))
  <1> DEFINE t == Append(s, n + 1)
  <1>0. /\ s \in Seq(Nat) /\ Len(s) \in Nat
        /\ \A a \in 1..Len(s) : s[a] \in 1..n /\ l[s[a]] \in Digits
        /\ \A a, b \in 1..Len(s) : a < b => s[a] < s[b]
        /\ \A p \in 1..n : l[p] \in Digits => \E a \in 1..Len(s) : s[a] = p
    BY LenProperties DEF DigitsOK
  <1>a. Len(s) \in Nat
    BY <1>0
  <1>1. CASE l[n + 1] \in Digits
    <2>1. /\ t \in Seq(Nat) /\ Len(t) = Len(s) + 1 /\ \A a \in 1..Len(s) : t[a] = s[a]
          /\ t[Len(s) + 1] = n + 1
      BY <1>0, AppendProperties
    <2> HIDE DEF t
    <2>a. Len(t) = Len(s) + 1
      BY <2>1
    <2>2. ASSUME NEW a \in 1..Len(t) PROVE t[a] \in 1..n + 1 /\ l[t[a]] \in Digits
      <3>1. a \in 1..Len(s) \/ a = Len(s) + 1
        BY <1>a, <2>a
      <3>2. CASE a \in 1..Len(s)
        <4>1. t[a] = s[a] /\ s[a] \in 1..n /\ l[s[a]] \in Digits
          BY <1>0, <2>1, <3>2
        <4> QED BY <4>1
      <3>3. CASE a = Len(s) + 1
        <4>1. t[a] = n + 1
          BY <2>1, <3>3
        <4> QED BY <1>1, <4>1
      <3> QED BY <3>1, <3>2, <3>3
    <2>3. ASSUME NEW a \in 1..Len(t), NEW b \in 1..Len(t), a < b PROVE t[a] < t[b]
      <3>1. a \in 1..Len(s) /\ (b \in 1..Len(s) \/ b = Len(s) + 1)
        BY <1>a, <2>a, <2>3
      <3>2. CASE b \in 1..Len(s)
        BY <1>0, <2>1, <2>3, <3>1, <3>2
      <3>3. CASE b = Len(s) + 1
        <4>1. t[a] = s[a] /\ s[a] \in 1..n /\ t[b] = n + 1
          BY <1>0, <2>1, <3>1, <3>3
        <4> QED BY <4>1
      <3> QED BY <3>1, <3>2, <3>3
    <2>4. ASSUME NEW p \in 1..n + 1, l[p] \in Digits PROVE \E a \in 1..Len(t) : t[a] = p
      <3>1. CASE p = n + 1
        BY <1>0, <2>1, <3>1
      <3>2. CASE p \in 1..n
        <4>1. PICK a \in 1..Len(s) : s[a] = p
          BY <1>0, <2>4, <3>2
        <4>2. a \in 1..Len(t)
          BY <1>a, <2>a, <4>1
        <4>3. t[a] = p
          BY <2>1, <4>1
        <4> QED BY <4>2, <4>3
      <3> QED BY <3>1, <3>2
    <2>5. DigitNext(l, s, n + 1) = t
      BY <1>1 DEF DigitNext, t
    <2>6. DigitsOK(l, n + 1, t)
      BY <2>1, <2>2, <2>3, <2>4 DEF DigitsOK
    <2> QED BY <2>5, <2>6
  <1>2. CASE l[n + 1] \notin Digits
    <2>1. DigitNext(l, s, n + 1) = s
      BY <1>2 DEF DigitNext
    <2>2. \A a \in 1..Len(s) : s[a] \in 1..n + 1
      BY <1>0
    <2>3. \A p \in 1..n + 1 : l[p] \in Digits => p \in 1..n
      BY <1>2
    <2>4. DigitsOK(l, n + 1, s)
      BY <1>0, <2>2, <2>3 DEF DigitsOK
    <2> QED BY <2>1, <2>4
  <1> QED BY <1>1, <1>2

\* The digits of a line.
LEMMA DigitsAre ==
    ASSUME NEW l \in Seq(STRING)
    PROVE  DigitsOK(l, Len(l), DigitIndices(l))
  <1>0. Len(l) \in Nat
    BY LineIs
  <1>1. PICK f : DigitsRun(l, f)
    BY DigitsLoop
  <1>2. /\ f[0] = <<>>
        /\ \A n \in 1..Len(l) : f[n] = DigitNext(l, f[n - 1], n)
        /\ DigitIndices(l) = f[Len(l)]
    BY <1>1 DEF DigitsRun
  <1> DEFINE B == {n \in 0..Len(l) : DigitsOK(l, n, f[n])}
  <1>3. 0 \in B
    <2>1. <<>> \in Seq(Nat) /\ Len(<<>>) = 0
      BY EmptySeq
    <2>2. DigitsOK(l, 0, <<>>)
      BY <2>1 DEF DigitsOK
    <2> QED BY <1>0, <1>2, <2>2
  <1>4. ASSUME NEW n \in 0..Len(l) - 1, n \in B PROVE n + 1 \in B
    <2>1. n + 1 \in 1..Len(l) /\ n + 1 \in 0..Len(l) /\ (n + 1) - 1 = n /\ n \in Nat
      BY <1>0
    <2>2. f[n + 1] = DigitNext(l, f[n], n + 1)
      BY <1>2, <2>1
    <2>3. DigitsOK(l, n, f[n])
      BY <1>4
    <2> QED BY <2>1, <2>2, <2>3, DigitStep
  <1>5. Len(l) \in B
    <2> HIDE DEF B
    <2>1. 0..Len(l) \subseteq B
      BY <1>0, <1>3, <1>4, CountUp
    <2> QED BY <1>0, <2>1
  <1> QED BY <1>2, <1>5

\* The run of connected digits is followed to its end.
LEMMA RunEndIs ==
    ASSUME NEW l, NEW d \in Seq(Nat), NEW e \in 1..Len(d) + 1
    PROVE  LET r == RunEnd(l, d, e)
           IN  /\ r \in e..Len(d) + 1
               /\ \A k \in e..r - 1 : DigitsConnected(l, d[k - 1], d[k])
               /\ r <= Len(d) => ~DigitsConnected(l, d[r - 1], d[r])
  <1> DEFINE Run(r) == /\ \A k \in e..r - 1 : DigitsConnected(l, d[k - 1], d[k])
                       /\ r <= Len(d) => ~DigitsConnected(l, d[r - 1], d[r])
             T == {r \in e..Len(d) + 1 : r <= Len(d) => ~DigitsConnected(l, d[r - 1], d[r])}
  <1>0. Len(d) \in Nat
    BY LenProperties
  <1>1. Len(d) + 1 \in T /\ T \subseteq Nat
    BY <1>0
  <1>2. PICK r \in T : \A m \in T : r <= m
    <2> HIDE DEF T
    <2> QED BY <1>1, LeastOf
  <1>3. r \in e..Len(d) + 1 /\ (r <= Len(d) => ~DigitsConnected(l, d[r - 1], d[r]))
    BY <1>2
  <1>4. ASSUME NEW k \in e..r - 1 PROVE DigitsConnected(l, d[k - 1], d[k])
    <2>1. k \in e..Len(d) + 1 /\ k <= Len(d) /\ ~(r <= k)
      BY <1>0, <1>3
    <2>2. k \notin T
      <3> HIDE DEF T
      <3> QED BY <1>2, <2>1
    <2> QED BY <2>1, <2>2
  <1>5. \E x \in e..Len(d) + 1 : Run(x)
    BY <1>3, <1>4
  <1>6. RunEnd(l, d, e) = CHOOSE x \in e..Len(d) + 1 : Run(x)
    BY DEF RunEnd
  <1>7. RunEnd(l, d, e) \in e..Len(d) + 1 /\ Run(RunEnd(l, d, e))
    <2> HIDE DEF Run
    <2> QED BY <1>5, <1>6
  <1> QED BY <1>7
\* A window on connected digits, of a card's length, that is a card.
IsWindow(l, d, i, L) ==
    /\ i \in 1..Len(d) /\ L \in MinCard..MaxCard /\ i + L - 1 <= Len(d)
    /\ \A k \in i + 1..i + L - 1 : DigitsConnected(l, d[k - 1], d[k])
    /\ Fits(l, d, i, L)

\* The windows from the i-th digit on, of the first n lengths.
WindowsOK(l, d, i, n, ws) ==
    /\ ws \in Seq(Ranges)
    /\ \A a \in DOMAIN ws : \E L \in MinCard..MinCard + n - 1 :
           Fits(l, d, i, L) /\ ws[a] = Window(d, i, L)
    /\ \A L \in MinCard..MinCard + n - 1 :
           Fits(l, d, i, L) => \E a \in DOMAIN ws : ws[a] = Window(d, i, L)

LEMMA WindowRange ==
    ASSUME NEW d \in Seq(Nat), NEW i \in 1..Len(d), NEW L \in Nat \ {0}, i + L - 1 <= Len(d)
    PROVE  /\ Window(d, i, L) \in Ranges
           /\ Window(d, i, L).start = d[i] /\ Window(d, i, L).end = d[i + L - 1] + 1
  <1>1. Len(d) \in Nat
    BY LenProperties
  <1>2. i + L - 1 \in 1..Len(d)
    BY <1>1
  <1>3. d[i] \in Nat /\ d[i + L - 1] \in Nat
    BY <1>2, ElementOfSeq
  <1> QED BY <1>3 DEF Window, Ranges

LEMMA WindowStep ==
    ASSUME NEW l, NEW d \in Seq(Nat), NEW i \in 1..Len(d), NEW n \in Nat, NEW ws,
           i + (MinCard + n) - 1 <= Len(d), WindowsOK(l, d, i, n, ws)
    PROVE  WindowsOK(l, d, i, n + 1, WindowNext(l, d, i, ws, MinCard + (n + 1) - 1))
  <1> DEFINE L0 == MinCard + (n + 1) - 1
             w == Window(d, i, L0)
             t == Append(ws, w)
  <1>0. MinCard \in Nat \ {0} /\ L0 = MinCard + n /\ L0 \in Nat \ {0}
    BY Lengths
  <1>1. w \in Ranges
    BY <1>0, WindowRange
  <1>2. /\ ws \in Seq(Ranges)
        /\ \A a \in DOMAIN ws : \E L \in MinCard..MinCard + n - 1 :
               Fits(l, d, i, L) /\ ws[a] = Window(d, i, L)
        /\ \A L \in MinCard..MinCard + n - 1 :
               Fits(l, d, i, L) => \E a \in DOMAIN ws : ws[a] = Window(d, i, L)
    BY DEF WindowsOK
  <1>3. \A L : L \in MinCard..MinCard + (n + 1) - 1 <=> L \in MinCard..MinCard + n - 1 \/ L = L0
    <2> HIDE DEF w, t, L0
    <2>1. \A a, b \in Nat : a <= b => \A L : L \in a..b <=> L \in a..b - 1 \/ L = b
      OBVIOUS
    <2>2. MinCard <= L0 /\ MinCard + (n + 1) - 1 = L0 /\ MinCard + n - 1 = L0 - 1
      BY <1>0
    <2> QED BY <1>0, <2>1, <2>2
  <1>4. CASE Fits(l, d, i, L0)
    <2>1. /\ t \in Seq(Ranges) /\ DOMAIN ws = 1..Len(ws) /\ DOMAIN t = 1..Len(ws) + 1
          /\ Len(ws) \in Nat
          /\ \A a \in 1..Len(ws) : t[a] = ws[a]
          /\ t[Len(ws) + 1] = w
      BY <1>1, <1>2, OneMore
    <2>2. WindowNext(l, d, i, ws, L0) = t
      BY <1>4 DEF WindowNext
    <2>3. w = Window(d, i, L0)
      OBVIOUS
    <2> HIDE DEF t, w, L0
    <2>4. \A a \in DOMAIN t : (a \in DOMAIN ws /\ t[a] = ws[a]) \/ t[a] = w
      BY <2>1
    <2>5. \A a \in DOMAIN ws : a \in DOMAIN t /\ t[a] = ws[a]
      BY <2>1
    <2>6. Len(ws) + 1 \in DOMAIN t
      BY <2>1
    <2>7. ASSUME NEW a \in DOMAIN t
          PROVE  \E L \in MinCard..MinCard + (n + 1) - 1 :
                     Fits(l, d, i, L) /\ t[a] = Window(d, i, L)
      <3>1. CASE a \in DOMAIN ws /\ t[a] = ws[a]
        <4>1. PICK L \in MinCard..MinCard + n - 1 : Fits(l, d, i, L) /\ ws[a] = Window(d, i, L)
          BY <1>2, <3>1
        <4> QED BY <1>3, <3>1, <4>1
      <3>2. CASE t[a] = w
        BY <1>3, <1>4, <2>3, <3>2
      <3> QED BY <2>4, <3>1, <3>2
    <2>8. ASSUME NEW L \in MinCard..MinCard + (n + 1) - 1, Fits(l, d, i, L)
          PROVE  \E a \in DOMAIN t : t[a] = Window(d, i, L)
      <3>1. CASE L = L0
        BY <2>1, <2>3, <2>6, <3>1
      <3>2. CASE L \in MinCard..MinCard + n - 1
        <4>1. PICK a \in DOMAIN ws : ws[a] = Window(d, i, L)
          BY <1>2, <2>8, <3>2
        <4>2. a \in DOMAIN t /\ t[a] = Window(d, i, L)
          BY <2>5, <4>1
        <4> QED BY <4>2
      <3> QED BY <1>3, <3>1, <3>2
    <2>9. WindowsOK(l, d, i, n + 1, t)
      BY <2>1, <2>7, <2>8 DEF WindowsOK
    <2> QED BY <2>2, <2>9 DEF L0
  <1>5. CASE ~Fits(l, d, i, L0)
    <2>1. WindowNext(l, d, i, ws, L0) = ws
      BY <1>5 DEF WindowNext
    <2> HIDE DEF L0
    <2>2. WindowsOK(l, d, i, n + 1, ws)
      BY <1>2, <1>3, <1>5 DEF WindowsOK
    <2> QED BY <2>1, <2>2 DEF L0
  <1> QED BY <1>4, <1>5

\* Every window of the i-th digit, and nothing else.
AllWindows(l, d, i, ws) ==
    /\ ws \in Seq(Ranges)
    /\ \A a \in DOMAIN ws : \E L : IsWindow(l, d, i, L) /\ ws[a] = Window(d, i, L)
    /\ \A L : IsWindow(l, d, i, L) => \E a \in DOMAIN ws : ws[a] = Window(d, i, L)

LEMMA WindowsAre ==
    ASSUME NEW l, NEW d \in Seq(Nat), NEW i \in 1..Len(d), NEW r \in i + 1..Len(d) + 1,
           \A k \in i + 1..r - 1 : DigitsConnected(l, d[k - 1], d[k]),
           r <= Len(d) => ~DigitsConnected(l, d[r - 1], d[r])
    PROVE  AllWindows(l, d, i, Windows(l, d, i, r))
  <1> DEFINE N == WindowCount(d, i, r)
  <1>0. Len(d) \in Nat /\ MinCard \in Nat \ {0} /\ MaxCard \in Nat \ {0}
    BY LenProperties, Lengths
  <1>1. /\ N \in Nat
        /\ \A L \in Nat : L \in MinCard..MinCard + N - 1 <=>
               L >= MinCard /\ L <= MaxCard /\ L <= Len(d) - i + 1 /\ L <= r - i
    <2> DEFINE x == Min2(Min2(MaxCard, Len(d) - i + 1), r - i)
    <2>1. /\ x \in Int
          /\ \A L \in Nat : L <= x <=> L <= MaxCard /\ L <= Len(d) - i + 1 /\ L <= r - i
      <3>1. \A a, b \in Int : /\ Min2(a, b) \in Int
                              /\ \A L \in Int : L <= Min2(a, b) <=> L <= a /\ L <= b
        BY DEF Min2
      <3>2. MaxCard \in Int /\ Len(d) - i + 1 \in Int /\ r - i \in Int /\ \A L \in Nat : L \in Int
        BY <1>0
      <3> DEFINE y == Min2(MaxCard, Len(d) - i + 1)
      <3>3. y \in Int /\ \A L \in Nat : L <= y <=> L <= MaxCard /\ L <= Len(d) - i + 1
        BY <3>1, <3>2
      <3> HIDE DEF y
      <3>4. /\ Min2(y, r - i) \in Int
            /\ \A L \in Nat : L <= Min2(y, r - i) <=> L <= y /\ L <= r - i
        BY <3>1, <3>2, <3>3
      <3>5. x = Min2(y, r - i)
        BY DEF y
      <3> HIDE DEF x
      <3> QED BY <3>3, <3>4, <3>5
    <2>2. N = Max2(0, x - MinCard + 1)
      BY DEF WindowCount
    <2> HIDE DEF x, N
    <2>3. N \in Nat
      BY <1>0, <2>1, <2>2 DEF Max2
    <2>4. \A L \in Nat : L \in MinCard..MinCard + N - 1 <=> L >= MinCard /\ L <= x
      BY <1>0, <2>1, <2>2 DEF Max2
    <2> QED BY <2>1, <2>3, <2>4
  <1> HIDE DEF N
  <1>2. PICK f : WindowsRun(l, d, i, r, f)
    BY <1>1, WindowsLoop DEF N
  <1>3. /\ f[0] = <<>>
        /\ \A n \in 1..N : f[n] = WindowNext(l, d, i, f[n - 1], MinCard + n - 1)
        /\ Windows(l, d, i, r) = f[N]
    BY <1>2 DEF WindowsRun, N
  <1> DEFINE B == {n \in 0..N : WindowsOK(l, d, i, n, f[n])}
  <1>4. 0 \in B
    <2>1. <<>> \in Seq(Ranges) /\ DOMAIN <<>> = {}
      BY EmptySeq
    <2>2. MinCard..MinCard + 0 - 1 = {}
      BY <1>0
    <2>3. WindowsOK(l, d, i, 0, <<>>)
      BY <2>1, <2>2 DEF WindowsOK
    <2> QED BY <1>1, <1>3, <2>3
  <1>5. ASSUME NEW n \in 0..N - 1, n \in B PROVE n + 1 \in B
    <2>1. n + 1 \in 1..N /\ n + 1 \in 0..N /\ (n + 1) - 1 = n /\ n \in Nat
      BY <1>1
    <2>2. f[n + 1] = WindowNext(l, d, i, f[n], MinCard + (n + 1) - 1)
      BY <1>3, <2>1
    <2>3. WindowsOK(l, d, i, n, f[n])
      BY <1>5
    <2>4. MinCard + n \in Nat /\ MinCard + n \in MinCard..MinCard + N - 1
      BY <1>0, <1>1, <2>1
    <2>5. MinCard + n <= Len(d) - i + 1
      BY <1>1, <2>4
    <2>6. i + (MinCard + n) - 1 <= Len(d)
      BY <1>0, <2>1, <2>5
    <2> QED BY <2>1, <2>2, <2>3, <2>6, WindowStep
  <1>6. N \in B
    <2> HIDE DEF B
    <2>1. 0..N \subseteq B
      BY <1>1, <1>4, <1>5, CountUp
    <2> QED BY <1>1, <2>1
  <1> DEFINE ws == f[N]
  <1>7. WindowsOK(l, d, i, N, ws)
    BY <1>6
  <1> HIDE DEF ws
  <1>8. \A L : L \in MinCard..MinCard + N - 1 /\ Fits(l, d, i, L) <=> IsWindow(l, d, i, L)
    <2>1. ASSUME NEW L, L \in MinCard..MinCard + N - 1, Fits(l, d, i, L)
          PROVE  IsWindow(l, d, i, L)
      <3>a. L \in Nat
        BY <1>0, <1>1, <2>1
      <3>1. L \in Nat /\ L >= MinCard /\ L <= MaxCard /\ L <= Len(d) - i + 1 /\ L <= r - i
        BY <1>1, <2>1, <3>a
      <3>2. L \in MinCard..MaxCard /\ i + L - 1 <= Len(d)
        BY <1>0, <3>1
      <3>3. \A k \in i + 1..i + L - 1 : k \in i + 1..r - 1
        BY <1>0, <3>1
      <3> QED BY <2>1, <3>2, <3>3 DEF IsWindow
    <2>2. ASSUME NEW L, IsWindow(l, d, i, L)
          PROVE  L \in MinCard..MinCard + N - 1 /\ Fits(l, d, i, L)
      <3>1. /\ L \in MinCard..MaxCard /\ i + L - 1 <= Len(d)
            /\ \A k \in i + 1..i + L - 1 : DigitsConnected(l, d[k - 1], d[k])
            /\ Fits(l, d, i, L)
        BY <2>2 DEF IsWindow
      <3>2. L \in Nat /\ L >= MinCard /\ L <= MaxCard /\ L <= Len(d) - i + 1
        BY <1>0, <3>1
      <3>3. L <= r - i
        <4> SUFFICES ASSUME L > r - i PROVE FALSE
          BY <1>0, <3>2
        <4>1. r \in i + 1..i + L - 1 /\ r <= Len(d)
          BY <1>0, <3>1, <3>2
        <4> QED BY <3>1, <4>1
      <3> QED BY <1>1, <3>1, <3>2, <3>3
    <2> QED BY <2>1, <2>2
  <1>9. /\ ws \in Seq(Ranges)
        /\ \A a \in DOMAIN ws : \E L : IsWindow(l, d, i, L) /\ ws[a] = Window(d, i, L)
        /\ \A L : IsWindow(l, d, i, L) => \E a \in DOMAIN ws : ws[a] = Window(d, i, L)
    BY <1>7, <1>8 DEF WindowsOK
  <1> QED BY <1>3, <1>9 DEF ws, AllWindows
\* Ranges that start in order.
StartsInOrder(rs) == \A a, b \in DOMAIN rs : a < b => rs[a].start <= rs[b].start

\* The windows of the first n digits, and the run that is being followed.
LuhnOK(l, d, n, acc) ==
    /\ acc \in [runEnd : 1..Len(d) + 1, out : Seq(Ranges)]
    /\ n > 0 => acc.runEnd > n
    /\ \A k \in n + 1..acc.runEnd - 1 : DigitsConnected(l, d[k - 1], d[k])
    /\ \A a \in DOMAIN acc.out : \E i \in 1..n : \E L :
           IsWindow(l, d, i, L) /\ acc.out[a] = Window(d, i, L)
    /\ \A i \in 1..n : \A L :
           IsWindow(l, d, i, L) => \E a \in DOMAIN acc.out : acc.out[a] = Window(d, i, L)
    /\ StartsInOrder(acc.out)

LEMMA Joining ==
    ASSUME NEW s \in Seq(Ranges), NEW t \in Seq(Ranges)
    PROVE  /\ s \o t \in Seq(Ranges)
           /\ \A a \in DOMAIN (s \o t) :
                  \/ a \in DOMAIN s /\ (s \o t)[a] = s[a]
                  \/ a - Len(s) \in DOMAIN t /\ (s \o t)[a] = t[a - Len(s)] /\ a > Len(s)
           /\ \A a \in DOMAIN s : a \in DOMAIN (s \o t) /\ (s \o t)[a] = s[a]
           /\ \A a \in DOMAIN t : Len(s) + a \in DOMAIN (s \o t) /\ (s \o t)[Len(s) + a] = t[a]
           /\ Len(s) \in Nat /\ Len(t) \in Nat /\ DOMAIN s = 1..Len(s) /\ DOMAIN t = 1..Len(t)
           /\ DOMAIN (s \o t) = 1..Len(s) + Len(t)
  <1> DEFINE u == s \o t
  <1>1. Len(s) \in Nat /\ Len(t) \in Nat /\ DOMAIN s = 1..Len(s) /\ DOMAIN t = 1..Len(t)
    BY LenProperties
  <1>2. u \in Seq(Ranges) /\ Len(u) = Len(s) + Len(t)
        /\ \A i \in 1..Len(s) + Len(t) : u[i] = IF i <= Len(s) THEN s[i] ELSE t[i - Len(s)]
    BY ConcatProperties
  <1> HIDE DEF u
  <1>3. DOMAIN u = 1..Len(s) + Len(t)
    BY <1>2, LenProperties
  <1>4. ASSUME NEW a \in DOMAIN u
        PROVE  \/ a \in DOMAIN s /\ u[a] = s[a]
               \/ a - Len(s) \in DOMAIN t /\ u[a] = t[a - Len(s)] /\ a > Len(s)
    BY <1>1, <1>2, <1>3
  <1>5. ASSUME NEW a \in DOMAIN s PROVE a \in DOMAIN u /\ u[a] = s[a]
    BY <1>1, <1>2, <1>3
  <1>6. ASSUME NEW a \in DOMAIN t PROVE Len(s) + a \in DOMAIN u /\ u[Len(s) + a] = t[a]
    <2>1. a \in 1..Len(t) /\ Len(s) + a \in 1..Len(s) + Len(t) /\ ~(Len(s) + a <= Len(s))
          /\ (Len(s) + a) - Len(s) = a
      BY <1>1
    <2> QED BY <1>2, <1>3, <2>1
  <1> QED BY <1>1, <1>2, <1>3, <1>4, <1>5, <1>6 DEF u

LEMMA LuhnStep ==
    ASSUME NEW l, NEW d \in Seq(Nat), \A a, b \in 1..Len(d) : a < b => d[a] < d[b],
           NEW n \in Nat, n + 1 \in 1..Len(d), NEW acc, LuhnOK(l, d, n, acc)
    PROVE  LuhnOK(l, d, n + 1, LuhnNext(l, d, acc, n + 1))
  <1> DEFINE e == Max2(acc.runEnd, (n + 1) + 1)
             r == RunEnd(l, d, e)
             s == acc.out
             t == Windows(l, d, n + 1, r)
             u == s \o t
             z == [runEnd |-> r, out |-> u]
  <1>0. Len(d) \in Nat /\ MinCard \in Nat \ {0} /\ MaxCard \in Nat \ {0}
    BY LenProperties, Lengths
  <1>1. /\ acc.runEnd \in 1..Len(d) + 1 /\ s \in Seq(Ranges)
        /\ \A k \in n + 1..acc.runEnd - 1 : DigitsConnected(l, d[k - 1], d[k])
        /\ \A a \in DOMAIN s : \E i \in 1..n : \E L :
               IsWindow(l, d, i, L) /\ s[a] = Window(d, i, L)
        /\ \A i \in 1..n : \A L :
               IsWindow(l, d, i, L) => \E a \in DOMAIN s : s[a] = Window(d, i, L)
        /\ StartsInOrder(s)
    BY DEF LuhnOK
  <1>2. LuhnNext(l, d, acc, n + 1) = z
    BY DEF LuhnNext
  <1>3. e \in 1..Len(d) + 1 /\ e >= n + 2 /\ (e = acc.runEnd \/ e = n + 2)
    BY <1>0, <1>1 DEF Max2
  <1> HIDE DEF e, s
  <1>4. /\ r \in e..Len(d) + 1
        /\ \A k \in e..r - 1 : DigitsConnected(l, d[k - 1], d[k])
        /\ r <= Len(d) => ~DigitsConnected(l, d[r - 1], d[r])
    BY <1>3, RunEndIs
  <1> HIDE DEF r
  <1>5. ASSUME NEW k \in (n + 1) + 1..r - 1 PROVE DigitsConnected(l, d[k - 1], d[k])
    <2>1. k \in e..r - 1 \/ k \in n + 1..acc.runEnd - 1
      BY <1>0, <1>1, <1>3, <1>4
    <2> QED BY <1>1, <1>4, <2>1
  <1>6. r \in (n + 1) + 1..Len(d) + 1
    BY <1>0, <1>3, <1>4
  <1>7. /\ t \in Seq(Ranges)
        /\ \A a \in DOMAIN t : \E L : IsWindow(l, d, n + 1, L) /\ t[a] = Window(d, n + 1, L)
        /\ \A L : IsWindow(l, d, n + 1, L) => \E a \in DOMAIN t : t[a] = Window(d, n + 1, L)
    <2>1. AllWindows(l, d, n + 1, t)
      BY <1>4, <1>5, <1>6, WindowsAre
    <2> QED BY <2>1 DEF AllWindows
  <1> HIDE DEF t
  <1>8. /\ u \in Seq(Ranges)
        /\ \A a \in DOMAIN u : \/ a \in DOMAIN s /\ u[a] = s[a]
                               \/ a - Len(s) \in DOMAIN t /\ u[a] = t[a - Len(s)] /\ a > Len(s)
        /\ \A a \in DOMAIN s : a \in DOMAIN u /\ u[a] = s[a]
        /\ \A a \in DOMAIN t : Len(s) + a \in DOMAIN u /\ u[Len(s) + a] = t[a]
    BY <1>1, <1>7, Joining
  <1>9. Len(s) \in Nat /\ DOMAIN s = 1..Len(s) /\ DOMAIN u = 1..Len(s) + Len(t) /\ Len(t) \in Nat
    BY <1>1, <1>7, Joining
  <1>10. z \in [runEnd : 1..Len(d) + 1, out : Seq(Ranges)] /\ z.runEnd = r /\ z.out = u
    <2> HIDE DEF u
    <2>1. r \in 1..Len(d) + 1
      BY <1>0, <1>3, <1>4
    <2>2. u \in Seq(Ranges)
      BY <1>8
    <2> QED BY <2>1, <2>2
  <1> HIDE DEF u
  <1>11. ASSUME NEW a \in DOMAIN u
         PROVE  \E i \in 1..n + 1 : \E L : IsWindow(l, d, i, L) /\ u[a] = Window(d, i, L)
    <2>1. CASE a \in DOMAIN s /\ u[a] = s[a]
      <3>1. PICK i \in 1..n : \E L : IsWindow(l, d, i, L) /\ s[a] = Window(d, i, L)
        BY <1>1, <2>1
      <3>2. i \in 1..n + 1
        OBVIOUS
      <3> QED BY <2>1, <3>1, <3>2
    <2>2. CASE a - Len(s) \in DOMAIN t /\ u[a] = t[a - Len(s)]
      <3>1. n + 1 \in 1..n + 1
        OBVIOUS
      <3> QED BY <1>7, <2>2, <3>1
    <2> QED BY <1>8, <2>1, <2>2
  <1>12. ASSUME NEW i \in 1..n + 1, NEW L, IsWindow(l, d, i, L)
         PROVE  \E a \in DOMAIN u : u[a] = Window(d, i, L)
    <2>1. CASE i \in 1..n
      <3>1. PICK a \in DOMAIN s : s[a] = Window(d, i, L)
        BY <1>1, <1>12, <2>1
      <3> QED BY <1>8, <3>1
    <2>2. CASE i = n + 1
      <3>1. PICK a \in DOMAIN t : t[a] = Window(d, i, L)
        BY <1>7, <1>12, <2>2
      <3> QED BY <1>8, <3>1
    <2> QED BY <2>1, <2>2
  <1>13. ASSUME NEW i \in 1..n + 1, NEW L, IsWindow(l, d, i, L)
         PROVE  Window(d, i, L).start = d[i] /\ d[i] \in Nat /\ d[n + 1] \in Nat
                /\ d[i] <= d[n + 1]
    <2>1. i \in 1..Len(d) /\ i + L - 1 <= Len(d) /\ L \in MinCard..MaxCard
      BY <1>13 DEF IsWindow
    <2>2. L \in Nat \ {0}
      BY <1>0, <2>1
    <2>3. Window(d, i, L).start = d[i]
      BY <2>1, <2>2, WindowRange
    <2>4. d[i] \in Nat /\ d[n + 1] \in Nat
      BY <2>1, ElementOfSeq
    <2>5. i = n + 1 \/ i < n + 1
      OBVIOUS
    <2> QED BY <2>1, <2>3, <2>4, <2>5
  <1>14. ASSUME NEW a \in DOMAIN u PROVE u[a].start \in Nat /\ u[a].start <= d[n + 1]
    BY <1>11, <1>13
  <1>15. ASSUME NEW a \in DOMAIN u, NEW b \in DOMAIN u, a < b
         PROVE  u[a].start <= u[b].start
    <2>1. CASE b \in DOMAIN s /\ u[b] = s[b]
      <3>1. a \in DOMAIN s
        BY <1>9, <1>15, <2>1
      <3>2. u[a] = s[a]
        BY <1>8, <3>1
      <3> QED BY <1>1, <1>15, <2>1, <3>1, <3>2 DEF StartsInOrder
    <2>2. CASE b - Len(s) \in DOMAIN t /\ u[b] = t[b - Len(s)]
      <3>1. PICK L : IsWindow(l, d, n + 1, L) /\ u[b] = Window(d, n + 1, L)
        BY <1>7, <2>2
      <3>2. n + 1 \in 1..n + 1
        OBVIOUS
      <3>3. u[b].start = d[n + 1]
        BY <1>13, <3>1, <3>2
      <3> QED BY <1>14, <3>3
    <2> QED BY <1>8, <2>1, <2>2
  <1>16. StartsInOrder(u)
    BY <1>15 DEF StartsInOrder
  <1>17. r > n + 1
    BY <1>0, <1>6
  <1> HIDE DEF z
  <1>18. LuhnOK(l, d, n + 1, z)
    BY <1>5, <1>10, <1>11, <1>12, <1>16, <1>17 DEF LuhnOK
  <1> QED BY <1>2, <1>18

\* FindLuhnSequences finds the windows of every digit, before it merges them.
LEMMA LuhnRangesAre ==
    ASSUME NEW l, NEW d \in Seq(Nat), \A a, b \in 1..Len(d) : a < b => d[a] < d[b]
    PROVE  LET rs == LuhnRanges(l, d)
           IN  /\ rs \in Seq(Ranges) /\ StartsInOrder(rs)
               /\ \A a \in DOMAIN rs : \E i, L : IsWindow(l, d, i, L) /\ rs[a] = Window(d, i, L)
               /\ \A i, L : IsWindow(l, d, i, L) => \E a \in DOMAIN rs : rs[a] = Window(d, i, L)
  <1> DEFINE N == Starts(d)
  <1>0. Len(d) \in Nat /\ MinCard \in Nat \ {0} /\ MaxCard \in Nat \ {0}
    BY LenProperties, Lengths
  <1>1. N \in Nat /\ N <= Len(d) /\ N >= Len(d) - MinCard + 1
    BY <1>0 DEF Starts, Max2
  <1> HIDE DEF N
  <1>2. PICK f : LuhnRun(l, d, f)
    BY <1>1, LuhnLoop DEF N
  <1>3. /\ f[0] = [runEnd |-> 1, out |-> <<>>]
        /\ \A n \in 1..N : f[n] = LuhnNext(l, d, f[n - 1], n)
        /\ LuhnRanges(l, d) = f[N].out
    BY <1>2 DEF LuhnRun, N
  <1> DEFINE B == {n \in 0..N : LuhnOK(l, d, n, f[n])}
  <1>4. 0 \in B
    <2>1. <<>> \in Seq(Ranges) /\ DOMAIN <<>> = {}
      BY EmptySeq
    <2>2. /\ f[0] \in [runEnd : 1..Len(d) + 1, out : Seq(Ranges)]
          /\ f[0].runEnd = 1 /\ f[0].out = <<>>
      BY <1>0, <1>3, <2>1
    <2>3. 0 + 1..1 - 1 = {} /\ 1..0 = {} /\ ~(0 > 0)
      OBVIOUS
    <2>4. LuhnOK(l, d, 0, f[0])
      BY <2>1, <2>2, <2>3 DEF LuhnOK, StartsInOrder
    <2> QED BY <1>1, <2>4
  <1>5. ASSUME NEW n \in 0..N - 1, n \in B PROVE n + 1 \in B
    <2>1. n + 1 \in 1..N /\ n + 1 \in 0..N /\ (n + 1) - 1 = n /\ n \in Nat /\ n + 1 \in 1..Len(d)
      BY <1>0, <1>1
    <2>2. f[n + 1] = LuhnNext(l, d, f[n], n + 1)
      BY <1>3, <2>1
    <2>3. LuhnOK(l, d, n, f[n])
      BY <1>5
    <2>4. LuhnOK(l, d, n + 1, f[n + 1])
      BY <2>1, <2>2, <2>3, LuhnStep
    <2> QED BY <2>1, <2>4
  <1>6. N \in B
    <2> HIDE DEF B
    <2>1. 0..N \subseteq B
      BY <1>1, <1>4, <1>5, CountUp
    <2> QED BY <1>1, <2>1
  <1> DEFINE rs == f[N].out
  <1>7. LuhnOK(l, d, N, f[N])
    BY <1>6
  <1>8. /\ rs \in Seq(Ranges) /\ StartsInOrder(rs)
        /\ \A a \in DOMAIN rs : \E i \in 1..N : \E L :
               IsWindow(l, d, i, L) /\ rs[a] = Window(d, i, L)
        /\ \A i \in 1..N : \A L :
               IsWindow(l, d, i, L) => \E a \in DOMAIN rs : rs[a] = Window(d, i, L)
    BY <1>7 DEF LuhnOK
  <1>9. ASSUME NEW i, NEW L, IsWindow(l, d, i, L) PROVE i \in 1..N
    <2>1. i \in 1..Len(d) /\ i + L - 1 <= Len(d) /\ L \in MinCard..MaxCard
      BY <1>9 DEF IsWindow
    <2>2. L \in Nat /\ L >= MinCard /\ i \in Nat
      BY <1>0, <2>1
    <2> QED BY <1>0, <1>1, <2>1, <2>2
  <1> HIDE DEF rs
  <1> QED BY <1>3, <1>8, <1>9 DEF rs
\* Ranges that do not touch.
Apart(rs) == \A a, b \in DOMAIN rs : a < b => rs[a].end < rs[b].start

\* Position p lies in the range r.
In(p, r) == r.start <= p /\ p < r.end

\* mergeRanges after n ranges: what is merged covers what they cover, and
\* starts and ends where one of them does.
MergeOK(rs, n, ms) ==
    /\ ms \in Seq(Ranges) /\ Apart(ms)
    /\ \A a \in DOMAIN ms : ms[a].start < ms[a].end
    /\ \A a \in DOMAIN ms : \E b \in 1..n : ms[a].start = rs[b].start
    /\ \A a \in DOMAIN ms : \E b \in 1..n : ms[a].end = rs[b].end
    /\ \A p \in Nat : (\E a \in DOMAIN ms : In(p, ms[a])) <=> (\E b \in 1..n : In(p, rs[b]))

LEMMA MergeStep ==
    ASSUME NEW rs \in Seq(Ranges), StartsInOrder(rs), \A a \in DOMAIN rs : rs[a].start < rs[a].end,
           NEW n \in Nat, n + 1 \in 1..Len(rs), NEW ms, MergeOK(rs, n, ms)
    PROVE  MergeOK(rs, n + 1, MergeNext(ms, rs[n + 1]))
  <1> DEFINE r == rs[n + 1]
             z == MergeNext(ms, r)
  <1>0. Len(rs) \in Nat /\ DOMAIN rs = 1..Len(rs) /\ r \in Ranges /\ r.start \in Nat /\ r.end \in Nat
        /\ \A b \in 1..Len(rs) : rs[b].start \in Nat /\ rs[b].end \in Nat
    <2>1. Len(rs) \in Nat /\ DOMAIN rs = 1..Len(rs)
      BY LenProperties
    <2>2. \A b \in 1..Len(rs) : rs[b] \in Ranges
      BY ElementOfSeq
    <2> QED BY <2>1, <2>2 DEF Ranges
  <1>1. /\ ms \in Seq(Ranges) /\ Apart(ms)
        /\ \A a \in DOMAIN ms : ms[a].start < ms[a].end
        /\ \A a \in DOMAIN ms : \E b \in 1..n : ms[a].start = rs[b].start
        /\ \A a \in DOMAIN ms : \E b \in 1..n : ms[a].end = rs[b].end
        /\ \A p \in Nat : (\E a \in DOMAIN ms : In(p, ms[a])) <=> (\E b \in 1..n : In(p, rs[b]))
    BY DEF MergeOK
  <1>2. Len(ms) \in Nat /\ DOMAIN ms = 1..Len(ms)
        /\ \A a \in 1..Len(ms) : ms[a] \in Ranges /\ ms[a].start \in Nat /\ ms[a].end \in Nat
    <2>1. Len(ms) \in Nat /\ DOMAIN ms = 1..Len(ms)
      BY <1>1, LenProperties
    <2>2. \A b \in 1..Len(ms) : ms[b] \in Ranges
      BY <1>1, ElementOfSeq
    <2> QED BY <2>1, <2>2 DEF Ranges
  <1>3. n + 1 \in DOMAIN rs /\ n + 1 \in 1..n + 1 /\ r.start < r.end
    BY <1>0
  <1>4. \A b : b \in 1..n + 1 <=> b \in 1..n \/ b = n + 1
    OBVIOUS
  <1>5. \A a \in DOMAIN ms : ms[a].start <= r.start
    <2> SUFFICES ASSUME NEW a \in DOMAIN ms PROVE ms[a].start <= r.start
      OBVIOUS
    <2>1. PICK b \in 1..n : ms[a].start = rs[b].start
      BY <1>1
    <2>2. b \in DOMAIN rs /\ b < n + 1
      BY <1>0
    <2> QED BY <1>3, <2>1, <2>2 DEF StartsInOrder
  <1> HIDE DEF r
  <1>6. CASE ms # <<>> /\ r.start <= Last(ms).end
    <2> DEFINE k == Len(ms)
               j == Joined(ms[k], r)
               s == Front(ms)
    <2>1. k \in Nat \ {0} /\ Last(ms) = ms[k] /\ k \in DOMAIN ms
      BY <1>1, <1>2, <1>6, EmptySeq DEF Last
    <2>2. /\ s \in Seq(Ranges) /\ Len(s) = k - 1 /\ DOMAIN s = 1..k - 1
          /\ \A a \in 1..k - 1 : s[a] = ms[a]
      <3>1. s = SubSeq(ms, 1, k - 1)
        BY DEF Front
      <3>2. k - 1 <= Len(ms) /\ k - 1 \in Nat
        BY <2>1
      <3>3. s \in Seq(Ranges) /\ Len(s) = k - 1 /\ \A a \in 1..k - 1 : s[a] = ms[a]
        BY <1>1, <1>2, <3>1, <3>2
      <3> QED BY <3>3, LenProperties
    <2>3. /\ j \in Ranges /\ j.start = ms[k].start /\ j.end \in Nat
          /\ j.end = r.end \/ j.end = ms[k].end
          /\ j.end >= r.end /\ j.end >= ms[k].end
      BY <1>0, <1>2, <2>1 DEF Joined, Max2, Ranges
    <2>4. z = Append(s, j)
      BY <1>6, <2>1 DEF MergeNext
    <2> HIDE DEF s, j, k, z
    <2>5. /\ z \in Seq(Ranges) /\ DOMAIN z = 1..(k - 1) + 1
          /\ \A a \in 1..k - 1 : z[a] = s[a]
          /\ z[(k - 1) + 1] = j
      BY <2>2, <2>3, <2>4, OneMore
    <2>6. /\ DOMAIN z = DOMAIN ms /\ z[k] = j
          /\ \A a \in DOMAIN ms : a = k \/ (z[a] = ms[a] /\ a < k)
      <3>1. (k - 1) + 1 = k /\ \A a \in 1..k : a = k \/ a \in 1..k - 1
        BY <2>1
      <3>2. DOMAIN ms = 1..k
        BY <1>2 DEF k
      <3>3. \A a \in 1..k - 1 : z[a] = ms[a] /\ a < k
        BY <2>1, <2>2, <2>5
      <3> QED BY <2>5, <3>1, <3>2, <3>3
    <2>a. r.start <= ms[k].end /\ ms[k].start <= r.start
      BY <1>5, <1>6, <2>1
    <2>b. ms[k].start \in Nat /\ ms[k].end \in Nat /\ ms[k].start < ms[k].end
      BY <1>1, <1>2, <2>1
    <2>7. \A a \in DOMAIN z : z[a].start = ms[a].start
      BY <2>3, <2>6
    <2>8. Apart(z)
      <3> SUFFICES ASSUME NEW a \in DOMAIN z, NEW b \in DOMAIN z, a < b
                   PROVE  z[a].end < z[b].start
        BY DEF Apart
      <3>1. a # k
        BY <1>2, <2>1, <2>6 DEF k
      <3>2. z[a] = ms[a]
        BY <2>6, <3>1
      <3>3. ms[a].end < ms[b].start
        BY <1>1, <2>6 DEF Apart
      <3> QED BY <2>7, <3>2, <3>3
    <2>9. ASSUME NEW a \in DOMAIN z PROVE z[a].start < z[a].end
      <3>1. CASE a = k
        BY <2>3, <2>6, <2>b, <3>1
      <3>2. CASE a # k
        BY <1>1, <2>6, <3>2
      <3> QED BY <3>1, <3>2
    <2>10. ASSUME NEW a \in DOMAIN z PROVE \E b \in 1..n + 1 : z[a].start = rs[b].start
      <3>1. PICK b \in 1..n : ms[a].start = rs[b].start
        BY <1>1, <2>6
      <3> QED BY <1>4, <2>7, <3>1
    <2>11. ASSUME NEW a \in DOMAIN z PROVE \E b \in 1..n + 1 : z[a].end = rs[b].end
      <3>1. z[a].end = r.end \/ z[a].end = ms[a].end
        BY <2>3, <2>6
      <3>2. PICK b \in 1..n : ms[a].end = rs[b].end
        BY <1>1, <2>6
      <3>3. CASE z[a].end = r.end
        BY <1>3, <3>3 DEF r
      <3>4. CASE z[a].end = ms[a].end
        BY <1>4, <3>2, <3>4
      <3> QED BY <3>1, <3>3, <3>4
    <2>12. ASSUME NEW p \in Nat
           PROVE  (\E a \in DOMAIN z : In(p, z[a])) <=> (\E b \in 1..n + 1 : In(p, rs[b]))
      <3>1. In(p, j) <=> In(p, ms[k]) \/ In(p, r)
        <4>1. \A b, c, f, g, h \in Nat :
                 /\ c <= f /\ b <= c /\ (h = g \/ h = f) /\ h >= g /\ h >= f
                 => ((b <= p /\ p < h) <=> (b <= p /\ p < f) \/ (c <= p /\ p < g))
          OBVIOUS
        <4>2. r.start \in Nat /\ r.end \in Nat
          BY <1>0
        <4>3. (ms[k].start <= p /\ p < j.end)
                 <=> (ms[k].start <= p /\ p < ms[k].end) \/ (r.start <= p /\ p < r.end)
          BY <2>3, <2>a, <2>b, <4>1, <4>2
        <4> QED BY <2>3, <4>3 DEF In
      <3>2. (\E a \in DOMAIN z : In(p, z[a])) <=> (\E a \in DOMAIN ms : In(p, ms[a])) \/ In(p, r)
        <4>1. ASSUME NEW a \in DOMAIN z, In(p, z[a])
              PROVE  (\E b \in DOMAIN ms : In(p, ms[b])) \/ In(p, r)
          BY <2>1, <2>6, <3>1, <4>1
        <4>2. ASSUME NEW a \in DOMAIN ms, In(p, ms[a]) PROVE \E b \in DOMAIN z : In(p, z[b])
          <5>1. CASE a = k
            BY <2>1, <2>6, <3>1, <4>2, <5>1
          <5>2. CASE a # k
            BY <2>6, <4>2, <5>2
          <5> QED BY <5>1, <5>2
        <4>3. ASSUME In(p, r) PROVE \E b \in DOMAIN z : In(p, z[b])
          BY <2>1, <2>6, <3>1, <4>3
        <4> QED BY <4>1, <4>2, <4>3
      <3>3. (\E b \in 1..n + 1 : In(p, rs[b])) <=> (\E b \in 1..n : In(p, rs[b])) \/ In(p, r)
        BY <1>4 DEF r
      <3> QED BY <1>1, <3>2, <3>3
    <2> QED BY <2>5, <2>8, <2>9, <2>10, <2>11, <2>12 DEF MergeOK, z, r
  <1>7. CASE ~(ms # <<>> /\ r.start <= Last(ms).end)
    <2>1. z = Append(ms, r)
      BY <1>7 DEF MergeNext
    <2> HIDE DEF z
    <2>2. /\ z \in Seq(Ranges) /\ DOMAIN z = 1..Len(ms) + 1
          /\ \A a \in 1..Len(ms) : z[a] = ms[a]
          /\ z[Len(ms) + 1] = r
      BY <1>0, <1>1, <2>1, OneMore
    <2>3. /\ \A a \in DOMAIN z : (a \in DOMAIN ms /\ z[a] = ms[a]) \/ (a = Len(ms) + 1 /\ z[a] = r)
          /\ \A a \in DOMAIN ms : a \in DOMAIN z /\ z[a] = ms[a]
          /\ Len(ms) + 1 \in DOMAIN z /\ z[Len(ms) + 1] = r
      BY <1>2, <2>2
    <2>4. ASSUME NEW a \in DOMAIN ms PROVE ms[a].end < r.start
      <3>1. Len(ms) \in DOMAIN ms /\ ms # <<>> /\ Last(ms) = ms[Len(ms)]
        BY <1>2, EmptySeq DEF Last
      <3>2. ~(r.start <= ms[Len(ms)].end)
        BY <1>7, <3>1
      <3>3. CASE a = Len(ms)
        BY <1>0, <1>2, <3>1, <3>2, <3>3
      <3>4. CASE a # Len(ms)
        <4>1. a < Len(ms)
          BY <1>2, <3>4
        <4>2. ms[a].end < ms[Len(ms)].start
          BY <1>1, <3>1, <4>1 DEF Apart
        <4>3. ms[Len(ms)].start < ms[Len(ms)].end
          BY <1>1, <3>1
        <4>4. /\ ms[a].end \in Nat /\ ms[Len(ms)].start \in Nat /\ ms[Len(ms)].end \in Nat
              /\ r.start \in Nat
          BY <1>0, <1>2, <3>1
        <4> QED BY <3>2, <4>2, <4>3, <4>4
      <3> QED BY <3>3, <3>4
    <2>5. Apart(z)
      <3> SUFFICES ASSUME NEW a \in DOMAIN z, NEW b \in DOMAIN z, a < b
                   PROVE  z[a].end < z[b].start
        BY DEF Apart
      <3>1. a \in DOMAIN ms /\ z[a] = ms[a]
        BY <1>2, <2>2
      <3>2. CASE b \in DOMAIN ms /\ z[b] = ms[b]
        BY <1>1, <3>1, <3>2 DEF Apart
      <3>3. CASE z[b] = r
        BY <2>4, <3>1, <3>3
      <3> QED BY <2>3, <3>2, <3>3
    <2>6. ASSUME NEW a \in DOMAIN z PROVE z[a].start < z[a].end
      BY <1>1, <1>3, <2>3
    <2>7. ASSUME NEW a \in DOMAIN z PROVE \E b \in 1..n + 1 : z[a].start = rs[b].start
      <3>1. CASE a \in DOMAIN ms /\ z[a] = ms[a]
        <4>1. PICK b \in 1..n : ms[a].start = rs[b].start
          BY <1>1, <3>1
        <4> QED BY <1>4, <3>1, <4>1
      <3>2. CASE z[a] = r
        BY <1>3, <3>2 DEF r
      <3> QED BY <2>3, <3>1, <3>2
    <2>8. ASSUME NEW a \in DOMAIN z PROVE \E b \in 1..n + 1 : z[a].end = rs[b].end
      <3>1. CASE a \in DOMAIN ms /\ z[a] = ms[a]
        <4>1. PICK b \in 1..n : ms[a].end = rs[b].end
          BY <1>1, <3>1
        <4> QED BY <1>4, <3>1, <4>1
      <3>2. CASE z[a] = r
        BY <1>3, <3>2 DEF r
      <3> QED BY <2>3, <3>1, <3>2
    <2>9. ASSUME NEW p \in Nat
          PROVE  (\E a \in DOMAIN z : In(p, z[a])) <=> (\E b \in 1..n + 1 : In(p, rs[b]))
      <3>1. (\E a \in DOMAIN z : In(p, z[a])) <=> (\E a \in DOMAIN ms : In(p, ms[a])) \/ In(p, r)
        BY <2>3
      <3>2. (\E b \in 1..n + 1 : In(p, rs[b])) <=> (\E b \in 1..n : In(p, rs[b])) \/ In(p, r)
        BY <1>4 DEF r
      <3> QED BY <1>1, <3>1, <3>2
    <2> QED BY <2>2, <2>5, <2>6, <2>7, <2>8, <2>9 DEF MergeOK, z, r
  <1> QED BY <1>6, <1>7

LEMMA RangesMerged ==
    ASSUME NEW rs \in Seq(Ranges), StartsInOrder(rs), \A a \in DOMAIN rs : rs[a].start < rs[a].end
    PROVE  MergeOK(rs, Len(rs), MergeRanges(rs))
  <1>0. Len(rs) \in Nat
    BY LenProperties
  <1>1. PICK f : MergeRun(rs, f)
    BY <1>0, MergeLoop
  <1>2. /\ f[0] = <<>>
        /\ \A n \in 1..Len(rs) : f[n] = MergeNext(f[n - 1], rs[n])
        /\ MergeRanges(rs) = f[Len(rs)]
    BY <1>1 DEF MergeRun
  <1> DEFINE B == {n \in 0..Len(rs) : MergeOK(rs, n, f[n])}
  <1>3. 0 \in B
    <2>1. <<>> \in Seq(Ranges) /\ DOMAIN <<>> = {} /\ 1..0 = {}
      BY EmptySeq
    <2>2. MergeOK(rs, 0, <<>>)
      BY <2>1 DEF MergeOK, Apart
    <2> QED BY <1>0, <1>2, <2>2
  <1>4. ASSUME NEW n \in 0..Len(rs) - 1, n \in B PROVE n + 1 \in B
    <2>1. n + 1 \in 1..Len(rs) /\ n + 1 \in 0..Len(rs) /\ (n + 1) - 1 = n /\ n \in Nat
      BY <1>0
    <2>2. f[n + 1] = MergeNext(f[n], rs[n + 1])
      BY <1>2, <2>1
    <2>3. MergeOK(rs, n, f[n])
      BY <1>4
    <2> QED BY <2>1, <2>2, <2>3, MergeStep
  <1>5. Len(rs) \in B
    <2> HIDE DEF B
    <2>1. 0..Len(rs) \subseteq B
      BY <1>0, <1>3, <1>4, CountUp
    <2> QED BY <1>0, <2>1
  <1> QED BY <1>2, <1>5

\* Between two connected digits there is at most a space or a dash.
LEMMA ConnectedIs ==
    ASSUME NEW l \in Seq(STRING), NEW p \in Nat, NEW q \in Nat, DigitsConnected(l, p, q),
           NEW k \in Nat, p < k, k < q
    PROVE  l[k] # Quote
  <1>1. q - p = 2 /\ l[p + 1] \in {Space, "-"}
    <2>1. q - p = 1 \/ (q - p = 2 /\ l[p + 1] \in {" ", "-"})
      BY Zenon DEF DigitsConnected
    <2>2. q - p = 1 \/ (q - p = 2 /\ l[p + 1] \in {Space, "-"})
      BY <2>1, Zenon DEF Space
    <2>3. ~(q - p = 1)
      OBVIOUS
    <2> QED BY <2>2, <2>3
  <1>2. k = p + 1
    BY <1>1
  <1> QED BY <1>1, <1>2, NotQuote

\* A card is a whole number, and has no quote in it.
LEMMA WindowCarvable ==
    ASSUME NEW l \in Seq(STRING), NEW d, DigitsOK(l, Len(l), d), NEW i, NEW L,
           IsWindow(l, d, i, L)
    PROVE  Carvable(l, Window(d, i, L)) /\ Window(d, i, L).start < Window(d, i, L).end
  <1> DEFINE j == i + L - 1
             w == Window(d, i, L)
  <1>0. Len(l) \in Nat /\ MinCard \in Nat \ {0} /\ MaxCard \in Nat \ {0}
    BY LineIs, Lengths
  <1>a. /\ \A k : IsDigit(l, k) <=> k \in 1..Len(l) /\ l[k] \in Digits
        /\ \A k : At(l, k) = IF k \in 1..Len(l) THEN l[k] ELSE "none"
    BY LineIs
  <1>1. /\ d \in Seq(Nat) /\ Len(d) \in Nat
        /\ \A a \in 1..Len(d) : d[a] \in 1..Len(l) /\ l[d[a]] \in Digits
        /\ \A a, b \in 1..Len(d) : a < b => d[a] < d[b]
    BY LenProperties DEF DigitsOK
  <1>2. /\ i \in 1..Len(d) /\ L \in MinCard..MaxCard /\ j <= Len(d)
        /\ \A k \in i + 1..j : DigitsConnected(l, d[k - 1], d[k])
        /\ Fits(l, d, i, L)
    BY DEF IsWindow
  <1>3. L \in Nat \ {0} /\ j \in 1..Len(d) /\ i <= j /\ i \in Nat /\ j \in Nat
    BY <1>0, <1>1, <1>2
  <1>4. w \in Ranges /\ w.start = d[i] /\ w.end = d[j] + 1
    BY <1>1, <1>2, <1>3, WindowRange
  <1> HIDE DEF j, w
  <1>5. d[i] \in 1..Len(l) /\ d[j] \in 1..Len(l) /\ d[i] <= d[j]
    <2>1. i = j \/ i < j
      BY <1>3
    <2>2. d[i] \in 1..Len(l) /\ d[j] \in 1..Len(l)
      BY <1>1, <1>2, <1>3
    <2> QED BY <1>1, <1>2, <1>3, <2>1, <2>2
  <1>6. ASSUME NEW k \in d[i]..d[j] PROVE l[k] # Quote
    <2> DEFINE T == {a \in i..j : d[a] >= k}
    <2>1. T \subseteq Nat /\ j \in T /\ k \in Nat
      BY <1>0, <1>3, <1>5
    <2>2. PICK a \in T : \A m \in T : a <= m
      <3> HIDE DEF T
      <3> QED BY <2>1, LeastOf
    <2>3. a \in i..j /\ d[a] >= k /\ a \in 1..Len(d)
      BY <1>1, <1>2, <1>3, <2>2
    <2>4. CASE d[a] = k
      BY <1>1, <2>3, <2>4, DigitsApart
    <2>5. CASE d[a] # k
      <3>1. d[a] \in Nat /\ d[a] > k
        BY <1>1, <2>1, <2>3, <2>5
      <3>2. a # i
        BY <1>5, <1>6, <2>1, <3>1
      <3>3. a - 1 \in i..j /\ a \in i + 1..j /\ ~(a <= a - 1) /\ a - 1 \in 1..Len(d)
        <4>1. Len(d) \in Nat /\ i \in 1..Len(d) /\ j \in 1..Len(d) /\ a \in i..j
          BY <1>1, <1>2, <1>3, <2>3
        <4> HIDE DEF T
        <4> QED BY <3>2, <4>1
      <3>4. a - 1 \notin T
        <4> HIDE DEF T
        <4> QED BY <2>2, <3>3
      <3>5. d[a - 1] \in Nat /\ d[a - 1] < k
        <4>1. d[a - 1] \in Nat
          <5>1. \A x \in 1..Len(d) : d[x] \in Nat
            BY <1>1
          <5> QED BY <3>3, <5>1, Zenon
        <4>2. ~(d[a - 1] >= k)
          BY <3>3, <3>4
        <4> QED BY <2>1, <4>1, <4>2
      <3>6. DigitsConnected(l, d[a - 1], d[a])
        BY <1>2, <3>3
      <3> QED BY <2>1, <3>1, <3>5, <3>6, ConnectedIs
    <2> QED BY <2>4, <2>5
  <1>7. Plain(l, d[i], d[j] + 1)
    <2>1. d[j] + 1 \in d[i] + 1..Len(l) + 1 /\ d[i]..(d[j] + 1) - 1 = d[i]..d[j]
      BY <1>0, <1>5
    <2> QED BY <1>6, <2>1 DEF Plain
  <1>8. IsValidBoundary(l, d[i], d[j] + 1)
    BY <1>2, <1>4 DEF Fits, w
  <1>9. /\ At(l, d[i] - 1) \notin Digits /\ At(l, d[j] + 1) \notin Digits
        /\ At(l, d[i] - 1) = "." => At(l, d[i] - 2) \notin Digits
        /\ At(l, d[j] + 1) = "." => At(l, (d[j] + 1) + 1) \notin Digits
    BY <1>8 DEF IsValidBoundary, SideOK
  <1>10. \A k : IsDigit(l, k) => At(l, k) \in Digits
    BY <1>a
  <1>11. ~InsideNumber(l, d[i])
    BY <1>9, <1>10 DEF InsideNumber
  <1>12. ~InsideNumber(l, d[j] + 1)
    BY <1>9, <1>10 DEF InsideNumber
  <1>13. w.start < w.end
    BY <1>4, <1>5
  <1> QED BY <1>4, <1>5, <1>7, <1>11, <1>12, <1>13 DEF Carvable, w

\* The cards of a line: apart, each can be carved, and together they are the
\* windows.
CardsOK(l, cs) ==
    /\ cs \in Seq(Ranges) /\ Apart(cs)
    /\ \A a \in DOMAIN cs : Carvable(l, cs[a])
    /\ \A p \in Nat : (\E a \in DOMAIN cs : In(p, cs[a])) <=>
           \E i, L : IsWindow(l, DigitIndices(l), i, L) /\ In(p, Window(DigitIndices(l), i, L))

LEMMA CardsCarvable ==
    ASSUME NEW l \in Seq(STRING)
    PROVE  CardsOK(l, FindLuhnSequences(l))
  <1> DEFINE d == DigitIndices(l)
             rs == LuhnRanges(l, d)
             cs == MergeRanges(rs)
  <1>0. DigitsOK(l, Len(l), d)
    BY DigitsAre
  <1>a. Len(l) \in Nat
    BY LineIs
  <1>b. FindLuhnSequences(l) = cs
    BY DEF FindLuhnSequences
  <1> HIDE DEF d
  <1>1. d \in Seq(Nat) /\ \A a, b \in 1..Len(d) : a < b => d[a] < d[b]
    BY <1>0 DEF DigitsOK
  <1>2. /\ rs \in Seq(Ranges) /\ StartsInOrder(rs)
        /\ \A a \in DOMAIN rs : \E i, L : IsWindow(l, d, i, L) /\ rs[a] = Window(d, i, L)
        /\ \A i, L : IsWindow(l, d, i, L) => \E a \in DOMAIN rs : rs[a] = Window(d, i, L)
    BY <1>1, LuhnRangesAre
  <1> HIDE DEF rs
  <1>3. DOMAIN rs = 1..Len(rs)
    BY <1>2, LenProperties
  <1>4. \A a \in DOMAIN rs : Carvable(l, rs[a]) /\ rs[a].start < rs[a].end
    BY <1>0, <1>2, WindowCarvable
  <1>5. MergeOK(rs, Len(rs), cs)
    BY <1>2, <1>4, RangesMerged
  <1> HIDE DEF cs
  <1>6. /\ cs \in Seq(Ranges) /\ Apart(cs)
        /\ \A a \in DOMAIN cs : cs[a].start < cs[a].end
        /\ \A a \in DOMAIN cs : \E b \in DOMAIN rs : cs[a].start = rs[b].start
        /\ \A a \in DOMAIN cs : \E b \in DOMAIN rs : cs[a].end = rs[b].end
        /\ \A p \in Nat : (\E a \in DOMAIN cs : In(p, cs[a])) <=> (\E b \in DOMAIN rs : In(p, rs[b]))
    BY <1>3, <1>5 DEF MergeOK
  <1>7. ASSUME NEW a \in DOMAIN cs PROVE Carvable(l, cs[a])
    <2>1. PICK b \in DOMAIN rs : cs[a].start = rs[b].start
      BY <1>6
    <2>2. PICK c \in DOMAIN rs : cs[a].end = rs[c].end
      BY <1>6
    <2>3. /\ Carvable(l, rs[b]) /\ Carvable(l, rs[c])
          /\ cs[a].start < cs[a].end
      BY <1>4, <1>6
    <2>4. cs[a] \in Ranges
      <3>1. a \in 1..Len(cs)
        BY <1>6, LenProperties
      <3> QED BY <1>6, <3>1, ElementOfSeq
    <2>5. cs[a].start \in 1..Len(l) /\ ~InsideNumber(l, cs[a].start) /\ ~InsideNumber(l, cs[a].end)
      BY <2>1, <2>2, <2>3 DEF Carvable
    <2>6. cs[a].end \in Nat /\ cs[a].end <= Len(l) + 1
      <3>1. rs[c].end \in rs[c].start + 1..Len(l) + 1 /\ rs[c].start \in 1..Len(l)
        BY <2>3 DEF Carvable, Plain
      <3> QED BY <1>a, <2>2, <3>1
    <2>7. ASSUME NEW k \in cs[a].start..cs[a].end - 1 PROVE l[k] # Quote
      <3>1. k \in Nat /\ In(k, cs[a])
        BY <1>a, <2>5, <2>6 DEF In
      <3>2. PICK e \in DOMAIN rs : In(k, rs[e])
        BY <1>6, <3>1
      <3>3. Plain(l, rs[e].start, rs[e].end) /\ rs[e] \in Ranges
        BY <1>4 DEF Carvable
      <3>4. k \in rs[e].start..rs[e].end - 1
        BY <3>1, <3>2, <3>3 DEF In, Ranges
      <3> QED BY <3>3, <3>4 DEF Plain
    <2>8. cs[a].end \in cs[a].start + 1..Len(l) + 1
      BY <1>a, <2>3, <2>5, <2>6
    <2> QED BY <2>4, <2>5, <2>7, <2>8 DEF Carvable, Plain
  <1>8. ASSUME NEW p \in Nat
        PROVE  (\E a \in DOMAIN cs : In(p, cs[a])) <=>
                   \E i, L : IsWindow(l, d, i, L) /\ In(p, Window(d, i, L))
    <2>1. (\E b \in DOMAIN rs : In(p, rs[b])) <=>
              \E i, L : IsWindow(l, d, i, L) /\ In(p, Window(d, i, L))
      BY <1>2
    <2> QED BY <1>6, <2>1
  <1> QED BY <1>6, <1>7, <1>8, <1>b DEF CardsOK, d
------------------------------------------------------------------------------
(* Positions and quotes of a line.                                         *)

LEMMA PositionsAre ==
    ASSUME NEW a \in Nat, NEW b \in Nat, a <= b
    PROVE  /\ Positions(a, b) \in Seq(Nat) /\ Len(Positions(a, b)) = b - a
           /\ \A i \in 1..b - a : Positions(a, b)[i] = a + i - 1
  <1>1. Positions(a, b) = [i \in 1..b - a |-> a + i - 1]
    BY DEF Positions, Max2
  <1>2. \A i \in 1..b - a : a + i - 1 \in Nat
    OBVIOUS
  <1>3. b - a \in Nat
    OBVIOUS
  <1> QED BY <1>1, <1>2, <1>3

LEMMA PositionsJoin ==
    ASSUME NEW a \in Nat, NEW b \in Nat, NEW c \in Nat, a <= b, b <= c
    PROVE  Positions(a, b) \o Positions(b, c) = Positions(a, c)
  <1> DEFINE s == Positions(a, b)
             t == Positions(b, c)
             u == Positions(a, c)
  <1>1. /\ s \in Seq(Nat) /\ Len(s) = b - a /\ \A i \in 1..b - a : s[i] = a + i - 1
        /\ t \in Seq(Nat) /\ Len(t) = c - b /\ \A i \in 1..c - b : t[i] = b + i - 1
        /\ u \in Seq(Nat) /\ Len(u) = c - a /\ \A i \in 1..c - a : u[i] = a + i - 1
    <2>1. a <= c
      OBVIOUS
    <2>2. s \in Seq(Nat) /\ Len(s) = b - a /\ \A i \in 1..b - a : s[i] = a + i - 1
      BY PositionsAre
    <2>3. t \in Seq(Nat) /\ Len(t) = c - b /\ \A i \in 1..c - b : t[i] = b + i - 1
      BY PositionsAre
    <2>4. u \in Seq(Nat) /\ Len(u) = c - a /\ \A i \in 1..c - a : u[i] = a + i - 1
      BY <2>1, PositionsAre
    <2> QED BY <2>2, <2>3, <2>4
  <1> HIDE DEF s, t, u
  <1>2. /\ s \o t \in Seq(Nat) /\ Len(s \o t) = (b - a) + (c - b)
        /\ \A i \in 1..(b - a) + (c - b) :
               (s \o t)[i] = IF i <= b - a THEN s[i] ELSE t[i - (b - a)]
    <2>1. s \in Seq(Nat) /\ t \in Seq(Nat) /\ Len(s) = b - a /\ Len(t) = c - b
      BY <1>1
    <2>2. /\ s \o t \in Seq(Nat) /\ Len(s \o t) = Len(s) + Len(t)
          /\ \A i \in 1..Len(s) + Len(t) :
                 (s \o t)[i] = IF i <= Len(s) THEN s[i] ELSE t[i - Len(s)]
      BY <2>1, ConcatProperties
    <2> QED BY <2>1, <2>2
  <1>3. Len(s \o t) = Len(u) /\ Len(u) \in Nat
    BY <1>1, <1>2
  <1>4. ASSUME NEW i \in 1..Len(u) PROVE (s \o t)[i] = u[i]
    <2>1. i \in 1..c - a /\ i \in 1..(b - a) + (c - b)
      BY <1>1
    <2>2. CASE i <= b - a
      <3>1. i \in 1..b - a
        BY <2>1, <2>2
      <3> QED BY <1>1, <1>2, <2>1, <2>2, <3>1
    <2>3. CASE ~(i <= b - a)
      <3>1. i - (b - a) \in 1..c - b /\ b + (i - (b - a)) - 1 = a + i - 1
        BY <2>1, <2>3
      <3>2. (s \o t)[i] = t[i - (b - a)]
        BY <1>2, <2>1, <2>3
      <3>3. t[i - (b - a)] = b + (i - (b - a)) - 1
        BY <1>1, <3>1
      <3> QED BY <1>1, <2>1, <3>1, <3>2, <3>3
    <2> QED BY <2>2, <2>3
  <1>5. s \o t = u
    BY <1>1, <1>2, <1>3, <1>4, SeqEqual
  <1> QED BY <1>5 DEF s, t, u

LEMMA PositionsFew ==
    ASSUME NEW a \in Nat
    PROVE  Positions(a, a) = <<>> /\ Positions(a, a + 1) = <<a>>
  <1>1. Positions(a, a) = <<>>
    <2>1. Positions(a, a) \in Seq(Nat) /\ Len(Positions(a, a)) = 0
      BY PositionsAre
    <2> QED BY <2>1, EmptySeq
  <1>2. Positions(a, a + 1) = <<a>>
    <2>1. Positions(a, a + 1) = [i \in 1..1 |-> a + i - 1]
      BY DEF Positions, Max2
    <2>2. \A i \in 1..1 : a + i - 1 = a
      OBVIOUS
    <2> QED BY <2>1, <2>2
  <1> QED BY <1>1, <1>2

\* The quotes between two positions.
QuotesIn(l, a, b) == {i \in a..b - 1 : l[i] = Quote}

LEMMA QuoteAfterIs ==
    ASSUME NEW l, NEW a, NEW b, NEW q
    PROVE  QuoteAfter(l, a, b, q) = IF Cardinality(QuotesIn(l, a, b)) % 2 = 0 THEN q ELSE ~q
  BY Zenon DEF QuoteAfter, QuotesIn, Quote

LEMMA QuotedIs ==
    ASSUME NEW l, NEW c
    PROVE  Quoted(l, c) <=> At(l, c.start - 1) = Quote /\ At(l, c.end) = Quote
  BY Zenon DEF Quoted, Quote

\* A piece and the one behind it turn the quote as both together.
LEMMA QuotesJoin ==
    ASSUME NEW l, NEW a \in Nat, NEW b \in Nat, NEW c \in Nat, a <= b, b <= c, NEW q \in BOOLEAN
    PROVE  /\ QuoteAfter(l, b, c, QuoteAfter(l, a, b, q)) = QuoteAfter(l, a, c, q)
           /\ QuoteAfter(l, a, b, q) \in BOOLEAN
  <1> DEFINE S == QuotesIn(l, a, b)
             T == QuotesIn(l, b, c)
             U == QuotesIn(l, a, c)
  <1>1. U = S \cup T /\ S \cap T = {}
    BY DEF QuotesIn
  <1>2. IsFiniteSet(S) /\ IsFiniteSet(T)
    <2>1. S \in SUBSET (a..b - 1) /\ T \in SUBSET (b..c - 1)
      BY DEF QuotesIn
    <2>2. IsFiniteSet(a..b - 1) /\ IsFiniteSet(b..c - 1)
      BY FS_Interval
    <2> HIDE DEF S, T
    <2> QED BY <2>1, <2>2, FS_Subset
  <1> HIDE DEF S, T, U
  <1> DEFINE m == Cardinality(S)
             n == Cardinality(T)
             k == Cardinality(U)
  <1>3. m \in Nat /\ n \in Nat /\ Cardinality({}) = 0
    BY <1>2, FS_CardinalityType, FS_EmptySet
  <1>4. k = m + n
    <2>1. k = m + n - Cardinality(S \cap T)
      BY <1>1, <1>2, FS_Union
    <2> HIDE DEF m, n, k
    <2> QED BY <1>1, <1>3, <2>1
  <1> HIDE DEF m, n, k
  <1>5. k % 2 = 0 <=> (m % 2 = 0 <=> n % 2 = 0)
    BY <1>3, <1>4
  <1>6. /\ \A p : QuoteAfter(l, a, b, p) = IF m % 2 = 0 THEN p ELSE ~p
        /\ \A p : QuoteAfter(l, b, c, p) = IF n % 2 = 0 THEN p ELSE ~p
        /\ \A p : QuoteAfter(l, a, c, p) = IF k % 2 = 0 THEN p ELSE ~p
    BY QuoteAfterIs DEF m, n, k, S, T, U
  <1>7. QuoteAfter(l, a, b, q) \in BOOLEAN
    BY <1>6, Zenon
  <1> DEFINE em == m % 2 = 0
             en == n % 2 = 0
             ek == k % 2 = 0
  <1>8. QuoteAfter(l, b, c, QuoteAfter(l, a, b, q)) = QuoteAfter(l, a, c, q)
    <2>1. ek <=> (em <=> en)
      BY <1>5
    <2>2. /\ \A p : QuoteAfter(l, a, b, p) = IF em THEN p ELSE ~p
          /\ \A p : QuoteAfter(l, b, c, p) = IF en THEN p ELSE ~p
          /\ \A p : QuoteAfter(l, a, c, p) = IF ek THEN p ELSE ~p
      BY <1>6
    <2> HIDE DEF em, en, ek
    <2>3. CASE q = TRUE
      BY <2>1, <2>2, <2>3, Zenon
    <2>4. CASE q = FALSE
      BY <2>1, <2>2, <2>4, Zenon
    <2> QED BY <2>3, <2>4
  <1> QED BY <1>7, <1>8

\* Two quotes, or none, leave it as it was.
LEMMA QuotesEven ==
    ASSUME NEW l, NEW a, NEW b, NEW q, NEW x \in Nat, NEW y \in Nat, x # y,
           QuotesIn(l, a, b) = {} \/ QuotesIn(l, a, b) = {x, y}
    PROVE  QuoteAfter(l, a, b, q) = q
  <1>1. Cardinality({}) = 0 /\ IsFiniteSet({})
    BY FS_EmptySet
  <1>2. IsFiniteSet({x}) /\ Cardinality({x}) = 1
    <2>1. {} \cup {x} = {x}
      OBVIOUS
    <2>2. IsFiniteSet({} \cup {x}) /\ Cardinality({} \cup {x}) = IF x \in {} THEN 0 ELSE 0 + 1
      BY <1>1, FS_AddElement
    <2> QED BY <2>1, <2>2
  <1>3. Cardinality({x, y}) = 2
    <2>1. {x} \cup {y} = {x, y} /\ y \notin {x}
      OBVIOUS
    <2>2. Cardinality({x} \cup {y}) = IF y \in {x} THEN 1 ELSE 1 + 1
      BY <1>2, FS_AddElement
    <2> QED BY <2>1, <2>2
  <1>4. Cardinality(QuotesIn(l, a, b)) \in {0, 2}
    BY <1>1, <1>3
  <1>5. Cardinality(QuotesIn(l, a, b)) % 2 = 0
    BY <1>4
  <1> QED BY <1>5, QuoteAfterIs, Zenon
------------------------------------------------------------------------------
(* The loop of scanLine over what is carved.                               *)

Pieces == [at : Nat, inQuote : BOOLEAN]
Accs(cs) ==
    [chunk : Nat, inQuote : BOOLEAN, written : Seq(Nat), pieces : Seq(Pieces), carves : {cs}]

\* No two of the carved values share a quote.
NoneShared(l, cs) ==
    \A a, b \in DOMAIN cs :
        ~(Quoted(l, cs[a]) /\ Quoted(l, cs[b]) /\ cs[b].start = cs[a].end + 1)

\* scanLine after some carves: what is written is the line so far, and the
\* quote is the quote of the line.
LineSoFar(l, acc) ==
    /\ acc.written = Positions(1, acc.chunk)
    /\ acc.inQuote = QuoteAfter(l, 1, acc.chunk, FALSE)
    /\ \A a \in DOMAIN acc.pieces :
           acc.pieces[a].inQuote = QuoteAfter(l, 1, acc.pieces[a].at, FALSE)

ScanOK(l, cs, n, acc) ==
    /\ acc \in Accs(cs)
    /\ acc.chunk = IF n = 0 THEN 1 ELSE Taken(l, cs[n]).end
    /\ NoneShared(l, cs) => LineSoFar(l, acc)

\* What is taken out of the line with a carved value: it, or it and its quotes.
LEMMA TakenIs ==
    ASSUME NEW l \in Seq(STRING), NEW c, Carvable(l, c)
    PROVE  LET t == Taken(l, c)
           IN  /\ t.start \in 1..Len(l) /\ t.end \in t.start + 1..Len(l) + 1
               /\ t.start = IF Quoted(l, c) THEN c.start - 1 ELSE c.start
               /\ t.end = IF Quoted(l, c) THEN c.end + 1 ELSE c.end
               /\ Quoted(l, c) => /\ c.start - 1 \in 1..Len(l) /\ l[c.start - 1] = Quote
                                  /\ c.end \in 1..Len(l) /\ l[c.end] = Quote
  <1> DEFINE t == Taken(l, c)
  <1>0. Len(l) \in Nat
    BY LineIs
  <1>a. \A k : At(l, k) = IF k \in 1..Len(l) THEN l[k] ELSE "none"
    BY LineIs
  <1>1. c.start \in 1..Len(l) /\ c.end \in c.start + 1..Len(l) + 1
    BY DEF Carvable, Plain
  <1>2. CASE Quoted(l, c)
    <2>1. t.start = c.start - 1 /\ t.end = c.end + 1
      BY <1>2 DEF Taken
    <2>2. At(l, c.start - 1) = Quote /\ At(l, c.end) = Quote
      BY <1>2, QuotedIs
    <2>3. /\ c.start - 1 \in 1..Len(l) /\ l[c.start - 1] = Quote
          /\ c.end \in 1..Len(l) /\ l[c.end] = Quote
      BY <1>a, <2>2, NotQuote
    <2> HIDE DEF t
    <2>4. t.start \in 1..Len(l) /\ t.end \in t.start + 1..Len(l) + 1
      <3>1. \A n \in Nat : \A a \in 1..n, b \in 1..n :
               b \in a + 1..n + 1 /\ a - 1 \in 1..n => b + 1 \in (a - 1) + 1..n + 1
        OBVIOUS
      <3> QED BY <1>0, <1>1, <2>1, <2>3, <3>1, Zenon
    <2> QED BY <1>2, <2>1, <2>3, <2>4 DEF t
  <1>3. CASE ~Quoted(l, c)
    <2>1. t = c
      BY <1>3 DEF Taken
    <2> HIDE DEF t
    <2> QED BY <1>1, <1>3, <2>1 DEF t
  <1> QED BY <1>2, <1>3

LEMMA TakenWritten ==
    ASSUME NEW l \in Seq(STRING), NEW c, Carvable(l, c)
    PROVE  LET t == Taken(l, c)
               quote == IF Quoted(l, c) THEN <<c.start - 1>> ELSE <<>>
               close == IF Quoted(l, c) THEN <<c.end>> ELSE <<>>
           IN  /\ quote \in Seq(Nat) /\ close \in Seq(Nat)
               /\ (quote \o Positions(c.start, c.end)) \o close = Positions(t.start, t.end)
               /\ \A q : QuoteAfter(l, t.start, t.end, q) = q
  <1> DEFINE t == Taken(l, c)
             quote == IF Quoted(l, c) THEN <<c.start - 1>> ELSE <<>>
             close == IF Quoted(l, c) THEN <<c.end>> ELSE <<>>
             x == c.start
             y == c.end
  <1>0. Len(l) \in Nat
    BY LineIs
  <1>1. /\ x \in 1..Len(l) /\ y \in x + 1..Len(l) + 1
        /\ \A k \in x..y - 1 : l[k] # Quote
    BY DEF Carvable, Plain
  <1>2. x \in Nat \ {0} /\ y \in Nat \ {0} /\ x <= y /\ x # y
    BY <1>0, <1>1
  <1>3. CASE Quoted(l, c)
    <2>1. /\ t.start = x - 1 /\ t.end = y + 1
          /\ x - 1 \in 1..Len(l) /\ l[x - 1] = Quote
          /\ y \in 1..Len(l) /\ l[y] = Quote
      BY <1>3, TakenIs
    <2>2. quote = <<x - 1>> /\ close = <<y>>
      BY <1>3
    <2> HIDE DEF t, quote, close, x, y
    <2>3. x - 1 \in Nat /\ (x - 1) + 1 = x /\ y + 1 \in Nat /\ x - 1 <= x /\ x - 1 <= y /\ y <= y + 1
      BY <1>2
    <2>4. quote = Positions(x - 1, x) /\ close = Positions(y, y + 1)
      BY <1>2, <2>2, <2>3, PositionsFew
    <2>5. quote \in Seq(Nat) /\ close \in Seq(Nat)
      BY <1>2, <2>3, <2>4, PositionsAre
    <2>6. quote \o Positions(x, y) = Positions(x - 1, y)
      BY <1>2, <2>3, <2>4, PositionsJoin
    <2>7. (quote \o Positions(x, y)) \o close = Positions(x - 1, y + 1)
      <3>1. Positions(x - 1, y) \o Positions(y, y + 1) = Positions(x - 1, y + 1)
        BY <1>2, <2>3, PositionsJoin
      <3> QED BY <2>4, <2>6, <3>1
    <2>8. QuotesIn(l, x - 1, y + 1) = {x - 1, y}
      <3>1. \A k \in x - 1..(y + 1) - 1 : k = x - 1 \/ k = y \/ k \in x..y - 1
        BY <1>2
      <3>2. x - 1 \in x - 1..(y + 1) - 1 /\ y \in x - 1..(y + 1) - 1
        BY <1>2
      <3> QED BY <1>1, <2>1, <3>1, <3>2 DEF QuotesIn
    <2>9. \A q : QuoteAfter(l, x - 1, y + 1, q) = q
      <3>1. x - 1 # y
        BY <1>2
      <3> QED BY <1>2, <2>3, <2>8, <3>1, QuotesEven
    <2> QED BY <2>1, <2>5, <2>7, <2>9 DEF t, quote, close, x, y
  <1>4. CASE ~Quoted(l, c)
    <2>1. t = c /\ quote = <<>> /\ close = <<>>
      BY <1>4 DEF Taken
    <2>2. t.start = x /\ t.end = y
      BY <2>1
    <2> HIDE DEF t, quote, close, x, y
    <2>3. quote \in Seq(Nat) /\ close \in Seq(Nat)
      BY <2>1, EmptySeq
    <2>4. Positions(x, y) \in Seq(Nat)
      BY <1>2, PositionsAre
    <2>5. (quote \o Positions(x, y)) \o close = Positions(x, y)
      BY <2>1, <2>4, ConcatEmptySeq
    <2>6. QuotesIn(l, x, y) = {}
      BY <1>1 DEF QuotesIn
    <2>7. \A q : QuoteAfter(l, x, y, q) = q
      BY <1>2, <2>6, QuotesEven
    <2> QED BY <2>2, <2>3, <2>5, <2>7 DEF t, quote, close, x, y
  <1> QED BY <1>3, <1>4

\* What is taken out with one value ends before what is taken with the next.
LEMMA TakenApart ==
    ASSUME NEW l \in Seq(STRING), NEW c, NEW d, Carvable(l, c), Carvable(l, d),
           c.end <= d.start,
           ~(Quoted(l, c) /\ Quoted(l, d) /\ d.start = c.end + 1)
    PROVE  Taken(l, c).end <= Taken(l, d).start
  <1>0. Len(l) \in Nat
    BY LineIs
  <1>1. /\ c.start \in 1..Len(l) /\ c.end \in c.start + 1..Len(l) + 1
        /\ \A k \in c.start..c.end - 1 : l[k] # Quote
        /\ d.start \in 1..Len(l) /\ d.end \in d.start + 1..Len(l) + 1
        /\ \A k \in d.start..d.end - 1 : l[k] # Quote
    BY DEF Carvable, Plain
  <1>2. /\ Taken(l, c).end = IF Quoted(l, c) THEN c.end + 1 ELSE c.end
        /\ Quoted(l, c) => l[c.end] = Quote
    BY TakenIs
  <1>3. /\ Taken(l, d).start = IF Quoted(l, d) THEN d.start - 1 ELSE d.start
        /\ Quoted(l, d) => l[d.start - 1] = Quote
    BY TakenIs
  <1>4. Quoted(l, c) => c.end # d.start
    <2>1. d.start \in d.start..d.end - 1
      BY <1>0, <1>1
    <2> QED BY <1>1, <1>2, <2>1
  <1>5. Quoted(l, d) => c.end # d.start
    <2>1. c.end - 1 \in c.start..c.end - 1
      BY <1>0, <1>1
    <2> QED BY <1>1, <1>3, <2>1
  <1>6. c.end \in Nat /\ d.start \in Nat
    BY <1>0, <1>1
  <1>7. CASE Quoted(l, c) /\ Quoted(l, d)
    BY <1>2, <1>3, <1>4, <1>6, <1>7
  <1>8. CASE ~(Quoted(l, c) /\ Quoted(l, d))
    BY <1>2, <1>3, <1>4, <1>5, <1>6, <1>8
  <1> QED BY <1>7, <1>8
\* The piece of the line before a position.
LineUpTo(l, to, z) ==
    /\ z.written = Positions(1, to)
    /\ z.inQuote = QuoteAfter(l, 1, to, FALSE)
    /\ \A a \in DOMAIN z.pieces :
           z.pieces[a].inQuote = QuoteAfter(l, 1, z.pieces[a].at, FALSE)

LEMMA PieceIs ==
    ASSUME NEW l \in Seq(STRING), NEW cs, NEW acc \in Accs(cs), NEW to \in Nat, acc.chunk < to
    PROVE  /\ Piece(l, acc, to) \in Accs(cs)
           /\ LineSoFar(l, acc) /\ acc.chunk >= 1 => LineUpTo(l, to, Piece(l, acc, to))
  <1> DEFINE z == Piece(l, acc, to)
             p == [at |-> acc.chunk, inQuote |-> acc.inQuote]
             w == acc.written \o Positions(acc.chunk, to)
             q == QuoteAfter(l, acc.chunk, to, acc.inQuote)
             ps == Append(acc.pieces, p)
  <1>1. /\ acc.chunk \in Nat /\ acc.inQuote \in BOOLEAN /\ acc.written \in Seq(Nat)
        /\ acc.pieces \in Seq(Pieces)
    BY DEF Accs
  <1>2. p \in Pieces /\ p.at = acc.chunk /\ p.inQuote = acc.inQuote
    BY <1>1 DEF Pieces
  <1>3. Positions(acc.chunk, to) \in Seq(Nat) /\ acc.chunk <= to
    <2>1. acc.chunk <= to
      BY <1>1
    <2>2. Positions(acc.chunk, to) \in Seq(Nat)
      BY <1>1, <2>1, PositionsAre
    <2> QED BY <2>1, <2>2
  <1>4. w \in Seq(Nat)
    BY <1>1, <1>3, ConcatProperties
  <1>5. q \in BOOLEAN
    <2> HIDE DEF p, w, ps, z
    <2>1. q = IF Cardinality(QuotesIn(l, acc.chunk, to)) % 2 = 0 THEN acc.inQuote ELSE ~acc.inQuote
      BY QuoteAfterIs
    <2> HIDE DEF q
    <2> QED BY <1>1, <2>1, Zenon
  <1>6. z = [acc EXCEPT !.written = w, !.inQuote = q, !.pieces = ps]
    BY DEF Piece
  <1> HIDE DEF p
  <1>7. /\ ps \in Seq(Pieces) /\ Len(acc.pieces) \in Nat /\ DOMAIN acc.pieces = 1..Len(acc.pieces)
        /\ DOMAIN ps = 1..Len(acc.pieces) + 1
        /\ \A a \in 1..Len(acc.pieces) : ps[a] = acc.pieces[a]
        /\ ps[Len(acc.pieces) + 1] = p
    BY <1>1, <1>2, AppendProperties, LenProperties
  <1> HIDE DEF w, q, ps, z
  <1>8. /\ z \in Accs(cs) /\ z.chunk = acc.chunk /\ z.written = w /\ z.inQuote = q
        /\ z.pieces = ps
    BY <1>4, <1>5, <1>6, <1>7 DEF Accs
  <1>9. ASSUME LineSoFar(l, acc), acc.chunk >= 1
        PROVE  /\ w = Positions(1, to)
               /\ q = QuoteAfter(l, 1, to, FALSE)
               /\ \A a \in DOMAIN ps : ps[a].inQuote = QuoteAfter(l, 1, ps[a].at, FALSE)
    <2>1. acc.written = Positions(1, acc.chunk) /\ acc.inQuote = QuoteAfter(l, 1, acc.chunk, FALSE)
          /\ \A a \in DOMAIN acc.pieces :
                 acc.pieces[a].inQuote = QuoteAfter(l, 1, acc.pieces[a].at, FALSE)
      BY <1>9 DEF LineSoFar
    <2>2. w = Positions(1, to)
      <3>1. acc.chunk \in Nat /\ 1 <= acc.chunk /\ acc.chunk <= to
        BY <1>1, <1>3, <1>9
      <3>2. Positions(1, acc.chunk) \o Positions(acc.chunk, to) = Positions(1, to)
        BY <3>1, PositionsJoin
      <3> QED BY <2>1, <3>2, Zenon DEF w
    <2>3. q = QuoteAfter(l, 1, to, FALSE)
      <3>1. QuoteAfter(l, acc.chunk, to, QuoteAfter(l, 1, acc.chunk, FALSE)) = QuoteAfter(l, 1, to, FALSE)
        BY <1>1, <1>3, <1>9, QuotesJoin
      <3> QED BY <2>1, <3>1 DEF q
    <2>4. ASSUME NEW a \in DOMAIN ps PROVE ps[a].inQuote = QuoteAfter(l, 1, ps[a].at, FALSE)
      <3>1. (a \in DOMAIN acc.pieces /\ ps[a] = acc.pieces[a]) \/ ps[a] = p
        BY <1>7
      <3> QED BY <1>2, <2>1, <3>1
    <2> QED BY <2>2, <2>3, <2>4
  <1> QED BY <1>8, <1>9 DEF z, LineUpTo
LEMMA Associative ==
    ASSUME NEW r \in Seq(Nat), NEW s \in Seq(Nat), NEW u \in Seq(Nat)
    PROVE  (r \o s) \o u = r \o (s \o u)
  <1> DEFINE N == Nat
  <1>1. r \in Seq(N) /\ s \in Seq(N) /\ u \in Seq(N)
    OBVIOUS
  <1> HIDE DEF N
  <1> QED BY <1>1, ConcatAssociative

LEMMA CarveScanStep ==
    ASSUME NEW l \in Seq(STRING), NEW cs \in Seq(Ranges), \A a \in DOMAIN cs : Carvable(l, cs[a]),
           InOrder(cs), NEW n \in Nat, n + 1 \in 1..Len(cs), NEW acc, ScanOK(l, cs, n, acc)
    PROVE  ScanOK(l, cs, n + 1, ScanCarve(l, acc, cs[n + 1]))
  <1> DEFINE c == cs[n + 1]
             t == Taken(l, c)
             before == IF t.start > acc.chunk THEN Piece(l, acc, t.start) ELSE acc
             quote == IF Quoted(l, c) THEN <<c.start - 1>> ELSE <<>>
             close == IF Quoted(l, c) THEN <<c.end>> ELSE <<>>
             P == Positions(c.start, c.end)
             w == ((before.written \o quote) \o P) \o close
             z == ScanCarve(l, acc, c)
  <1>0. Len(l) \in Nat /\ Len(cs) \in Nat /\ DOMAIN cs = 1..Len(cs)
    BY LineIs, LenProperties
  <1>1. n + 1 \in DOMAIN cs /\ Carvable(l, c)
    BY <1>0
  <1>2. t.start \in 1..Len(l) /\ t.end \in t.start + 1..Len(l) + 1
    BY <1>1, TakenIs
  <1>3. /\ quote \in Seq(Nat) /\ close \in Seq(Nat)
        /\ (quote \o P) \o close = Positions(t.start, t.end)
        /\ \A q : QuoteAfter(l, t.start, t.end, q) = q
    BY <1>1, TakenWritten
  <1>4. P \in Seq(Nat)
    <2>1. c.start \in Nat /\ c.end \in Nat /\ c.start <= c.end
      <3>1. c.start \in 1..Len(l) /\ c.end \in c.start + 1..Len(l) + 1
        BY <1>1 DEF Carvable, Plain
      <3> QED BY <1>0, <3>1
    <2> QED BY <2>1, PositionsAre
  <1>5. z = [before EXCEPT !.written = w, !.inQuote = before.inQuote, !.chunk = t.end]
    BY DEF ScanCarve, Carried
  <1>6. /\ acc \in Accs(cs) /\ acc.chunk = IF n = 0 THEN 1 ELSE Taken(l, cs[n]).end
        /\ NoneShared(l, cs) => LineSoFar(l, acc)
    BY DEF ScanOK
  <1>7. acc.chunk \in Nat /\ acc.chunk >= 1
    <2>1. CASE n = 0
      BY <1>6, <2>1
    <2>2. CASE n # 0
      <3>1. n \in DOMAIN cs
        BY <1>0, <2>2
      <3>2. Taken(l, cs[n]).end \in Taken(l, cs[n]).start + 1..Len(l) + 1
            /\ Taken(l, cs[n]).start \in 1..Len(l)
        BY <3>1, TakenIs
      <3>3. acc.chunk = Taken(l, cs[n]).end
        BY <1>6, <2>2
      <3> QED BY <1>0, <3>2, <3>3
    <2> QED BY <2>1, <2>2
  <1>8. ASSUME NoneShared(l, cs) PROVE acc.chunk <= t.start
    <2>1. CASE n = 0
      BY <1>0, <1>2, <1>6, <2>1
    <2>2. CASE n # 0
      <3>1. n \in DOMAIN cs /\ n < n + 1
        BY <1>0, <2>2
      <3>2. Carvable(l, cs[n]) /\ cs[n].end <= c.start
        BY <1>1, <3>1 DEF InOrder
      <3>3. ~(Quoted(l, cs[n]) /\ Quoted(l, c) /\ c.start = cs[n].end + 1)
        BY <1>1, <1>8, <3>1 DEF NoneShared
      <3>4. Taken(l, cs[n]).end <= t.start
        BY <1>1, <3>2, <3>3, TakenApart
      <3> QED BY <1>6, <2>2, <3>4
    <2> QED BY <2>1, <2>2
  <1> HIDE DEF c, t, quote, close, P
  <1> DEFINE Right(x) == LineUpTo(l, t.start, x)
  <1>9. before \in Accs(cs) /\ (NoneShared(l, cs) => Right(before))
    <2>1. CASE t.start > acc.chunk
      <3>1. t.start \in Nat /\ acc.chunk < t.start
        BY <1>0, <1>2, <1>7, <2>1
      <3>2. before = Piece(l, acc, t.start)
        BY <2>1
      <3>3. before \in Accs(cs) /\ (LineSoFar(l, acc) /\ acc.chunk >= 1 => Right(before))
        BY <1>6, <3>1, <3>2, PieceIs
      <3> QED BY <1>6, <1>7, <3>3
    <2>2. CASE ~(t.start > acc.chunk)
      <3>1. before = acc
        BY <2>2
      <3> HIDE DEF before
      <3>2. ASSUME NoneShared(l, cs) PROVE acc.chunk = t.start
        BY <1>0, <1>2, <1>7, <1>8, <2>2, <3>2
      <3>3. NoneShared(l, cs) => Right(acc)
        BY <1>6, <3>2 DEF LineSoFar, LineUpTo
      <3> QED BY <1>6, <3>1, <3>3
    <2> QED BY <2>1, <2>2
  <1> HIDE DEF before
  <1>10. before.written \in Seq(Nat) /\ before.inQuote \in BOOLEAN
    BY <1>9 DEF Accs
  <1>11. w \in Seq(Nat) /\ w = before.written \o Positions(t.start, t.end)
    <2>1. before.written \o quote \in Seq(Nat)
      BY <1>3, <1>10, ConcatProperties
    <2>2. (before.written \o quote) \o P \in Seq(Nat)
      BY <1>4, <2>1, ConcatProperties
    <2>3. w \in Seq(Nat)
      BY <1>3, <2>2, ConcatProperties
    <2>4. (before.written \o quote) \o P = before.written \o (quote \o P)
      BY <1>3, <1>4, <1>10, Associative
    <2>5. quote \o P \in Seq(Nat)
      BY <1>3, <1>4, ConcatProperties
    <2>6. (before.written \o (quote \o P)) \o close = before.written \o ((quote \o P) \o close)
      BY <1>3, <1>10, <2>5, Associative
    <2>7. w = before.written \o Positions(t.start, t.end)
      BY <1>3, <2>4, <2>6
    <2> QED BY <2>3, <2>7
  <1> HIDE DEF w, z
  <1>12. t.start \in Nat /\ t.start >= 1 /\ t.end \in Nat /\ t.start <= t.end
    BY <1>0, <1>2
  <1>13. /\ z \in Accs(cs) /\ z.chunk = t.end /\ z.written = w /\ z.inQuote = before.inQuote
         /\ z.pieces = before.pieces
    BY <1>5, <1>9, <1>10, <1>11, <1>12 DEF Accs
  <1>14. ASSUME NoneShared(l, cs) PROVE LineSoFar(l, z)
    <2>1. /\ before.written = Positions(1, t.start)
          /\ before.inQuote = QuoteAfter(l, 1, t.start, FALSE)
          /\ \A a \in DOMAIN before.pieces :
                 before.pieces[a].inQuote = QuoteAfter(l, 1, before.pieces[a].at, FALSE)
      BY <1>9, <1>14 DEF LineUpTo
    <2>2. w = Positions(1, t.end)
      <3>1. Positions(1, t.start) \o Positions(t.start, t.end) = Positions(1, t.end)
        BY <1>12, PositionsJoin
      <3>2. before.written = Positions(1, t.start)
        BY <2>1
      <3> QED BY <1>11, <3>1, <3>2
    <2>3. before.inQuote = QuoteAfter(l, 1, t.end, FALSE)
      <3>1. QuoteAfter(l, t.start, t.end, QuoteAfter(l, 1, t.start, FALSE)) = QuoteAfter(l, 1, t.end, FALSE)
        BY <1>12, QuotesJoin
      <3>2. QuoteAfter(l, t.start, t.end, QuoteAfter(l, 1, t.start, FALSE)) = QuoteAfter(l, 1, t.start, FALSE)
        BY <1>3
      <3> QED BY <2>1, <3>1, <3>2
    <2> QED BY <1>13, <2>1, <2>2, <2>3 DEF LineSoFar
  <1>15. n + 1 # 0
    OBVIOUS
  <1>16. ScanOK(l, cs, n + 1, z)
    BY <1>13, <1>14, <1>15 DEF ScanOK, t, c
  <1> QED BY <1>16 DEF z, c

\* The line, its carves done.
LEMMA ScanCarvesAre ==
    ASSUME NEW l \in Seq(STRING), NEW cs \in Seq(Ranges), \A a \in DOMAIN cs : Carvable(l, cs[a]),
           InOrder(cs)
    PROVE  ScanOK(l, cs, Len(cs), ScanCarves(l, cs))
  <1>0. Len(cs) \in Nat
    BY LenProperties
  <1>1. PICK f : ScanRun(l, cs, f)
    BY <1>0, ScanLoop
  <1>2. /\ f[0] = ScanStart(cs)
        /\ \A n \in 1..Len(cs) : f[n] = ScanCarve(l, f[n - 1], cs[n])
        /\ ScanCarves(l, cs) = f[Len(cs)]
    BY <1>1 DEF ScanRun
  <1> DEFINE B == {n \in 0..Len(cs) : ScanOK(l, cs, n, f[n])}
  <1>3. 0 \in B
    <2> DEFINE e == ScanStart(cs)
    <2>1. <<>> \in Seq(Nat) /\ <<>> \in Seq(Pieces) /\ DOMAIN <<>> = {}
      BY EmptySeq
    <2>2. /\ e \in Accs(cs) /\ e.chunk = 1 /\ e.inQuote = FALSE /\ e.written = <<>>
          /\ e.pieces = <<>>
      BY <2>1 DEF ScanStart, Accs
    <2> HIDE DEF e
    <2>3. Positions(1, 1) = <<>>
      BY PositionsFew
    <2>4. QuoteAfter(l, 1, 1, FALSE) = FALSE
      <3>1. QuotesIn(l, 1, 1) = {}
        BY DEF QuotesIn
      <3>2. 1 \in Nat /\ 2 \in Nat /\ 1 # 2
        OBVIOUS
      <3> QED BY <3>1, <3>2, QuotesEven
    <2>5. LineSoFar(l, e)
      BY <2>1, <2>2, <2>3, <2>4 DEF LineSoFar
    <2>6. ScanOK(l, cs, 0, e)
      BY <2>2, <2>5 DEF ScanOK
    <2> QED BY <1>0, <1>2, <2>6 DEF e
  <1>4. ASSUME NEW n \in 0..Len(cs) - 1, n \in B PROVE n + 1 \in B
    <2>1. n + 1 \in 1..Len(cs) /\ n + 1 \in 0..Len(cs) /\ (n + 1) - 1 = n /\ n \in Nat
      BY <1>0
    <2>2. f[n + 1] = ScanCarve(l, f[n], cs[n + 1])
      BY <1>2, <2>1
    <2>3. ScanOK(l, cs, n, f[n])
      BY <1>4
    <2> QED BY <2>1, <2>2, <2>3, CarveScanStep
  <1>5. Len(cs) \in B
    <2> HIDE DEF B
    <2>1. 0..Len(cs) \subseteq B
      BY <1>0, <1>3, <1>4, CountUp
    <2> QED BY <1>0, <2>1
  <1> QED BY <1>2, <1>5

\* The line to its end: everything is written once and in its place.
LEMMA ScanRestIs ==
    ASSUME NEW l \in Seq(STRING), NEW cs \in Seq(Ranges), \A a \in DOMAIN cs : Carvable(l, cs[a]),
           InOrder(cs)
    PROVE  LET z == ScanRest(l, ScanCarves(l, cs))
           IN  /\ z \in Accs(cs)
               /\ NoneShared(l, cs) => LineUpTo(l, Len(l) + 1, z)
  <1> DEFINE acc == ScanCarves(l, cs)
             z == ScanRest(l, acc)
             to == Len(l) + 1
  <1>0. Len(l) \in Nat /\ Len(cs) \in Nat /\ DOMAIN cs = 1..Len(cs) /\ to \in Nat
    BY LineIs, LenProperties
  <1>1. ScanOK(l, cs, Len(cs), acc)
    BY ScanCarvesAre
  <1>2. z = IF acc.chunk <= Len(l) THEN Piece(l, acc, to) ELSE acc
    BY DEF ScanRest
  <1> HIDE DEF acc, z
  <1>3. acc.chunk \in Nat /\ acc.chunk >= 1 /\ acc.chunk <= Len(l) + 1
    <2>1. CASE Len(cs) = 0
      BY <1>0, <1>1, <2>1 DEF ScanOK
    <2>2. CASE Len(cs) # 0
      <3>1. Len(cs) \in DOMAIN cs
        BY <1>0, <2>2
      <3>2. /\ Taken(l, cs[Len(cs)]).end \in Taken(l, cs[Len(cs)]).start + 1..Len(l) + 1
            /\ Taken(l, cs[Len(cs)]).start \in 1..Len(l)
        BY <3>1, TakenIs
      <3>3. acc.chunk = Taken(l, cs[Len(cs)]).end
        BY <1>1, <2>2 DEF ScanOK
      <3> QED BY <1>0, <3>2, <3>3
    <2> QED BY <2>1, <2>2
  <1>4. acc \in Accs(cs) /\ (NoneShared(l, cs) => LineSoFar(l, acc))
    BY <1>1 DEF ScanOK
  <1> DEFINE Right(x) == LineUpTo(l, to, x)
  <1>5. CASE acc.chunk <= Len(l)
    <2>1. z = Piece(l, acc, to) /\ acc.chunk < to
      BY <1>0, <1>2, <1>3, <1>5
    <2> HIDE DEF to
    <2>2. z \in Accs(cs) /\ (LineSoFar(l, acc) /\ acc.chunk >= 1 => Right(z))
      BY <1>0, <1>4, <2>1, PieceIs
    <2>3. z \in Accs(cs) /\ (NoneShared(l, cs) => Right(z))
      BY <1>3, <1>4, <2>2
    <2> QED BY <2>3 DEF z, acc, to
  <1>6. CASE ~(acc.chunk <= Len(l))
    <2>1. z = acc /\ acc.chunk = to
      BY <1>0, <1>2, <1>3, <1>6
    <2> HIDE DEF to
    <2>2. z \in Accs(cs) /\ (NoneShared(l, cs) => Right(z))
      BY <1>4, <2>1 DEF LineSoFar, LineUpTo
    <2> QED BY <2>2 DEF z, acc, to
  <1> QED BY <1>5, <1>6
------------------------------------------------------------------------------
(* The theorems on the line.                                               *)

\* The line without its diff markers is a line.
LEMMA ScannedIs ==
    ASSUME NEW l \in Seq(STRING)
    PROVE  Scanned(l) \in Seq(STRING)
  <1>1. Len(l) \in Nat
    BY LineIs
  <1>2. DiffMarkers(l) \in Nat /\ DiffMarkers(l) <= Len(l)
    BY <1>1 DEF DiffMarkers
  <1> QED BY <1>1, <1>2 DEF Scanned

\* What is carved out of a line: in order, each can be carved, every shaped
\* number among them.
CarvedOK(l, ns, ms) ==
    /\ ms \in Seq(Ranges) /\ InOrder(ms)
    /\ \A a \in DOMAIN ms : Carvable(l, ms[a])
    /\ \A b \in DOMAIN ns : \E a \in DOMAIN ms : ms[a] = ns[b]

LEMMA Carved ==
    ASSUME NEW l \in Seq(STRING), NEW elev
    PROVE  CarvedOK(l, FindShapedNumbers(l),
                    MergeCarves(CardRanges(l, elev), FindShapedNumbers(l)))
  <1> DEFINE cs == CardRanges(l, elev)
             ns == FindShapedNumbers(l)
             ms == MergeCarves(cs, ns)
  <1>0. Len(l) \in Nat
    BY LineIs
  <1>1. cs \in Seq(Ranges) /\ InOrder(cs) /\ \A a \in DOMAIN cs : Carvable(l, cs[a])
    <2>1. CASE cs = <<>>
      <3>1. <<>> \in Seq(Ranges) /\ DOMAIN <<>> = {}
        BY EmptySeq
      <3> HIDE DEF cs
      <3> QED BY <2>1, <3>1 DEF InOrder
    <2>2. CASE cs = FindLuhnSequences(l)
      <3>1. CardsOK(l, cs)
        BY <2>2, CardsCarvable
      <3> HIDE DEF cs
      <3>2. cs \in Seq(Ranges) /\ Apart(cs) /\ \A a \in DOMAIN cs : Carvable(l, cs[a])
        BY <3>1 DEF CardsOK
      <3>3. \A a \in DOMAIN cs : cs[a].start \in Nat /\ cs[a].end \in Nat
        BY <3>2 DEF Carvable, Ranges
      <3>4. InOrder(cs)
        BY <3>2, <3>3 DEF Apart, InOrder
      <3> QED BY <3>2, <3>4
    <2> QED BY <2>1, <2>2 DEF CardRanges
  <1>2. ns \in Seq(Ranges) /\ InOrder(ns) /\ \A a \in DOMAIN ns : Carvable(l, ns[a])
    BY NumbersCarvable
  <1> HIDE DEF cs, ns
  <1>3. /\ \A a \in DOMAIN cs : cs[a].start <= cs[a].end
        /\ \A a \in DOMAIN ns : ns[a].start <= ns[a].end
    <2>1. ASSUME NEW c, Carvable(l, c) PROVE c.start <= c.end
      <3>1. c.start \in 1..Len(l) /\ c.end \in c.start + 1..Len(l) + 1
        BY <2>1 DEF Carvable, Plain
      <3> QED BY <1>0, <3>1
    <2> QED BY <1>1, <1>2, <2>1
  <1>4. /\ ms \in Seq(Ranges) /\ InOrder(ms)
        /\ \A a \in DOMAIN ms : \E b : \/ b \in DOMAIN cs /\ ms[a] = cs[b]
                                       \/ b \in DOMAIN ns /\ ms[a] = ns[b]
        /\ \A b \in DOMAIN ns : \E a \in DOMAIN ms : ms[a] = ns[b]
    BY <1>1, <1>2, <1>3, CarvesMerged
  <1> HIDE DEF ms
  <1>5. \A a \in DOMAIN ms : Carvable(l, ms[a])
    BY <1>1, <1>2, <1>4
  <1>6. CarvedOK(l, ns, ms)
    BY <1>4, <1>5 DEF CarvedOK
  <1> QED BY <1>6 DEF cs, ns, ms

\* What scanLine makes of a line, as a function of the line.
ScannedAll(l, elev) ==
    ScanRest(l, ScanCarves(l, MergeCarves(CardRanges(l, elev), FindShapedNumbers(l))))

\* The line is made of texts, and cards, nums and out are what scanLine finds
\* and makes of it.
LineState ==
    /\ alphabet \in Alphabets
    /\ line \in Seq(STRING)
    /\ cards = CardRanges(Scanned(line), elevated)
    /\ nums = FindShapedNumbers(Scanned(line))
    /\ out = ScannedAll(Scanned(line), elevated)

\* Nothing is found in an empty line.
LEMMA EmptyLine ==
    ASSUME NEW elev
    PROVE  /\ CardRanges(<<>>, elev) = <<>> /\ FindShapedNumbers(<<>>) = <<>>
           /\ ScannedAll(<<>>, elev) = ScanCarves(<<>>, <<>>)
           /\ Scanned(<<>>) = <<>>
  <1>0. <<>> \in Seq(STRING) /\ Len(<<>>) = 0
    BY EmptySeq
  <1>1. \A c : ~Carvable(<<>>, c)
    <2>1. 1..Len(<<>>) = {}
      BY <1>0
    <2> QED BY <2>1 DEF Carvable
  <1>2. ASSUME NEW s \in Seq(Ranges), \A a \in DOMAIN s : Carvable(<<>>, s[a]) PROVE s = <<>>
    <2>1. DOMAIN s = {}
      BY <1>1, <1>2
    <2>2. Len(s) \in Nat /\ DOMAIN s = 1..Len(s)
      BY LenProperties
    <2>3. ~(Len(s) \in Nat \ {0})
      <3> SUFFICES ASSUME Len(s) \in Nat \ {0} PROVE FALSE
        OBVIOUS
      <3>1. 1 \in 1..Len(s)
        OBVIOUS
      <3> QED BY <2>1, <2>2, <3>1
    <2> QED BY <2>3, EmptySeq
  <1>3. FindShapedNumbers(<<>>) = <<>>
    BY <1>0, <1>2, NumbersCarvable
  <1>4. FindLuhnSequences(<<>>) = <<>>
    <2>1. CardsOK(<<>>, FindLuhnSequences(<<>>))
      BY <1>0, CardsCarvable
    <2> QED BY <1>2, <2>1 DEF CardsOK
  <1>5. CardRanges(<<>>, elev) = <<>>
    BY <1>4 DEF CardRanges
  <1>6. MergeCarves(CardRanges(<<>>, elev), FindShapedNumbers(<<>>)) = <<>>
    <2>1. CarvedOK(<<>>, FindShapedNumbers(<<>>),
                   MergeCarves(CardRanges(<<>>, elev), FindShapedNumbers(<<>>)))
      BY <1>0, Carved
    <2> QED BY <1>2, <2>1 DEF CarvedOK
  <1>7. ScanRest(<<>>, ScanCarves(<<>>, <<>>)) = ScanCarves(<<>>, <<>>)
    <2>1. <<>> \in Seq(Ranges) /\ DOMAIN <<>> = {} /\ InOrder(<<>>)
      BY EmptySeq DEF InOrder
    <2>2. ScanOK(<<>>, <<>>, Len(<<>>), ScanCarves(<<>>, <<>>))
      BY <1>0, <2>1, ScanCarvesAre
    <2>3. ScanCarves(<<>>, <<>>).chunk = 1
      BY <1>0, <2>2 DEF ScanOK
    <2>4. ~(1 <= Len(<<>>))
      BY <1>0
    <2> QED BY <2>3, <2>4 DEF ScanRest
  <1>8. Scanned(<<>>) = <<>>
    <2>1. DiffMarkers(<<>>) = 0
      BY <1>0 DEF DiffMarkers
    <2> QED BY <1>0, <2>1 DEF Scanned
  <1> QED BY <1>3, <1>5, <1>6, <1>7, <1>8 DEF ScannedAll

LEMMA LineInit == CarveInit => LineState
  <1> SUFFICES ASSUME CarveInit PROVE LineState
    OBVIOUS
  <1>1. <<>> \in Seq(STRING)
    BY EmptySeq
  <1> QED BY <1>1, EmptyLine DEF CarveInit, LineState

LEMMA LineStep == LineState /\ [NextLine]_carveVars => LineState'
  <1> SUFFICES ASSUME LineState, [NextLine]_carveVars PROVE LineState'
    OBVIOUS
  <1>1. CASE NextLine
    <2>1. PICK t \in alphabet : line' = line \o t
      BY <1>1 DEF NextLine
    <2>2. t \in Seq(STRING) /\ line \in Seq(STRING)
      BY LineAssumption DEF LineState
    <2>3. line' \in Seq(STRING)
      BY <2>1, <2>2, ConcatProperties
    <2>4. /\ cards' = CardRanges(Scanned(line'), elevated')
          /\ nums' = FindShapedNumbers(Scanned(line'))
          /\ out' = ScannedAll(Scanned(line'), elevated')
          /\ alphabet' = alphabet
      BY <1>1 DEF NextLine, ScannedAll
    <2> QED BY <2>3, <2>4 DEF LineState
  <1>2. CASE UNCHANGED carveVars
    BY <1>2 DEF LineState, carveVars
  <1> QED BY <1>1, <1>2

\* The state of a line is what scanLine finds and makes of it.
THEOREM LineInvariant == LineSpec => []LineState
  BY LineInit, LineStep, PTL DEF LineSpec

\* The facts the properties of a line rest on.
LEMMA LineFacts ==
    ASSUME LineState
    PROVE  LET l == Scanned(line)
           IN  /\ l \in Seq(STRING) /\ CarvedOK(l, nums, out.carves)
               /\ out \in Accs(out.carves)
               /\ NoneShared(l, out.carves) => LineUpTo(l, Len(l) + 1, out)
  <1> DEFINE l == Scanned(line)
             ms == MergeCarves(cards, nums)
  <1>1. l \in Seq(STRING)
    BY ScannedIs DEF LineState
  <1>2. /\ nums = FindShapedNumbers(l) /\ cards = CardRanges(l, elevated)
        /\ out = ScanRest(l, ScanCarves(l, ms))
    BY DEF LineState, ScannedAll
  <1> HIDE DEF l
  <1>3. CarvedOK(l, nums, ms)
    BY <1>1, <1>2, Carved
  <1> HIDE DEF ms
  <1>4. ms \in Seq(Ranges) /\ InOrder(ms) /\ \A a \in DOMAIN ms : Carvable(l, ms[a])
    BY <1>3 DEF CarvedOK
  <1>5. out \in Accs(ms) /\ (NoneShared(l, ms) => LineUpTo(l, Len(l) + 1, out))
    BY <1>1, <1>2, <1>4, ScanRestIs
  <1>6. out.carves = ms
    BY <1>5 DEF Accs
  <1> QED BY <1>1, <1>3, <1>5, <1>6 DEF l

\* In every state what is carved is in order and apart, a whole number each
\* time, and no shaped number is lost to a card: mergeCarves, isValidBoundary,
\* phoneGlue and phoneGluedAfter, for lines of every length.
THEOREM CarvesWholeHolds == LineSpec => []CarvesWhole
  <1>1. LineState => CarvesWhole
    <2> SUFFICES ASSUME LineState PROVE CarvesWhole
      OBVIOUS
    <2> DEFINE l == Scanned(line)
               ms == out.carves
    <2>1. CarvedOK(l, nums, ms)
      BY LineFacts
    <2> HIDE DEF l
    <2>2. /\ ms \in Seq(Ranges) /\ InOrder(ms)
          /\ \A a \in DOMAIN ms : Carvable(l, ms[a])
          /\ \A b \in DOMAIN nums : \E a \in DOMAIN ms : ms[a] = nums[b]
      BY <2>1 DEF CarvedOK
    <2>3. DOMAIN ms = 1..Len(ms) /\ Len(ms) \in Nat
      BY <2>2, LenProperties
    <2>4. \A i \in 1..Len(ms) - 1 : ms[i].end <= ms[i + 1].start
      <3> SUFFICES ASSUME NEW i \in 1..Len(ms) - 1 PROVE ms[i].end <= ms[i + 1].start
        OBVIOUS
      <3>1. i \in 1..Len(ms) /\ i + 1 \in 1..Len(ms) /\ i < i + 1
        BY <2>3
      <3> QED BY <2>2, <2>3, <3>1 DEF InOrder
    <2>5. \A c \in ToSet(ms) : ~InsideNumber(l, c.start) /\ ~InsideNumber(l, c.end)
      BY <2>2 DEF ToSet, Carvable
    <2>6. ToSet(nums) \subseteq ToSet(ms)
      BY <2>2 DEF ToSet
    <2> QED BY <2>4, <2>5, <2>6 DEF CarvesWhole, l
  <1> QED BY <1>1, LineInvariant, PTL

\* In every state what scanLine writes is the line, byte for byte and in
\* place, and each piece is scanned in the quote it is in, unless two carved
\* values share a quote.
THEOREM QuotesKeptHolds == LineSpec => []QuotesKept
  <1>1. LineState => QuotesKept
    <2> SUFFICES ASSUME LineState, ~SharedQuote PROVE QuotesKept
      BY DEF QuotesKept
    <2> DEFINE l == Scanned(line)
               ms == out.carves
    <2>1. CarvedOK(l, nums, ms) /\ out \in Accs(ms)
          /\ (NoneShared(l, ms) => LineUpTo(l, Len(l) + 1, out))
      BY LineFacts
    <2>2. NoneShared(l, ms)
      BY DEF NoneShared, SharedQuote, ToSet
    <2> HIDE DEF l
    <2>3. /\ out.written = Positions(1, Len(l) + 1)
          /\ \A a \in DOMAIN out.pieces :
                 out.pieces[a].inQuote = QuoteAfter(l, 1, out.pieces[a].at, FALSE)
      BY <2>1, <2>2 DEF LineUpTo
    <2>4. \A p \in ToSet(out.pieces) : p.inQuote = QuoteAfter(l, 1, p.at, FALSE)
      BY <2>3 DEF ToSet
    <2> QED BY <2>3, <2>4 DEF QuotesKept, l
  <1> QED BY <1>1, LineInvariant, PTL
------------------------------------------------------------------------------
(* The cards of a line are exactly the ranges that are card numbers.       *)

\* The positions of the i-th to the j-th digit.
Slice(d, i, j) == {d[k] : k \in i..j}

LEMMA SliceCount ==
    ASSUME NEW d \in Seq(Nat), \A a, b \in 1..Len(d) : a < b => d[a] < d[b],
           NEW i \in 1..Len(d), NEW j \in i..Len(d)
    PROVE  IsFiniteSet(Slice(d, i, j)) /\ Cardinality(Slice(d, i, j)) = j - i + 1
  <1> DEFINE I == i..j
             S == Slice(d, i, j)
             f == [k \in I |-> d[k]]
  <1>0. Len(d) \in Nat
    BY LenProperties
  <1>1. IsFiniteSet(I) /\ Cardinality(I) = j - i + 1
    <2>1. i \in Int /\ j \in Int /\ ~(i > j)
      BY <1>0
    <2> QED BY <2>1, FS_Interval
  <1>2. I \subseteq 1..Len(d) /\ \A k \in I : k \in Nat /\ d[k] \in Nat
    <2>1. I \subseteq 1..Len(d) /\ \A k \in I : k \in Nat
      BY <1>0
    <2> HIDE DEF I
    <2> QED BY <2>1, ElementOfSeq
  <1>3. S = {d[k] : k \in I}
    BY DEF Slice
  <1> HIDE DEF I, S
  <1>4. \A a, b \in I : d[a] = d[b] => a = b
    <2> SUFFICES ASSUME NEW a \in I, NEW b \in I, d[a] = d[b], a # b PROVE FALSE
      OBVIOUS
    <2>1. a < b \/ b < a
      BY <1>2
    <2>2. ~(d[a] < d[b]) /\ ~(d[b] < d[a])
      BY <1>2
    <2> QED BY <1>2, <2>1, <2>2
  <1>5. f \in Bijection(I, S)
    <2>1. f \in [I -> S]
      BY <1>3
    <2>2. \A a, b \in I : f[a] = f[b] => a = b
      BY <1>4
    <2>3. \A y \in S : \E x \in I : f[x] = y
      BY <1>3
    <2> HIDE DEF f
    <2> QED BY <2>1, <2>2, <2>3 DEF Bijection, Injection, Surjection, IsInjective
  <1>6. ExistsBijection(I, S)
    BY <1>5 DEF ExistsBijection
  <1>7. IsFiniteSet(S) /\ Cardinality(S) = Cardinality(I)
    BY <1>1, <1>6, FS_Bijection
  <1> QED BY <1>1, <1>7 DEF S

\* In the order of the digits, the k-th of a slice is the k-th from its start.
LEMMA SliceNth ==
    ASSUME NEW d \in Seq(Nat), \A a, b \in 1..Len(d) : a < b => d[a] < d[b],
           NEW i \in 1..Len(d), NEW j \in i..Len(d), NEW k \in 1..j - i + 1
    PROVE  Nth(Slice(d, i, j), k) = d[i + k - 1]
  <1> DEFINE S == Slice(d, i, j)
             UpTo(p) == Cardinality({q \in S : q <= p})
  <1>0. Len(d) \in Nat
    BY LenProperties
  <1>1. \A m \in i..j : m \in 1..Len(d) /\ d[m] \in Nat /\ m \in Nat
    <2>1. \A m \in i..j : m \in 1..Len(d) /\ m \in Nat
      BY <1>0
    <2> QED BY <2>1, ElementOfSeq
  <1>2. ASSUME NEW m \in i..j PROVE UpTo(d[m]) = m - i + 1
    <2>1. {q \in S : q <= d[m]} = Slice(d, i, m)
      <3>1. ASSUME NEW n \in i..j PROVE d[n] <= d[m] <=> n \in i..m
        <4>1. /\ n \in 1..Len(d) /\ m \in 1..Len(d) /\ d[n] \in Nat /\ d[m] \in Nat
              /\ n \in Nat /\ m \in Nat
          BY <1>1
        <4>2. CASE n < m
          <5>1. d[n] < d[m] /\ n \in i..m
            BY <4>1, <4>2
          <5> QED BY <4>1, <5>1
        <4>3. CASE n = m
          BY <4>1, <4>3
        <4>4. CASE m < n
          <5>1. d[m] < d[n] /\ n \notin i..m
            BY <4>1, <4>4
          <5> QED BY <4>1, <5>1
        <4> QED BY <4>1, <4>2, <4>3, <4>4
      <3>2. i..m \subseteq i..j
        BY <1>0
      <3> QED BY <3>1, <3>2 DEF Slice
    <2>2. m \in i..Len(d)
      BY <1>0
    <2> QED BY <2>1, <2>2, SliceCount
  <1> DEFINE m0 == i + k - 1
  <1>3. m0 \in i..j /\ m0 - i + 1 = k
    BY <1>0
  <1>4. d[m0] \in S /\ UpTo(d[m0]) = k
    <2>1. d[m0] \in S
      BY <1>3 DEF Slice
    <2> HIDE DEF S, m0
    <2> QED BY <1>2, <1>3, <2>1
  <1>5. ASSUME NEW p \in S, UpTo(p) = k PROVE p = d[m0]
    <2>1. PICK m \in i..j : p = d[m]
      BY DEF Slice
    <2>2. m - i + 1 = k
      BY <1>2, <1>5, <2>1
    <2>3. m = m0
      BY <1>0, <2>2
    <2> QED BY <2>1, <2>3
  <1>6. Nth(S, k) = CHOOSE p \in S : UpTo(p) = k
    BY DEF Nth
  <1> HIDE DEF S, UpTo, m0
  <1>7. (CHOOSE p \in S : UpTo(p) = k) = d[m0]
    BY <1>4, <1>5
  <1> QED BY <1>6, <1>7 DEF S, m0

\* The digits between two digits.
LEMMA SliceIs ==
    ASSUME NEW l \in Seq(STRING), NEW d, DigitsOK(l, Len(l), d),
           NEW i \in 1..Len(d), NEW j \in i..Len(d)
    PROVE  {p \in d[i]..(d[j] + 1) - 1 : IsDigit(l, p)} = Slice(d, i, j)
  <1>1. /\ d \in Seq(Nat) /\ Len(d) \in Nat
        /\ \A a \in 1..Len(d) : d[a] \in 1..Len(l) /\ l[d[a]] \in Digits
        /\ \A a, b \in 1..Len(d) : a < b => d[a] < d[b]
        /\ \A p \in 1..Len(l) : l[p] \in Digits => \E a \in 1..Len(d) : d[a] = p
    BY LenProperties DEF DigitsOK
  <1>2. Len(l) \in Nat /\ \A p : IsDigit(l, p) <=> p \in 1..Len(l) /\ l[p] \in Digits
    BY LineIs
  <1>3. i \in 1..Len(d) /\ j \in 1..Len(d) /\ Len(d) \in Nat
    BY <1>1
  <1>4. ASSUME NEW k \in 1..Len(d)
        PROVE  d[k] \in d[i]..(d[j] + 1) - 1 <=> k \in i..j
    <2>1. d[k] \in Nat /\ d[i] \in Nat /\ d[j] \in Nat
      BY <1>1, <1>2, <1>3
    <2>2. /\ k < i => d[k] < d[i]
          /\ i < k => d[i] < d[k]
          /\ j < k => d[j] < d[k]
          /\ k < j => d[k] < d[j]
      BY <1>1, <1>3
    <2>3. k \in Nat /\ i \in Nat /\ j \in Nat
      BY <1>3
    <2> QED BY <2>1, <2>2, <2>3
  <1>5. ASSUME NEW p \in d[i]..(d[j] + 1) - 1, IsDigit(l, p) PROVE p \in Slice(d, i, j)
    <2>1. PICK a \in 1..Len(d) : d[a] = p
      BY <1>1, <1>2, <1>5
    <2> QED BY <1>4, <2>1 DEF Slice
  <1>6. ASSUME NEW p \in Slice(d, i, j) PROVE p \in d[i]..(d[j] + 1) - 1 /\ IsDigit(l, p)
    <2>1. PICK k \in i..j : p = d[k]
      BY DEF Slice
    <2>2. k \in 1..Len(d)
      BY <1>3
    <2> QED BY <1>1, <1>2, <1>4, <2>1, <2>2
  <1> QED BY <1>5, <1>6

\* Neighbours in a slice are neighbours among the digits.
LEMMA SliceConnected ==
    ASSUME NEW l, NEW d \in Seq(Nat), \A a, b \in 1..Len(d) : a < b => d[a] < d[b],
           NEW i \in 1..Len(d), NEW j \in i..Len(d)
    PROVE  LET D == Slice(d, i, j)
           IN  (\A p, q \in D : p < q /\ (p + 1..q - 1) \cap D = {} => DigitsConnected(l, p, q)) <=>
               (\A k \in i + 1..j : DigitsConnected(l, d[k - 1], d[k]))
  <1> DEFINE D == Slice(d, i, j)
  <1>0. Len(d) \in Nat
    BY LenProperties
  <1>1. \A m \in i..j : m \in 1..Len(d) /\ d[m] \in Nat /\ m \in Nat
    <2>1. \A m \in i..j : m \in 1..Len(d) /\ m \in Nat
      BY <1>0
    <2> QED BY <2>1, ElementOfSeq
  <1>2. \A m, n \in i..j : d[m] < d[n] <=> m < n
    <2> SUFFICES ASSUME NEW m \in i..j, NEW n \in i..j PROVE d[m] < d[n] <=> m < n
      OBVIOUS
    <2>1. m \in 1..Len(d) /\ n \in 1..Len(d) /\ d[m] \in Nat /\ d[n] \in Nat /\ m \in Nat /\ n \in Nat
      BY <1>1
    <2>2. m < n => d[m] < d[n]
      BY <2>1
    <2>3. n < m => d[n] < d[m]
      BY <2>1
    <2>4. m = n => d[m] = d[n]
      OBVIOUS
    <2> QED BY <2>1, <2>2, <2>3, <2>4
  <1>3. /\ \A m \in i..j : d[m] \in D
        /\ \A p \in D : \E m \in i..j : p = d[m]
    BY DEF Slice
  <1> HIDE DEF D
  <1>4. ASSUME \A p, q \in D : p < q /\ (p + 1..q - 1) \cap D = {} => DigitsConnected(l, p, q),
               NEW k \in i + 1..j
        PROVE  DigitsConnected(l, d[k - 1], d[k])
    <2>1. k - 1 \in i..j /\ k \in i..j /\ k - 1 < k
      BY <1>0
    <2>2. d[k - 1] \in D /\ d[k] \in D /\ d[k - 1] < d[k] /\ d[k - 1] \in Nat /\ d[k] \in Nat
      BY <1>1, <1>2, <1>3, <2>1
    <2>3. ASSUME NEW x \in D, x \in d[k - 1] + 1..d[k] - 1 PROVE FALSE
      <3>1. PICK m \in i..j : x = d[m]
        BY <1>3
      <3>2. d[k - 1] < d[m] /\ d[m] < d[k]
        <4>1. d[k - 1] \in Nat /\ d[k] \in Nat /\ x \in d[k - 1] + 1..d[k] - 1
          BY <2>2, <2>3
        <4>2. \A u, v \in Nat : \A y \in u + 1..v - 1 : u < y /\ y < v
          OBVIOUS
        <4>3. d[k - 1] < x /\ x < d[k]
          BY <4>1, <4>2, Zenon
        <4> QED BY <3>1, <4>3
      <3>3. k - 1 < m /\ m < k
        BY <1>2, <2>1, <3>2
      <3>4. k \in Nat /\ m \in Nat
        BY <1>1, <2>1
      <3> QED BY <3>3, <3>4
    <2>4. (d[k - 1] + 1..d[k] - 1) \cap D = {}
      BY <2>3
    <2> QED BY <1>4, <2>2, <2>4
  <1>5. ASSUME \A k \in i + 1..j : DigitsConnected(l, d[k - 1], d[k]),
               NEW p \in D, NEW q \in D, p < q, (p + 1..q - 1) \cap D = {}
        PROVE  DigitsConnected(l, p, q)
    <2>1. PICK a \in i..j : p = d[a]
      BY <1>3
    <2>2. PICK b \in i..j : q = d[b]
      BY <1>3
    <2>3. a < b /\ a \in Nat /\ b \in Nat /\ i \in Nat /\ j \in Nat
      BY <1>0, <1>1, <1>2, <1>5, <2>1, <2>2
    <2>4. a + 1 \in i..j
      BY <2>3
    <2>5. b = a + 1
      <3> SUFFICES ASSUME a + 1 < b PROVE FALSE
        BY <2>3
      <3>1. d[a] < d[a + 1] /\ d[a + 1] < d[b] /\ d[a + 1] \in D
        <4>1. a < a + 1
          BY <2>3
        <4> QED BY <1>2, <1>3, <2>4, <4>1
      <3>2. d[a] \in Nat /\ d[a + 1] \in Nat /\ d[b] \in Nat
        BY <1>1, <2>4
      <3>3. d[a + 1] \in p + 1..q - 1
        <4>1. \A u, v, y \in Nat : u < y /\ y < v => y \in u + 1..v - 1
          OBVIOUS
        <4>2. d[a + 1] \in d[a] + 1..d[b] - 1
          BY <3>1, <3>2, <4>1, Zenon
        <4> QED BY <2>1, <2>2, <4>2
      <3> QED BY <1>5, <3>1, <3>3
    <2>6. b \in i + 1..j /\ b - 1 = a
      BY <2>3, <2>5
    <2>7. DigitsConnected(l, d[b - 1], d[b])
      BY <1>5, <2>6
    <2> QED BY <2>1, <2>2, <2>6, <2>7
  <1>6. (\A p, q \in D : p < q /\ (p + 1..q - 1) \cap D = {} => DigitsConnected(l, p, q)) <=>
            (\A k \in i + 1..j : DigitsConnected(l, d[k - 1], d[k]))
    BY <1>4, <1>5
  <1> QED BY <1>6 DEF D

\* A window is a card by the definition of one, and the other way round.
LEMMA WindowIsCard ==
    ASSUME NEW l \in Seq(STRING), NEW d, DigitsOK(l, Len(l), d),
           NEW i \in 1..Len(d), NEW j \in i..Len(d)
    PROVE  IsCardRange(l, d[i], d[j] + 1) <=> IsWindow(l, d, i, j - i + 1)
  <1> DEFINE D == {p \in d[i]..(d[j] + 1) - 1 : IsDigit(l, p)}
             L == j - i + 1
             g == [k \in 1..Cardinality(D) |-> Value[l[Nth(D, k)]]]
             h == [k \in 1..L |-> Value[l[d[i + k - 1]]]]
  <1>1. /\ d \in Seq(Nat) /\ Len(d) \in Nat
        /\ \A a \in 1..Len(d) : d[a] \in Nat
        /\ \A a, b \in 1..Len(d) : a < b => d[a] < d[b]
    BY LenProperties DEF DigitsOK
  <1>a. i \in 1..Len(d) /\ j \in i..Len(d) /\ Len(d) \in Nat /\ L \in Nat \ {0} /\ i + L - 1 = j
        /\ i + L - 1 <= Len(d)
    BY <1>1
  <1>2. D = Slice(d, i, j)
    BY SliceIs
  <1>3. Cardinality(D) = L
    BY <1>1, <1>2, SliceCount
  <1>4. d[i] \in D /\ (d[j] + 1) - 1 \in D
    <2>1. i \in i..j /\ j \in i..j
      BY <1>a
    <2>2. d[i] \in Slice(d, i, j) /\ d[j] \in Slice(d, i, j)
      BY <2>1 DEF Slice
    <2>3. (d[j] + 1) - 1 = d[j]
      BY <1>1, <1>a
    <2> HIDE DEF D
    <2> QED BY <1>2, <2>2, <2>3
  <1>5. g = h
    <2>1. \A k \in 1..L : Nth(D, k) = d[i + k - 1]
      BY <1>1, <1>2, SliceNth
    <2> HIDE DEF D, L
    <2> QED BY <1>3, <2>1
  <1>6. (\A p, q \in D : p < q /\ (p + 1..q - 1) \cap D = {} => DigitsConnected(l, p, q)) <=>
            (\A k \in i + 1..j : DigitsConnected(l, d[k - 1], d[k]))
    BY <1>1, <1>2, SliceConnected
  <1>7. IsCardRange(l, d[i], d[j] + 1) <=>
            /\ d[i] \in D /\ (d[j] + 1) - 1 \in D
            /\ Cardinality(D) \in MinCard..MaxCard
            /\ \A p, q \in D : p < q /\ (p + 1..q - 1) \cap D = {} => DigitsConnected(l, p, q)
            /\ IsValidBoundary(l, d[i], d[j] + 1)
            /\ IsCard(g)
    BY Zenon DEF IsCardRange
  <1>8. Window(d, i, L).start = d[i] /\ Window(d, i, L).end = d[j] + 1
    BY <1>1, <1>a, WindowRange
  <1>9. Fits(l, d, i, L) <=> IsValidBoundary(l, d[i], d[j] + 1) /\ IsCard(h)
    <2> HIDE DEF L
    <2> QED BY <1>8, Zenon DEF Fits
  <1>10. IsWindow(l, d, i, L) <=>
             /\ L \in MinCard..MaxCard
             /\ \A k \in i + 1..j : DigitsConnected(l, d[k - 1], d[k])
             /\ Fits(l, d, i, L)
    <2> HIDE DEF L
    <2> QED BY <1>a DEF IsWindow
  <1> HIDE DEF D, L, g, h
  <1>11. IsCardRange(l, d[i], d[j] + 1) <=> IsWindow(l, d, i, L)
    BY <1>3, <1>4, <1>5, <1>6, <1>7, <1>9, <1>10
  <1> QED BY <1>11 DEF L

\* FindLuhnSequences returns the bytes of exactly the ranges that are card
\* numbers by definition, apart and in order, for lines of every length.
THEOREM CardsExactHolds == LineSpec => []CardsExact
  <1>1. LineState => CardsExact
    <2> SUFFICES ASSUME LineState, ~elevated PROVE CardsExact
      BY DEF CardsExact
    <2> DEFINE l == Scanned(line)
               d == DigitIndices(l)
               exact == {r \in (1..Len(l)) \X (1..Len(l) + 1) : IsCardRange(l, r[1], r[2])}
    <2>1. l \in Seq(STRING)
      BY ScannedIs DEF LineState
    <2>2. cards = FindLuhnSequences(l)
      BY DEF LineState, CardRanges
    <2> HIDE DEF l
    <2>3. CardsOK(l, cards)
      BY <2>1, <2>2, CardsCarvable
    <2>4. /\ cards \in Seq(Ranges) /\ Apart(cards) /\ \A a \in DOMAIN cards : Carvable(l, cards[a])
          /\ \A p \in Nat : (\E a \in DOMAIN cards : In(p, cards[a])) <=>
                 \E i, L : IsWindow(l, d, i, L) /\ In(p, Window(d, i, L))
      BY <2>3 DEF CardsOK
    <2>5. DOMAIN cards = 1..Len(cards) /\ Len(cards) \in Nat /\ Len(l) \in Nat
      BY <2>1, <2>4, LenProperties, LineIs
    <2>6. \A i \in 1..Len(cards) - 1 : cards[i].end < cards[i + 1].start
      <3> SUFFICES ASSUME NEW i \in 1..Len(cards) - 1 PROVE cards[i].end < cards[i + 1].start
        OBVIOUS
      <3>1. i \in 1..Len(cards) /\ i + 1 \in 1..Len(cards) /\ i < i + 1
        BY <2>5
      <3> QED BY <2>4, <2>5, <3>1 DEF Apart
    <2>7. DigitsOK(l, Len(l), d)
      BY <2>1, DigitsAre
    <2> HIDE DEF d
    <2>8. /\ d \in Seq(Nat) /\ Len(d) \in Nat
          /\ \A a \in 1..Len(d) : d[a] \in 1..Len(l)
          /\ \A a, b \in 1..Len(d) : a < b => d[a] < d[b]
          /\ \A p \in 1..Len(l) : l[p] \in Digits => \E a \in 1..Len(d) : d[a] = p
      BY <2>7, LenProperties DEF DigitsOK
    <2>9. ASSUME NEW i, NEW L, IsWindow(l, d, i, L)
          PROVE  \E r \in exact : \A p \in Nat : In(p, Window(d, i, L)) => p \in r[1]..r[2] - 1
      <3> DEFINE j == i + L - 1
      <3>1. i \in 1..Len(d) /\ L \in MinCard..MaxCard /\ j <= Len(d)
        BY <2>9 DEF IsWindow
      <3>2. MinCard \in Nat \ {0} /\ MaxCard \in Nat
        BY Lengths
      <3>3. L \in Nat \ {0} /\ j \in i..Len(d) /\ j - i + 1 = L /\ j \in 1..Len(d)
        BY <2>8, <3>1, <3>2
      <3>4. Window(d, i, L).start = d[i] /\ Window(d, i, L).end = d[j] + 1
        BY <2>8, <3>1, <3>3, WindowRange
      <3> HIDE DEF j
      <3>5. IsCardRange(l, d[i], d[j] + 1)
        BY <2>1, <2>7, <2>9, <3>1, <3>3, WindowIsCard
      <3>6. d[i] \in 1..Len(l) /\ d[j] \in 1..Len(l)
        BY <2>8, <3>1, <3>3
      <3>7. d[j] + 1 \in 1..Len(l) + 1
        BY <2>5, <3>6
      <3>8. <<d[i], d[j] + 1>> \in exact
        BY <3>5, <3>6, <3>7
      <3>9. \A p \in Nat : In(p, Window(d, i, L)) => p \in d[i]..(d[j] + 1) - 1
        <4>1. d[i] \in Nat /\ d[j] \in Nat
          BY <2>5, <3>6
        <4> QED BY <3>4, <4>1 DEF In
      <3> HIDE DEF exact
      <3> QED BY <3>8, <3>9
    <2>10. ASSUME NEW r \in exact
           PROVE  \E i, L : IsWindow(l, d, i, L) /\ \A p \in r[1]..r[2] - 1 : In(p, Window(d, i, L))
      <3> DEFINE s == r[1]
                 e == r[2]
                 D == {p \in s..e - 1 : IsDigit(l, p)}
      <3>1. s \in 1..Len(l) /\ e \in 1..Len(l) + 1 /\ IsCardRange(l, s, e)
        OBVIOUS
      <3> HIDE DEF exact, s, e
      <3>2. s \in D /\ e - 1 \in D
        BY <3>1, Zenon DEF IsCardRange
      <3>3. s <= e - 1 /\ IsDigit(l, s) /\ IsDigit(l, e - 1)
        BY <2>5, <3>1, <3>2
      <3>a. \A k : IsDigit(l, k) => k \in 1..Len(l) /\ l[k] \in Digits
        BY <2>1, LineIs
      <3>4. PICK i \in 1..Len(d) : d[i] = s
        BY <2>8, <3>3, <3>a
      <3>5. PICK j \in 1..Len(d) : d[j] = e - 1
        BY <2>8, <3>3, <3>a
      <3>6. s \in Nat /\ e \in Nat /\ d[j] + 1 = e
        BY <2>5, <3>1, <3>5
      <3>7. i <= j
        <4> SUFFICES ASSUME j < i PROVE FALSE
          BY <2>8
        <4>1. d[j] < d[i]
          BY <2>8
        <4> QED BY <3>3, <3>4, <3>5, <3>6, <4>1
      <3> DEFINE L == j - i + 1
      <3>8. j \in i..Len(d) /\ L \in Nat \ {0} /\ i + L - 1 = j /\ i + L - 1 <= Len(d)
        BY <2>8, <3>7
      <3>9. IsWindow(l, d, i, L)
        BY <2>1, <2>7, <3>1, <3>4, <3>6, <3>8, WindowIsCard
      <3>10. Window(d, i, L).start = s /\ Window(d, i, L).end = e
        <4>1. Window(d, i, L).start = d[i] /\ Window(d, i, L).end = d[i + L - 1] + 1
          BY <2>8, <3>8, WindowRange
        <4> HIDE DEF L
        <4> QED BY <3>4, <3>6, <3>8, <4>1
      <3> HIDE DEF L
      <3>11. \A p \in s..e - 1 : In(p, Window(d, i, L))
        BY <3>6, <3>10 DEF In
      <3> QED BY <3>9, <3>11 DEF s, e
    <2>11. \A r \in exact : \A p \in r[1]..r[2] - 1 : p \in Nat
      BY <2>5
    <2>12. \A a \in DOMAIN cards : \A p : p \in cards[a].start..cards[a].end - 1 <=>
               p \in Nat /\ In(p, cards[a])
      <3>1. \A a \in DOMAIN cards : cards[a].start \in Nat /\ cards[a].end \in Nat
        BY <2>4 DEF Carvable, Ranges
      <3> QED BY <3>1 DEF In
    <2> HIDE DEF exact
    <2>13. \A p : p \in Bytes(cards) <=>
               \E a \in DOMAIN cards : p \in cards[a].start..cards[a].end - 1
      BY DEF Bytes, ToSet
    <2>14. \A p : p \in UNION {r[1]..r[2] - 1 : r \in exact} <=>
               \E r \in exact : p \in r[1]..r[2] - 1
      OBVIOUS
    <2>15. ASSUME NEW p PROVE p \in Bytes(cards) <=> p \in UNION {r[1]..r[2] - 1 : r \in exact}
      <3>1. ASSUME p \in Bytes(cards) PROVE p \in UNION {r[1]..r[2] - 1 : r \in exact}
        <4>1. p \in Nat /\ \E a \in DOMAIN cards : In(p, cards[a])
          BY <2>12, <2>13, <3>1
        <4>2. PICK i, L : IsWindow(l, d, i, L) /\ In(p, Window(d, i, L))
          BY <2>4, <4>1
        <4>3. \E r \in exact : p \in r[1]..r[2] - 1
          BY <2>9, <4>1, <4>2
        <4> QED BY <2>14, <4>3
      <3>2. ASSUME p \in UNION {r[1]..r[2] - 1 : r \in exact} PROVE p \in Bytes(cards)
        <4>1. PICK r \in exact : p \in r[1]..r[2] - 1
          BY <2>14, <3>2
        <4>2. p \in Nat /\ \E i, L : IsWindow(l, d, i, L) /\ In(p, Window(d, i, L))
          BY <2>10, <2>11, <4>1
        <4>3. \E a \in DOMAIN cards : In(p, cards[a])
          BY <2>4, <4>2
        <4> QED BY <2>12, <2>13, <4>2, <4>3
      <3> QED BY <3>1, <3>2
    <2>16. Bytes(cards) = UNION {r[1]..r[2] - 1 : r \in exact}
      BY <2>15
    <2> QED BY <2>6, <2>16, Zenon DEF CardsExact, l, exact
  <1> QED BY <1>1, LineInvariant, PTL
=============================================================================
