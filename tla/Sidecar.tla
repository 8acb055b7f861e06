------------------------------- MODULE Sidecar -------------------------------
(***************************************************************************)
(* The log sidecar's process (cmd/cleaner): the goroutine that reads,      *)
(* sanitizes and writes lines, the buffered output with its flush timer,   *)
(* the reloader of the policy file, and the shutdown, which the end of the *)
(* input and a signal may start at the same time.                          *)
(*                                                                         *)
(* Text is counted in parts: a sanitized line has Parts of them, a stream  *)
(* marker one.  What the scanner makes of a part is left out, except for   *)
(* the config it did it under.                                             *)
(***************************************************************************)
EXTENDS Naturals, Sequences

CONSTANTS Modes,      \* of "open", "closed" and "audit": PII_FAIL_POLICY and
                      \* PII_MODE, which overrides it
          Policies,   \* of "none", "once" and "watch": PII_CONFIG_FILE unset,
                      \* read at start only, or watched
          Parts,      \* parts of a line
          BufferCap,  \* outputBufferSize, in parts
          MaxLines,   \* bound: lines of input
          MaxFiles    \* bound: states of the policy file over time

ASSUME SidecarAssumption ==
    /\ Modes \subseteq {"open", "closed", "audit"}
    /\ Policies \subseteq {"none", "once", "watch"}
    /\ Parts \in Nat \ {0}
    /\ BufferCap \in Nat \ {0}
    /\ MaxLines \in Nat
    /\ MaxFiles \in Nat \ {0}

VARIABLES env,       \* the PII_* variables and arguments of the process
          at,        \* where the main goroutine is
          lines,     \* lines read so far
          snap,      \* config snapshot the line in hand is scanned under
          work,      \* the line in hand, as far as it is sanitized
          produced,  \* everything handed to the output so far, in order
          buf,       \* the output buffer
          stdout,    \* what reached standard output
          closed,    \* the output is in write-through
          stops,     \* how often the timer's stop channel was closed
          timer,     \* the flush timer's goroutine
          fin,       \* fin[g]: where goroutine g is in finalize
          sig,       \* the signal channel
          exited,    \* how the process ended
          file,      \* the policy file: a stamp (size and modification time)
          seen,      \* the stamp the reloader examined last, 0: none
          loader,    \* where the reloader is
          got,       \* the file it has parsed and not yet published
          active,    \* the file of the published config, 0: the environment
          unread     \* stamps whose content the reloader failed to read

scanVars == <<lines, snap, work>>
ioVars == <<produced, buf, stdout>>
closeVars == <<closed, stops, timer>>
policyVars == <<file, seen, loader, got, active, unread>>
vars == <<env, at, scanVars, ioVars, closeVars, fin, sig, exited, policyVars>>

Envs == [source : {"stdin", "fifo", "tail"}, buffered : BOOLEAN,
         mode : Modes, policy : Policies]
Goroutines == {"main", "signal"}
Running == exited = "no"

Chunk(text, cfg) == [line |-> lines, text |-> text, cfg |-> cfg]
Original == [i \in 1..Parts |-> Chunk("raw", 0)]
Marker == <<Chunk("marker", 0)>>

------------------------------------------------------------------------------
(* outputWriter.  Write, Flush and the first half of Close hold its mutex, *)
(* so each is one step.                                                    *)

\* bufio.Writer: what does not fit fills the buffer and flushes it; with an
\* empty buffer a long write goes straight through.
Buffered(p) ==
    LET room == BufferCap - Len(buf)
        rest == SubSeq(p, room + 1, Len(p))
    IN  \/ /\ Len(p) <= room
           /\ buf' = buf \o p /\ stdout' = stdout
        \/ /\ Len(p) > room /\ buf = << >>
           /\ stdout' = stdout \o p /\ buf' = buf
        \/ /\ Len(p) > room /\ buf # << >>
           /\ IF Len(rest) > BufferCap
              THEN stdout' = stdout \o buf \o p /\ buf' = << >>
              ELSE stdout' = stdout \o buf \o SubSeq(p, 1, room) /\ buf' = rest

Write(p) ==
    /\ produced' = produced \o p
    /\ \/ /\ env.buffered /\ ~closed
          /\ Buffered(p)
       \/ /\ ~env.buffered \/ closed
          /\ stdout' = stdout \o p /\ buf' = buf

Flush == stdout' = stdout \o buf /\ buf' = << >> /\ produced' = produced

\* Mutant: the buffer is flushed and the writer stays buffered.
StaysBuffered == Flush /\ closed' = closed

\* Mutant: write-through begins before the buffer is written out.
ClosedUnflushed == closed' = TRUE /\ UNCHANGED ioVars

\* The locked part of Close.
CloseLocked == Flush /\ closed' = TRUE

\* The first Close of a buffered writer stops the timer.
StopsTimer == env.buffered /\ ~closed

\* Mutant: the stop channel is left open.
StopForgotten == stops' = stops

CloseStop == stops' = stops + 1

\* Close: flush and write-through; the first call closes the stop channel and
\* waits for the timer's goroutine, any other call is done.
Close(g) ==
    /\ Running /\ fin[g] = "close"
    /\ CloseLocked
    /\ \/ /\ StopsTimer
          /\ CloseStop
          /\ fin' = [fin EXCEPT ![g] = "wait"]
       \/ /\ ~StopsTimer
          /\ fin' = [fin EXCEPT ![g] = "drain"]
          /\ UNCHANGED stops
    /\ UNCHANGED <<env, at, scanVars, timer, sig, exited, policyVars>>

CloseWait(g) ==
    /\ Running /\ fin[g] = "wait" /\ timer = "off"
    /\ fin' = [fin EXCEPT ![g] = "drain"]
    /\ UNCHANGED <<env, at, scanVars, ioVars, closeVars, sig, exited, policyVars>>

\* The last summary, the metrics server's grace period, the exit.
Exit(g) ==
    /\ Running /\ fin[g] = "drain"
    /\ exited' = "done"
    /\ UNCHANGED <<env, at, scanVars, ioVars, closeVars, fin, sig, policyVars>>

\* Mutant: the timer looks at the buffer and does not write it out.
TickIdle == UNCHANGED ioVars

TickFlush == Flush

\* run: the ticker fires; the goroutine then waits for the mutex in Flush.
Tick ==
    /\ Running /\ timer = "idle"
    /\ timer' = "flush"
    /\ UNCHANGED <<env, at, scanVars, ioVars, closed, stops, fin, sig, exited, policyVars>>

TimerFlushes ==
    /\ Running /\ timer = "flush"
    /\ TickFlush
    /\ timer' = "idle"
    /\ UNCHANGED <<env, at, scanVars, closed, stops, fin, sig, exited, policyVars>>

TimerStops ==
    /\ Running /\ timer = "idle" /\ stops > 0
    /\ timer' = "off"
    /\ UNCHANGED <<env, at, scanVars, ioVars, closed, stops, fin, sig, exited, policyVars>>

------------------------------------------------------------------------------
(* The main goroutine.                                                     *)

Finalize(g) == fin' = [fin EXCEPT ![g] = "close"]

\* Where main goes once the policy file was looked at.
FirstInput == IF env.source = "stdin" THEN "read" ELSE "wait"

\* The watched file appears while main polls for it.
FileCreated ==
    /\ Running /\ at = "wait"
    /\ at' = "open"
    /\ UNCHANGED <<env, scanVars, ioVars, closeVars, fin, sig, exited, policyVars>>

WaitInterrupted ==
    /\ Running /\ at = "wait" /\ sig = "pending"
    /\ sig' = "taken"
    /\ at' = "end" /\ Finalize("main")
    /\ UNCHANGED <<env, scanVars, ioVars, closeVars, exited, policyVars>>

\* A writer connects to the pipe, or the tail starts.
InputOpens ==
    /\ Running /\ at = "open"
    /\ at' = "read"
    /\ UNCHANGED <<env, scanVars, ioVars, closeVars, fin, sig, exited, policyVars>>

\* The pipe or the file cannot be opened: log.Fatalf ends the process.
OpenFails ==
    /\ Running /\ at = "open"
    /\ exited' = "fatal"
    /\ UNCHANGED <<env, at, scanVars, ioVars, closeVars, fin, sig, policyVars>>

\* processLine up to ScanAndRedact's load of the config snapshot.
ReadLine ==
    /\ Running /\ at = "read" /\ lines < MaxLines
    /\ lines' = lines + 1
    /\ snap' = active /\ work' = << >>
    /\ at' = "scan"
    /\ UNCHANGED <<env, ioVars, closeVars, fin, sig, exited, policyVars>>

\* Mutant: every part is scanned under the config published at that moment.
ConfigNow == active

ScanConfig == snap

ScanPart ==
    /\ Running /\ at = "scan" /\ Len(work) < Parts
    /\ work' = Append(work, Chunk("clean", ScanConfig))
    /\ UNCHANGED <<env, at, lines, snap, ioVars, closeVars, fin, sig, exited, policyVars>>

\* The scanned line goes out; in audit mode the original one.
WriteLine ==
    /\ Running /\ at = "scan" /\ Len(work) = Parts
    /\ Write(IF env.mode = "audit" THEN Original ELSE work)
    /\ at' = "read"
    /\ UNCHANGED <<env, scanVars, closeVars, fin, sig, exited, policyVars>>

\* The scanner panics: a marker when failing closed, else the original line.
ScanPanics ==
    /\ Running /\ at = "scan" /\ Len(work) < Parts
    /\ \/ env.mode = "closed" /\ Write(Marker) /\ at' = "flush"
       \/ env.mode # "closed" /\ Write(Original) /\ at' = "read"
    /\ UNCHANGED <<env, scanVars, closeVars, fin, sig, exited, policyVars>>

\* bufio.ErrTooLong: a line longer than the read buffer.  A tail has no limit.
LineTooLong ==
    /\ Running /\ at = "read" /\ lines < MaxLines /\ env.source # "tail"
    /\ lines' = lines + 1
    /\ Write(<<[line |-> lines + 1, text |-> "marker", cfg |-> 0]>>)
    /\ at' = "overflow"
    /\ UNCHANGED <<env, snap, work, closeVars, fin, sig, exited, policyVars>>

\* The second half of writeMarker.
FlushMarker ==
    /\ Running /\ at = "flush"
    /\ Flush
    /\ at' = "read"
    /\ UNCHANGED <<env, scanVars, closeVars, fin, sig, exited, policyVars>>

\* The same after an overflow: the pipe is opened again, standard input ends.
FlushOverflow ==
    /\ Running /\ at = "overflow"
    /\ Flush
    /\ \/ env.source = "fifo" /\ at' = "open" /\ UNCHANGED fin
       \/ env.source = "stdin" /\ at' = "end" /\ Finalize("main")
    /\ UNCHANGED <<env, scanVars, closeVars, sig, exited, policyVars>>

\* End of file, a read error, or the tail's channel closed.
InputEnds ==
    /\ Running /\ at = "read"
    /\ \/ env.source = "fifo" /\ at' = "open" /\ UNCHANGED fin
       \/ env.source # "fifo" /\ at' = "end" /\ Finalize("main")
    /\ UNCHANGED <<env, scanVars, ioVars, closeVars, sig, exited, policyVars>>

------------------------------------------------------------------------------
(* Signals.  The goroutine that takes one is started when there is input   *)
(* to read; before that the signal waits in the channel.                   *)

Signal ==
    /\ Running /\ at # "start" /\ sig = "none"
    /\ sig' = "pending"
    /\ UNCHANGED <<env, at, scanVars, ioVars, closeVars, fin, exited, policyVars>>

\* Standard input and a pipe shut down at once; a tail is only stopped.
HandleSignal ==
    /\ Running /\ sig = "pending"
    /\ at \notin {"start", "wait"} /\ (env.source = "tail" => at # "open")
    /\ sig' = "taken"
    /\ \/ env.source = "tail" /\ UNCHANGED fin
       \/ env.source # "tail" /\ Finalize("signal")
    /\ UNCHANGED <<env, at, scanVars, ioVars, closeVars, exited, policyVars>>

------------------------------------------------------------------------------
(* policyReloader.  main makes the first check itself, before any input.   *)

\* The file is replaced, spoilt or removed; its stamp is a new one each time.
FileChanges(kind) ==
    /\ Running /\ env.policy # "none" /\ file.stamp < MaxFiles
    /\ file' = [stamp |-> file.stamp + 1, kind |-> kind]
    /\ UNCHANGED <<env, at, scanVars, ioVars, closeVars, fin, sig, exited,
                   seen, loader, got, active, unread>>

\* A check is over: main goes on to its input, the goroutine to the next tick.
CheckDone ==
    /\ loader' = IF env.policy = "watch" THEN "idle" ELSE "off"
    /\ at' = IF at = "start" THEN FirstInput ELSE at

\* Mutant: the file is examined once more when it was loaded, and that is
\* what the next check compares with.
SeenLate(step) == IF step = "publish" THEN file.stamp ELSE seen

\* Only os.Stat sets what was seen, before the file is read.
Examined(step) == IF step = "stat" THEN file.stamp ELSE seen

\* check: os.Stat and the comparison with what was seen.
Stat ==
    /\ Running /\ loader = "idle"
    /\ \/ /\ file.kind = "missing" \/ file.stamp = seen
          /\ CheckDone /\ UNCHANGED seen
       \/ /\ file.kind # "missing" /\ file.stamp # seen
          /\ seen' = Examined("stat")
          /\ loader' = "load" /\ UNCHANGED at
    /\ UNCHANGED <<env, scanVars, ioVars, closeVars, fin, sig, exited, file, got, active, unread>>

\* LoadPolicyFile: the file as it is now, which may not be the one examined.
Load ==
    /\ Running /\ loader = "load"
    /\ \/ /\ file.kind = "ok"
          /\ got' = file.stamp /\ loader' = "publish"
          /\ UNCHANGED <<at, unread>>
       \/ /\ file.kind # "ok"
          /\ CheckDone /\ UNCHANGED <<got, unread>>
       \/ /\ unread' = unread \cup {file.stamp}
          /\ CheckDone /\ UNCHANGED got
    /\ UNCHANGED <<env, scanVars, ioVars, closeVars, fin, sig, exited, file, seen, active>>

\* UpdateConfig publishes the whole snapshot with one atomic store.
Publish ==
    /\ Running /\ loader = "publish"
    /\ active' = got
    /\ seen' = Examined("publish")
    /\ CheckDone
    /\ UNCHANGED <<env, scanVars, ioVars, closeVars, fin, sig, exited, file, got, unread>>

------------------------------------------------------------------------------
Init ==
    /\ env \in Envs
    /\ at = IF env.policy = "none" THEN FirstInput ELSE "start"
    /\ lines = 0 /\ snap = 0 /\ work = << >>
    /\ produced = << >> /\ buf = << >> /\ stdout = << >>
    /\ closed = FALSE /\ stops = 0
    /\ timer = IF env.buffered THEN "idle" ELSE "off"
    /\ fin = [g \in Goroutines |-> "no"]
    /\ sig = "none" /\ exited = "no"
    /\ file \in [stamp : {1}, kind : {"missing", "ok"}]
    /\ loader = IF env.policy = "none" THEN "off" ELSE "idle"
    /\ seen = 0 /\ got = 0 /\ active = 0 /\ unread = {}

Main ==
    \/ FileCreated \/ WaitInterrupted \/ InputOpens \/ OpenFails
    \/ ReadLine \/ ScanPart \/ WriteLine \/ ScanPanics
    \/ LineTooLong \/ FlushMarker \/ FlushOverflow \/ InputEnds
Shutdown(g) == Close(g) \/ CloseWait(g) \/ Exit(g)
Timer == Tick \/ TimerFlushes \/ TimerStops
Reloader == Stat \/ Load \/ Publish

Next ==
    \/ Main
    \/ \E g \in Goroutines : Shutdown(g)
    \/ Timer
    \/ Signal \/ HandleSignal
    \/ \E kind \in {"missing", "bad", "ok"} : FileChanges(kind)
    \/ Reloader

Spec == Init /\ [][Next]_vars

\* The Go scheduler runs every goroutine that can run.  Nothing obliges the
\* input to bring lines or to end, or a writer to open the pipe; TailFile
\* does not block, and a stopped tail closes its channel.
TailSteps ==
    /\ env.source = "tail"
    /\ InputOpens \/ OpenFails \/ (sig = "taken" /\ InputEnds)
Working ==
    WaitInterrupted \/ ScanPart \/ WriteLine \/ FlushMarker \/ FlushOverflow \/ TailSteps
FairSpec ==
    /\ Spec
    /\ WF_vars(Working)
    /\ WF_vars(\E g \in Goroutines : Shutdown(g))
    /\ WF_vars(Tick \/ TimerFlushes) /\ SF_vars(TimerStops)
    /\ WF_vars(HandleSignal)
    /\ WF_vars(Reloader)

------------------------------------------------------------------------------
(* Properties.                                                             *)

Chunks == [line : 0..MaxLines, text : {"clean", "raw", "marker"}, cfg : 0..MaxFiles]

\* Every variable has its type, and the buffer never outgrows its capacity.
TypeOK ==
    /\ env \in Envs
    /\ at \in {"start", "wait", "open", "read", "scan", "flush", "overflow", "end"}
    /\ lines \in 0..MaxLines /\ snap \in 0..MaxFiles
    /\ work \in Seq(Chunks) /\ Len(work) <= Parts
    /\ produced \in Seq(Chunks) /\ stdout \in Seq(Chunks)
    /\ buf \in Seq(Chunks) /\ Len(buf) <= BufferCap
    /\ closed \in BOOLEAN /\ stops \in Nat
    /\ timer \in {"idle", "flush", "off"}
    /\ fin \in [Goroutines -> {"no", "close", "wait", "drain"}]
    /\ sig \in {"none", "pending", "taken"}
    /\ exited \in {"no", "done", "fatal"}
    /\ file \in [stamp : 1..MaxFiles, kind : {"missing", "bad", "ok"}]
    /\ seen \in 0..MaxFiles /\ got \in 0..MaxFiles /\ active \in 0..MaxFiles
    /\ loader \in {"off", "idle", "load", "publish"}
    /\ unread \subseteq 1..MaxFiles

\* outputWriter: whatever the reader, the timer and two shutdowns do between
\* each other, the output followed by the buffer is what was written, in
\* order, nothing lost and nothing twice.
OutputKept == TypeOK /\ stdout \o buf = produced

\* finalize: a process that ends by itself or by a signal leaves nothing in
\* the buffer, also the line sanitized after Close, and the two shutdowns
\* never close the stop channel twice, which would panic (outputWriter.Close).
FlushedOnExit == (exited = "done" => buf = << >>) /\ stops <= 1

\* configState: a line is scanned under one config from end to end, however
\* many reloads happen meanwhile.
OneConfigPerLine ==
    \A i, j \in DOMAIN produced :
        /\ produced[i].text = "clean" /\ produced[j].text = "clean"
        /\ produced[i].line = produced[j].line
        => produced[i].cfg = produced[j].cfg

\* What is written reaches standard output in the end, without another line
\* to push it, unless the process dies of a pipe it cannot open.
LinesAppear == []<>(stdout = produced \/ exited = "fatal")

\* A signal ends the process, whichever goroutine takes it and whatever the
\* timer is doing.
SignalEnds == sig = "pending" ~> ~Running

\* A watched policy file that parses and then stays as it is gets applied,
\* also when it changed between the look at it and the read of it.  A file
\* that could not be read is looked at again only once it changes.
EventuallyApplied ==
    []<>(\/ env.policy # "watch" \/ ~Running
         \/ file.kind # "ok" \/ file.stamp \in unread
         \/ active = file.stamp)
==============================================================================
