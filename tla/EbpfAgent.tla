------------------------------- MODULE EbpfAgent -------------------------------
(***************************************************************************)
(* The eBPF audit agent: the program on sys_enter copies what the watched  *)
(* processes write into the kernel's ring buffer, a goroutine reads the    *)
(* records into a channel, and the main loop joins them into lines which   *)
(* it counts.  A timer has unfinished lines counted once they stay idle; a *)
(* signal, or the end of the command under --exec, starts the shutdown.    *)
(*                                                                         *)
(* A byte is named by its place in what its stream said; only whether it   *)
(* is a newline matters.  The scanner and the wording of the summary are   *)
(* left out: a line is counted when OnLine gets it.                        *)
(***************************************************************************)
EXTENDS Naturals, Sequences, SequencesExt, FiniteSets

CONSTANTS
    Keys,       \* the streams: a process and one of its descriptors
    Threads,    \* the threads that write
    KeyOf,      \* the stream each thread writes to
    Calls,      \* the write and writev calls: sequences of buffers of newline flags
    MaxCalls,   \* bound: calls in one behaviour
    RingSize,   \* records the ring buffer holds (max_entries)
    ChanSize,   \* capacity of the channel of events
    MaxData,    \* MAX_DATA: bytes copied of one buffer
    MaxIov,     \* MAX_IOV: buffers copied of one writev
    MaxLine     \* Assembler.MaxLine

ASSUME SizesAssumption ==
    /\ {RingSize, ChanSize, MaxData, MaxIov, MaxLine} \subseteq Nat \ {0}
    /\ IsFiniteSet(Keys) /\ KeyOf \in [Threads -> Keys]
    /\ Calls \subseteq Seq(Seq(BOOLEAN)) \ {<<>>}

VARIABLES
    mode,       \* "pod", "exec" or "target": what the command line asked for
    pc,         \* where main is
    healthy,    \* the server of /metrics and /healthz answers
    attached,   \* the program is attached to the tracepoint
    child,      \* the command of --exec: "none", "stopped", "runs" or "exited"
    ctxDone,    \* the context of the signals has ended
    calls,      \* calls made so far
    job,        \* the call of a thread and the buffers of it copied so far
    said,       \* the newline flags of everything a stream has written
    missed,     \* bytes that are not counted: [key, at, why]
    ring,       \* the records in the ring buffer
    drops,      \* the kernel's count of records it had no room for
    hand,       \* the record the reading goroutine has read but not sent
    events,     \* the channel between the reader and the loop
    closed,     \* the reading goroutine has closed the channel
    streams,    \* Assembler.streams: the bytes pending for each stream
    idle,       \* streams with nothing pushed to them for the idle time
    flushCh,    \* a flush is waiting
    lines       \* the lines counted: [key, data]

main   == <<mode, pc, healthy, attached, child, ctxDone>>
kernel == <<said, missed, ring, drops>>
apps   == <<calls, job>>
reader == <<hand, events, closed>>
asm    == <<streams, idle, lines>>
vars   == <<main, kernel, apps, reader, asm, flushCh>>

NoJob == [bufs |-> <<>>, done |-> 0]

Init ==
    /\ mode \in {"pod", "exec", "target"}
    /\ pc = "load" /\ healthy = FALSE /\ attached = FALSE /\ ctxDone = FALSE
    /\ child = IF mode = "exec" THEN "stopped" ELSE "none"
    /\ calls = 0 /\ job = [t \in Threads |-> NoJob]
    /\ said = [k \in Keys |-> <<>>] /\ missed = {}
    /\ ring = <<>> /\ drops = 0 /\ hand = <<>> /\ events = <<>> /\ closed = FALSE
    /\ streams = [k \in Keys |-> <<>>] /\ idle = {} /\ lines = <<>>
    /\ flushCh = FALSE

-----------------------------------------------------------------------------
(* The watched processes and the program on the tracepoint.                *)

\* Mutant: the pod has no startup probe for the agent.
Unheld ==
    CASE mode = "exec"             -> child = "runs"
      [] mode \in {"pod", "target"} -> pc # "ended"

\* The agent is a native sidecar: its startup probe holds the application
\* until /healthz answers, and the command of --exec is stopped at its exec;
\* the process that --target-tgid names was there before.
CanWrite ==
    CASE mode = "pod"    -> healthy
      [] mode = "exec"   -> child = "runs"
      [] mode = "target" -> pc # "ended"

\* A watched thread enters write or writev.
Call(t) ==
    /\ CanWrite
    /\ job[t] = NoJob
    /\ calls < MaxCalls
    /\ \E bufs \in Calls : job' = [job EXCEPT ![t] = [bufs |-> bufs, done |-> 0]]
    /\ calls' = calls + 1
    /\ UNCHANGED <<main, kernel, reader, asm, flushCh>>

Miss(k, places, why) == missed \cup [key : {k}, at : places, why : {why}]

\* emit: the record of one buffer, cut at MaxData bytes.  A full ring buffer
\* drops the record and counts it; memory of the process that cannot be read
\* loses it without a trace.  rest is what the call holds after its last
\* buffer that is copied.
Emit(k, buf, rest) ==
    LET from == Len(said[k])
        n    == IF Len(buf) > MaxData THEN MaxData ELSE Len(buf)
        end  == from + Len(buf) + Len(rest)
        kept == [i \in 1..n |-> from + i]
        rec  == [key |-> k, data |-> kept, cut |-> from + n < end]
    IN  /\ said' = [said EXCEPT ![k] = @ \o buf \o rest]
        /\ \/ /\ ~attached
              /\ missed' = Miss(k, from + 1..end, "unseen")
              /\ UNCHANGED <<ring, drops>>
           \/ /\ attached /\ n > 0
              /\ missed' = Miss(k, from + 1..end, "unreadable")
              /\ UNCHANGED <<ring, drops>>
           \/ /\ attached /\ Len(ring) < RingSize
              /\ ring' = Append(ring, rec)
              /\ missed' = Miss(k, from + n + 1..end, "cut")
              /\ UNCHANGED drops
           \/ /\ attached /\ Len(ring) = RingSize
              /\ drops' = drops + 1
              /\ missed' = Miss(k, from + 1..end, "dropped")
              /\ UNCHANGED ring

\* sys_enter: the next buffer of the call is copied; of a writev only the
\* first MaxIov are.
CopyBuffer(t) ==
    LET bufs == job[t].bufs
        i    == job[t].done + 1
        last == i = Len(bufs) \/ i = MaxIov
    IN  /\ job[t] # NoJob
        /\ Emit(KeyOf[t], bufs[i],
                IF last THEN FlattenSeq(SubSeq(bufs, i + 1, Len(bufs))) ELSE <<>>)
        /\ job' = [job EXCEPT ![t] = IF last THEN NoJob ELSE [@ EXCEPT !.done = i]]
        /\ UNCHANGED <<main, calls, reader, asm, flushCh>>

\* An iovec of a writev cannot be read: the buffers from there on are lost.
CopyFails(t) ==
    LET bufs == job[t].bufs
        k    == KeyOf[t]
        rest == FlattenSeq(SubSeq(bufs, job[t].done + 1, Len(bufs)))
    IN  /\ Len(bufs) > 1 /\ attached
        /\ said' = [said EXCEPT ![k] = @ \o rest]
        /\ missed' = Miss(k, Len(said[k]) + 1..Len(said[k]) + Len(rest), "unreadable")
        /\ job' = [job EXCEPT ![t] = NoJob]
        /\ UNCHANGED <<main, ring, drops, calls, reader, asm, flushCh>>

\* The command ends; the goroutine that waits for it sleeps and calls stop.
ChildExits ==
    /\ child = "runs" /\ \A t \in Threads : job[t] = NoJob
    /\ child' = "exited"
    /\ UNCHANGED <<mode, pc, healthy, attached, ctxDone, kernel, apps, reader, asm, flushCh>>

ChildStops ==
    /\ child = "exited" /\ ~ctxDone
    /\ ctxDone' = TRUE
    /\ UNCHANGED <<mode, pc, healthy, attached, child, kernel, apps, reader, asm, flushCh>>

\* SIGTERM or an interrupt.
Signal ==
    /\ ~ctxDone /\ pc \in {"run", "open"}
    /\ ctxDone' = TRUE
    /\ UNCHANGED <<mode, pc, healthy, attached, child, kernel, apps, reader, asm, flushCh>>

-----------------------------------------------------------------------------
(* The goroutine that reads the ring buffer.                               *)

\* Probe.Read: the next record of a probe that is not closed.
Read ==
    /\ pc \in {"run", "close"} /\ hand = <<>> /\ ring # <<>>
    /\ hand' = <<Head(ring)>> /\ ring' = Tail(ring)
    /\ UNCHANGED <<main, said, missed, drops, apps, events, closed, asm, flushCh>>

Send ==
    /\ hand # <<>> /\ Len(events) < ChanSize
    /\ events' = events \o hand /\ hand' = <<>>
    /\ UNCHANGED <<main, kernel, apps, closed, asm, flushCh>>

\* ringbuf.ErrClosed: the goroutine closes the channel and ends.
ReaderEnds ==
    /\ pc = "drain" /\ hand = <<>> /\ ~closed
    /\ closed' = TRUE
    /\ UNCHANGED <<main, kernel, apps, hand, events, asm, flushCh>>

-----------------------------------------------------------------------------
(* The assembler.                                                          *)

\* Mutant: the buffer is kept after a newline.
SplitKeeping(k, data, buf) ==
    FoldLeft(LAMBDA acc, i : IF said[k][i]
                             THEN [acc EXCEPT !.out = Append(@, acc.buf)]
                             ELSE [acc EXCEPT !.buf = Append(@, i)],
             [out |-> <<>>, buf |-> buf], data)

\* The loop of Push: a newline ends the line in buf.
Split(k, data, buf) ==
    FoldLeft(LAMBDA acc, i : IF said[k][i]
                             THEN [out |-> Append(acc.out, acc.buf), buf |-> <<>>]
                             ELSE [acc EXCEPT !.buf = Append(@, i)],
             [out |-> <<>>, buf |-> buf], data)

\* A buffer that reached MaxLine is emitted as a line.
Overflow(acc) ==
    IF Len(acc.buf) >= MaxLine
    THEN [out |-> Append(acc.out, acc.buf), buf |-> <<>>]
    ELSE acc

OnLines(k, out) == lines \o [i \in 1..Len(out) |-> [key |-> k, data |-> out[i]]]

Push(k, data) ==
    LET acc == Overflow(Split(k, data, streams[k]))
    IN  /\ lines' = OnLines(k, acc.out)
        /\ streams' = [streams EXCEPT ![k] = acc.buf]
        /\ idle' = idle \ {k}

\* Go ranges over the map in any order.
FlushIdle(ks) ==
    \E order \in SetToSeqs({k \in ks : streams[k] # <<>>}) :
        /\ lines' = lines \o [i \in 1..Len(order) |->
                        [key |-> order[i], data |-> streams[order[i]]]]
        /\ streams' = [k \in Keys |-> IF k \in ks THEN <<>> ELSE streams[k]]
        /\ idle' = idle \ ks

\* The idle time passes for a stream with an unfinished line.
Age(k) ==
    /\ pc = "run" /\ streams[k] # <<>> /\ k \notin idle
    /\ idle' = idle \cup {k}
    /\ UNCHANGED <<main, kernel, apps, reader, streams, lines, flushCh>>

-----------------------------------------------------------------------------
(* The timer goroutine; the summary it logs and the gauge it sets are left *)
(* out.                                                                    *)

Tick ==
    /\ pc = "run" /\ ~flushCh
    /\ flushCh' = TRUE
    /\ UNCHANGED <<main, kernel, apps, reader, asm>>

-----------------------------------------------------------------------------
(* main.                                                                   *)

\* probe.Load.  Without the program an agent that watches a pod stays up and
\* counts nothing; the others end.
Load ==
    /\ pc = "load"
    /\ \/ attached' = TRUE /\ pc' = "start"
       \/ attached' = FALSE /\ pc' = IF mode = "pod" THEN "open" ELSE "fatal"
    /\ healthy' = (pc' = "open")
    /\ UNCHANGED <<mode, child, ctxDone, kernel, apps, reader, asm, flushCh>>

\* The server's goroutine is started and the command continues.
Start ==
    /\ pc = "start"
    /\ healthy' = TRUE
    /\ child' = IF child = "stopped" THEN "runs" ELSE child
    /\ pc' = "run"
    /\ UNCHANGED <<mode, attached, ctxDone, kernel, apps, reader, asm, flushCh>>

LoopEvent ==
    /\ pc = "run" /\ events # <<>>
    /\ Push(Head(events).key, Head(events).data)
    /\ events' = Tail(events)
    /\ UNCHANGED <<main, kernel, apps, hand, closed, flushCh>>

\* Mutant: the flush is taken from the channel and not done.
FlushSkipped ==
    /\ pc = "run" /\ flushCh
    /\ flushCh' = FALSE
    /\ UNCHANGED <<main, kernel, apps, reader, asm>>

LoopFlush ==
    /\ pc = "run" /\ flushCh
    /\ flushCh' = FALSE
    /\ FlushIdle(idle)
    /\ UNCHANGED <<main, kernel, apps, reader>>

LoopDone ==
    /\ pc = "run" /\ ctxDone
    /\ pc' = "close"
    /\ UNCHANGED <<mode, healthy, attached, child, ctxDone, kernel, apps, reader, asm, flushCh>>

\* Probe.Close: the reader, the tracepoint and the maps go; what is in the
\* ring buffer goes with them.
Close ==
    /\ pc = "close"
    /\ attached' = FALSE /\ ring' = <<>>
    /\ missed' = missed \cup UNION {[key : {r.key}, at : ToSet(r.data), why : {"closing"}] :
                                     r \in ToSet(ring)}
    /\ pc' = "drain"
    /\ UNCHANGED <<mode, healthy, child, ctxDone, said, drops, apps, reader, asm, flushCh>>

DrainEvent ==
    /\ pc = "drain" /\ events # <<>>
    /\ Push(Head(events).key, Head(events).data)
    /\ events' = Tail(events)
    /\ UNCHANGED <<main, kernel, apps, hand, closed, flushCh>>

\* Mutant: the drain ends with the first moment the channel is empty.
FlushEarly ==
    /\ pc = "drain" /\ events = <<>>
    /\ FlushIdle(Keys)
    /\ pc' = "ended" /\ healthy' = FALSE
    /\ UNCHANGED <<mode, attached, child, ctxDone, kernel, apps, reader, flushCh>>

\* The channel is closed and empty.  The drop count can no longer be read:
\* its map is closed too.
FinalFlush ==
    /\ pc = "drain" /\ closed /\ events = <<>>
    /\ FlushIdle(Keys)
    /\ pc' = "ended" /\ healthy' = FALSE
    /\ UNCHANGED <<mode, attached, child, ctxDone, kernel, apps, reader, flushCh>>

\* failOpen waits for the context.
OpenEnds ==
    /\ pc = "open" /\ ctxDone
    /\ pc' = "ended" /\ healthy' = FALSE
    /\ UNCHANGED <<mode, attached, child, ctxDone, kernel, apps, reader, asm, flushCh>>

Next ==
    \/ \E t \in Threads : Call(t) \/ CopyBuffer(t) \/ CopyFails(t)
    \/ ChildExits \/ ChildStops \/ Signal
    \/ Read \/ Send \/ ReaderEnds
    \/ \E k \in Keys : Age(k)
    \/ Tick
    \/ Load \/ Start \/ LoopEvent \/ LoopFlush \/ LoopDone
    \/ Close \/ DrainEvent \/ FinalFlush \/ OpenEnds

\* Goroutines run, the clock and the kernel go on, and select takes each
\* ready case at some time: every channel operation that stays possible is
\* done.  No process has to write and no signal has to come.
Fairness ==
    /\ \A t \in Threads : WF_vars(CopyBuffer(t))
    /\ \A k \in Keys : WF_vars(Age(k))
    /\ WF_vars(Read) /\ WF_vars(Send) /\ WF_vars(ReaderEnds) /\ WF_vars(Tick)
    /\ WF_vars(LoopEvent) /\ WF_vars(LoopFlush) /\ WF_vars(LoopDone)
    /\ WF_vars(Load) /\ WF_vars(Start) /\ WF_vars(Close) /\ WF_vars(DrainEvent)
    /\ WF_vars(FinalFlush)

Spec == Init /\ [][Next]_vars /\ Fairness

-----------------------------------------------------------------------------
(* Properties.                                                             *)

Records == [key : Keys, data : Seq(Nat \ {0}), cut : BOOLEAN]

\* Type correctness of what main, the kernel side and the assembler keep.
TypeOK ==
    /\ said \in [Keys -> Seq(BOOLEAN)]
    /\ ring \in Seq(Records) /\ Len(ring) <= RingSize
    /\ events \in Seq(Records) /\ Len(events) <= ChanSize
    /\ hand \in Seq(Records) /\ Len(hand) <= 1
    /\ streams \in [Keys -> Seq(Nat \ {0})]
    /\ idle \subseteq Keys
    /\ lines \in Seq([key : Keys, data : Seq(Nat \ {0})])

Missing(k, i) == \E m \in missed : m.key = k /\ m.at = i

\* The bytes of stream k that the kernel side took over, newlines excepted.
Taken(k) == {i \in 1..Len(said[k]) : ~Missing(k, i) /\ ~said[k][i]}

\* The bytes of stream k in a sequence of records or lines.
Bytes(k, recs) == UNION {ToSet(recs[j].data) : j \in {j \in DOMAIN recs : recs[j].key = k}}

\* The bytes of stream k follow each other in the order they were written, in
\* a record and from record to record; no byte is there twice.
Ascending(k, recs) ==
    \A i, j \in DOMAIN recs : recs[i].key = k /\ recs[j].key = k =>
        \A m \in DOMAIN recs[i].data, n \in DOMAIN recs[j].data :
            i < j \/ (i = j /\ m < n) => recs[i].data[m] < recs[j].data[n]

\* What was read or is to be read, and all the places of a stream from the
\* counted lines to the ring buffer.
Unread == events \o hand \o ring
Places(k) == lines \o <<[key |-> k, data |-> streams[k]]>> \o Unread

\* Every byte the kernel took over is in exactly one place (a counted line,
\* the unfinished line, the channel, the reader's hand, the ring buffer) and
\* the bytes of a stream stay in the order they were written, whatever the
\* threads, the reader, the timer and the shutdown do; a counted line never
\* runs over a newline the kernel took over, and pending bytes stay under the
\* line limit (stream.go Push and FlushIdle, the loop and the drain of main).
BytesOnceInOrder ==
    /\ TypeOK
    /\ \A k \in Keys :
          Ascending(k, Places(k)) /\ {i \in Bytes(k, Places(k)) : ~said[k][i]} = Taken(k)
    /\ \A l \in ToSet(lines) : l.data # <<>> =>
          \A i \in Head(l.data)..Last(l.data) : said[l.key][i] => Missing(l.key, i)
    /\ \A k \in Keys : Len(streams[k]) < MaxLine

\* While the agent watches a pod or its own command, it saw every write from
\* the first one on: the server answers and the command continues only once
\* the program is attached (main: Load, the server, PtraceDetach).
FromFirstWrite ==
    mode # "target" /\ attached => \A m \in missed : m.why # "unseen"

\* When the agent has ended, every record it had read is in its counts: the
\* channel is drained before the unfinished lines are (main.go, the drain).
AllReadCounted ==
    pc = "ended" => hand = <<>> /\ events = <<>> /\ \A k \in Keys : Bytes(k, lines) = Taken(k)

\* Every byte a process writes is counted in a line or missed, also when no
\* newline follows, no signal comes, and other streams keep writing
\* (FlushIdle and its timer).
EventuallyCounted ==
    \A k \in Keys : \A i \in 1..MaxCalls :
        (i <= Len(said[k]) /\ ~said[k][i])
            ~> (Missing(k, i) \/ i \in Bytes(k, lines))
=============================================================================
