--------------------------- MODULE PiSidecarClient ---------------------------
(***************************************************************************)
(* The client of the Pi sidecar (recipes/tau2_telecom/pi_sidecar_client.py):*)
(* one object per event loop, shared by every tau2 flow of the worker.  It *)
(* starts the Node process when there is none, opens and closes sessions on*)
(* it, and one reader task per process hands every line of stdout to the   *)
(* queue of the session it names.                                          *)
(*                                                                         *)
(* A coroutine runs alone until it awaits, so a step below is the code     *)
(* between two awaits.  The process, its pipe and the notice of its exit   *)
(* are the operating system's: they may come at any time, in that order.   *)
(* A reader waits on the stream of one process, but picks the next stream, *)
(* and the process whose exit it waits for, through self._process, which   *)
(* may have been replaced meanwhile.                                       *)
(*                                                                         *)
(* A send writes its line under _write_lock and holds the lock until the   *)
(* pipe is drained, without a timeout: a process that lives but does not   *)
(* read its stdin may keep it for ever.  Of the sends, those that open and *)
(* close a session are here; the responses of a flow are in PiSession.     *)
(***************************************************************************)
EXTENDS Naturals, Sequences, FiniteSets, SequencesExt

CONSTANTS
    Callers,     \* the flows; each opens one session
    MaxStarts,   \* bound: how often the process is spawned
    MaxEvents    \* bound: events the sidecar emits, for all sessions together

ASSUME ClientAssumption == MaxStarts \in Nat /\ MaxEvents \in Nat

Procs == 1..MaxStarts

VARIABLES
    proc,        \* per spawn: [stage, noticed, broke, out, serves]
    starts,      \* spawns begun; the ready future of the last is self._ready
    ready,       \* per spawn: the state of its ready future
    current,     \* self._process, 0 for None
    reader,      \* per spawn: [stage, on], the task _read_stdout it started
    lockedBy,    \* the caller in the critical section of _start_lock, or {}
    call,        \* per caller: where it is between start() and close()
    mine,        \* per caller: the process its start_session was written to
    writing,     \* per caller: the process whose stdin it drains, holding
                 \* _write_lock, or 0
    sessions,    \* the keys of self._sessions
    queue,       \* per caller: the events waiting in its queue
    sent,        \* per caller: how many events the sidecar has emitted for it
    got          \* per caller: how many events it has taken from its queue

vars == <<proc, starts, ready, current, reader, lockedBy, call, mine, writing,
          sessions, queue, sent, got>>
callerVars == <<call, mine, writing, got>>

Ready == [kind |-> "ready"]
Garbage == [kind |-> "garbage"]
Event(c, n) == [kind |-> "event", of |-> c, number |-> n]
SidecarError == [kind |-> "sidecar_error"]

NoProcess == [stage |-> "none", noticed |-> FALSE, broke |-> FALSE,
              out |-> <<>>, serves |-> {}]

Init ==
    /\ proc = [p \in Procs |-> NoProcess]
    /\ starts = 0
    /\ ready = [p \in Procs |-> "none"]
    /\ current = 0
    /\ reader = [p \in Procs |-> [stage |-> "none", on |-> 0]]
    /\ lockedBy = {}
    /\ call = [c \in Callers |-> "idle"]
    /\ mine = [c \in Callers |-> 0]
    /\ writing = [c \in Callers |-> 0]
    /\ sessions = {}
    /\ queue = [c \in Callers |-> <<>>]
    /\ sent = [c \in Callers |-> 0]
    /\ got = [c \in Callers |-> 0]

\* self._process is not None and self._process.returncode is None
Running == current # 0 /\ ~proc[current].noticed

-----------------------------------------------------------------------------
(* start(), called by every open_session *)

\* The check before the lock: a process that still runs is enough.
Start(c) ==
    /\ call[c] = "idle"
    /\ call' = [call EXCEPT ![c] = IF Running THEN "opening" ELSE "locking"]
    /\ UNCHANGED <<proc, starts, ready, current, reader, lockedBy, mine, writing,
                   sessions, queue, sent, got>>

\* Defect: the process is not looked at again under the lock.
LockedWithoutRecheck(c) ==
    /\ call[c] = "locking"
    /\ lockedBy = {}
    /\ starts < MaxStarts
    /\ starts' = starts + 1
    /\ ready' = [ready EXCEPT ![starts'] = "pending"]
    /\ lockedBy' = {c}
    /\ call' = [call EXCEPT ![c] = "spawning"]
    /\ UNCHANGED <<proc, current, reader, mine, writing, sessions, queue, sent,
                   got>>

\* Under the lock the check is made again; a new future becomes self._ready
\* before the process is spawned.
Locked(c) ==
    /\ call[c] = "locking"
    /\ lockedBy = {}
    /\ IF Running
       THEN /\ call' = [call EXCEPT ![c] = "opening"]
            /\ UNCHANGED <<lockedBy, starts, ready>>
       ELSE /\ starts < MaxStarts
            /\ starts' = starts + 1
            /\ ready' = [ready EXCEPT ![starts'] = "pending"]
            /\ lockedBy' = {c}
            /\ call' = [call EXCEPT ![c] = "spawning"]
    /\ UNCHANGED <<proc, current, reader, mine, writing, sessions, queue, sent,
                   got>>

\* create_subprocess_exec has returned: the reader task is created and the
\* caller waits for the ready line.
Spawned(c) ==
    /\ call[c] = "spawning"
    /\ current' = starts
    /\ proc' = [proc EXCEPT ![starts].stage = "booting"]
    /\ reader' = [reader EXCEPT ![starts] = [stage |-> "reading", on |-> starts]]
    /\ call' = [call EXCEPT ![c] = "awaiting"]
    /\ UNCHANGED <<starts, ready, lockedBy, mine, writing, sessions, queue, sent,
                   got>>

SpawnFails(c) ==
    /\ call[c] = "spawning"
    /\ call' = [call EXCEPT ![c] = "failed"]
    /\ lockedBy' = {}
    /\ UNCHANGED <<proc, starts, ready, current, reader, mine, writing, sessions, queue, sent,
                   got>>

\* wait_for(self._ready): the caller holds the lock, so the last future is its.
ReadyOrFailed(c) ==
    /\ call[c] = "awaiting"
    /\ \/ ready[starts] = "set" /\ call' = [call EXCEPT ![c] = "opening"]
       \/ ready[starts] = "failed" /\ call' = [call EXCEPT ![c] = "failed"]
    /\ lockedBy' = {}
    /\ UNCHANGED <<proc, starts, ready, current, reader, mine, writing, sessions, queue, sent,
                   got>>

\* Defect: a start that times out leaves the lock held.
StartTimesOutLocked(c) ==
    /\ call[c] = "awaiting"
    /\ ready[starts] = "pending"
    /\ ready' = [ready EXCEPT ![starts] = "cancelled"]
    /\ call' = [call EXCEPT ![c] = "failed"]
    /\ UNCHANGED <<proc, starts, current, reader, lockedBy, mine, writing, sessions, queue, sent,
                   got>>

\* The startup timeout cancels the future; the process is left as it is.
StartTimesOut(c) ==
    /\ call[c] = "awaiting"
    /\ ready[starts] = "pending"
    /\ ready' = [ready EXCEPT ![starts] = "cancelled"]
    /\ call' = [call EXCEPT ![c] = "failed"]
    /\ lockedBy' = {}
    /\ UNCHANGED <<proc, starts, current, reader, mine, writing, sessions, queue, sent,
                   got>>

-----------------------------------------------------------------------------
(* open_session() and close_session() *)

\* Defect: the queue is not registered when start_session is sent.
RegisterLater(c) ==
    /\ call[c] = "opening"
    /\ call' = [call EXCEPT ![c] = IF Running THEN "sending" ELSE "failed"]
    /\ UNCHANGED <<proc, starts, ready, current, reader, lockedBy, mine, writing,
                   sessions, queue, sent, got>>

\* The queue is registered before start_session is sent; send raises at once
\* when the process is known to be gone, and the queue stays registered.
Register(c) ==
    /\ call[c] = "opening"
    /\ sessions' = sessions \cup {c}
    /\ call' = [call EXCEPT ![c] = IF Running THEN "sending" ELSE "failed"]
    /\ UNCHANGED <<proc, starts, ready, current, reader, lockedBy, mine, writing, queue, sent, got>>

\* The next send may write: nobody holds _write_lock.
WriteLockFree == \A c \in Callers : writing[c] = 0

\* Under _write_lock the line goes to the process that self._process names by
\* then; a line for one that has exited is lost.
Send(c) ==
    /\ call[c] = "sending"
    /\ WriteLockFree
    /\ call' = [call EXCEPT ![c] = "open"]
    /\ mine' = [mine EXCEPT ![c] = current]
    /\ writing' = [writing EXCEPT ![c] = current]
    /\ proc' = IF proc[current].stage = "exited" THEN proc
               ELSE [proc EXCEPT ![current].serves = @ \cup {c}]
    /\ UNCHANGED <<starts, ready, current, reader, lockedBy, sessions, queue, sent, got>>

\* drain() returns and open_session with it.
Drained(c) ==
    /\ call[c] = "open"
    /\ writing[c] # 0
    /\ writing' = [writing EXCEPT ![c] = 0]
    /\ UNCHANGED <<proc, starts, ready, current, reader, lockedBy, call, mine, sessions,
                   queue, sent, got>>

\* drain() raises when the process is gone: open_session raises, and the queue
\* stays registered.
DrainRaises(c) ==
    /\ call[c] = "open"
    /\ writing[c] # 0
    /\ proc[writing[c]].stage = "exited"
    /\ writing' = [writing EXCEPT ![c] = 0]
    /\ call' = [call EXCEPT ![c] = "broken"]
    /\ UNCHANGED <<proc, starts, ready, current, reader, lockedBy, mine, sessions, queue, sent,
                   got>>

\* next_event: the flow takes the next event of its queue.
NextEvent(c) ==
    /\ call[c] = "open"
    /\ writing[c] = 0
    /\ queue[c] # <<>>
    /\ queue' = [queue EXCEPT ![c] = Tail(@)]
    /\ IF Head(queue[c]) = SidecarError
       THEN /\ call' = [call EXCEPT ![c] = "closing"]
            /\ UNCHANGED got
       ELSE /\ got' = [got EXCEPT ![c] = @ + 1]
            /\ \/ UNCHANGED call
               \/ call' = [call EXCEPT ![c] = "closing"]
    /\ UNCHANGED <<proc, starts, ready, current, reader, lockedBy, mine, writing, sessions,
                   sent>>

EventTimesOut(c) ==
    /\ call[c] = "open"
    /\ writing[c] = 0
    /\ queue[c] = <<>>
    /\ call' = [call EXCEPT ![c] = "closing"]
    /\ UNCHANGED <<proc, starts, ready, current, reader, lockedBy, mine, writing,
                   sessions, queue, sent, got>>

\* close_session, its last part: whether or not the line could be sent, the
\* queue goes.  A session the sidecar still serves is closed there.
Forgotten(c) ==
    /\ call' = [call EXCEPT ![c] = "closed"]
    /\ sessions' = sessions \ {c}
    /\ queue' = [queue EXCEPT ![c] = <<>>]
    /\ proc' = IF Running THEN [proc EXCEPT ![current].serves = @ \ {c}] ELSE proc
    /\ UNCHANGED <<starts, ready, current, reader, lockedBy, mine, sent, got>>

\* close_session: the send raises at once when the process is known to be gone.
Close(c) ==
    /\ call[c] = "closing"
    /\ UNCHANGED writing
    /\ IF Running
       THEN /\ call' = [call EXCEPT ![c] = "parting"]
            /\ UNCHANGED <<proc, starts, ready, current, reader, lockedBy, mine, sessions,
                           queue, sent, got>>
       ELSE Forgotten(c)

\* Its line is written under _write_lock.
SendClose(c) ==
    /\ call[c] = "parting"
    /\ WriteLockFree
    /\ call' = [call EXCEPT ![c] = "leaving"]
    /\ writing' = [writing EXCEPT ![c] = current]
    /\ UNCHANGED <<proc, starts, ready, current, reader, lockedBy, mine, sessions, queue, sent,
                   got>>

\* Its drain() returns or raises.
Closed(c) ==
    /\ call[c] = "leaving"
    /\ writing' = [writing EXCEPT ![c] = 0]
    /\ Forgotten(c)

-----------------------------------------------------------------------------
(* the process *)

ProcessReady(p) ==
    /\ proc[p].stage = "booting"
    /\ proc' = [proc EXCEPT ![p].stage = "up", ![p].out = Append(@, Ready)]
    /\ UNCHANGED <<starts, ready, current, reader, lockedBy, callerVars, sessions, queue, sent>>

\* The sidecar writes the next event of a session it serves.
ProcessEmits(p, c) ==
    /\ proc[p].stage = "up"
    /\ c \in proc[p].serves
    /\ FoldFunction(LAMBDA n, sum : n + sum, 0, sent) < MaxEvents
    /\ sent' = [sent EXCEPT ![c] = @ + 1]
    /\ proc' = [proc EXCEPT ![p].out = Append(@, Event(c, sent'[c]))]
    /\ UNCHANGED <<starts, ready, current, reader, lockedBy, callerVars, sessions, queue>>

\* A line that is not JSON, once per process.
ProcessBabbles(p) ==
    /\ proc[p].stage = "up"
    /\ ~proc[p].broke
    /\ proc' = [proc EXCEPT ![p].broke = TRUE, ![p].out = Append(@, Garbage)]
    /\ UNCHANGED <<starts, ready, current, reader, lockedBy, callerVars, sessions, queue, sent>>

\* The process crashes, or is shut down or killed by shutdown(); the event
\* loop hears of it later.
ProcessExits(p) ==
    /\ proc[p].stage \in {"booting", "up"}
    /\ proc' = [proc EXCEPT ![p].stage = "exited", ![p].serves = {}]
    /\ UNCHANGED <<starts, ready, current, reader, lockedBy, callerVars, sessions, queue, sent>>

ExitNoticed(p) ==
    /\ proc[p].stage = "exited"
    /\ ~proc[p].noticed
    /\ proc' = [proc EXCEPT ![p].noticed = TRUE]
    /\ UNCHANGED <<starts, ready, current, reader, lockedBy, callerVars, sessions, queue, sent>>

-----------------------------------------------------------------------------
(* _read_stdout() and _fail_all() *)

\* _fail_all: the ready future, if still pending, and every registered queue.
\* A flow stops at the first sidecar_error of its queue: what follows one there
\* is never read and is left out.
FailReady == IF starts > 0 /\ ready[starts] = "pending"
             THEN [ready EXCEPT ![starts] = "failed"] ELSE ready
Ended(c) == queue[c] # <<>> /\ Last(queue[c]) = SidecarError
Put(c, event) == IF c \in sessions /\ ~Ended(c) THEN Append(queue[c], event) ELSE queue[c]
FailQueues == [c \in Callers |-> Put(c, SidecarError)]

\* Defect: the finally clause fails nobody.
LeaveQuietly(k, raised) ==
    /\ IF Running
       THEN reader' = [reader EXCEPT ![k] = [stage |-> "waiting", on |-> current]]
       ELSE reader' = [reader EXCEPT ![k] = [stage |-> "done", on |-> 0]]
    /\ queue' = IF raised THEN FailQueues ELSE queue
    /\ ready' = IF raised THEN FailReady ELSE ready

\* The except clause fails everything if something was raised; the finally
\* clause does it in any case, but first waits for the exit of self._process if it runs.
Leave(k, raised) ==
    /\ IF Running
       THEN /\ reader' = [reader EXCEPT ![k] = [stage |-> "waiting", on |-> current]]
            /\ queue' = IF raised THEN FailQueues ELSE queue
            /\ ready' = IF raised THEN FailReady ELSE ready
       ELSE /\ reader' = [reader EXCEPT ![k] = [stage |-> "done", on |-> 0]]
            /\ queue' = FailQueues
            /\ ready' = FailReady

\* A line is handed over; the next readline is on the stream of self._process.
ReadLine(k) ==
    LET p == reader[k].on
        line == Head(proc[p].out)
    IN
    /\ reader[k].stage = "reading"
    /\ proc[p].out # <<>>
    /\ proc' = [proc EXCEPT ![p].out = Tail(@)]
    /\ \/ /\ line.kind = "ready"
          /\ ready' = IF ready[starts] = "pending" THEN [ready EXCEPT ![starts] = "set"]
                      ELSE ready
          /\ reader' = [reader EXCEPT ![k].on = current]
          /\ UNCHANGED queue
       \/ /\ line.kind = "event"
          /\ queue' = [queue EXCEPT ![line.of] = Put(line.of, line)]
          /\ reader' = [reader EXCEPT ![k].on = current]
          /\ UNCHANGED ready
       \/ line.kind = "garbage" /\ Leave(k, TRUE)
    /\ UNCHANGED <<starts, current, lockedBy, callerVars, sessions, sent>>

\* Two readers may not wait on one stream: the readline of the second raises,
\* whichever of them that is.
SecondReaderFails(k) ==
    /\ reader[k].stage = "reading"
    /\ proc[reader[k].on].out = <<>>
    /\ \E j \in Procs \ {k} : reader[j] = [stage |-> "reading", on |-> reader[k].on]
    /\ Leave(k, TRUE)
    /\ UNCHANGED <<proc, starts, current, lockedBy, callerVars, sessions, sent>>

ReadEof(k) ==
    /\ reader[k].stage = "reading"
    /\ proc[reader[k].on].out = <<>>
    /\ proc[reader[k].on].stage = "exited"
    /\ Leave(k, FALSE)
    /\ UNCHANGED <<proc, starts, current, lockedBy, callerVars, sessions, sent>>

\* process.wait() returns in the finally clause.
WaitReturns(k) ==
    /\ reader[k].stage = "waiting"
    /\ proc[reader[k].on].noticed
    /\ reader' = [reader EXCEPT ![k] = [stage |-> "done", on |-> 0]]
    /\ queue' = FailQueues
    /\ ready' = FailReady
    /\ UNCHANGED <<proc, starts, current, lockedBy, callerVars, sessions, sent>>

-----------------------------------------------------------------------------
CallerStep(c) ==
    \/ Start(c) \/ Locked(c) \/ Spawned(c) \/ SpawnFails(c) \/ ReadyOrFailed(c)
    \/ StartTimesOut(c) \/ Register(c) \/ Send(c) \/ NextEvent(c) \/ EventTimesOut(c)
    \/ Close(c) \/ SendClose(c)
DrainEnds(c) == Drained(c) \/ DrainRaises(c) \/ Closed(c)
ProcessStep(p) ==
    \/ ProcessReady(p) \/ (\E c \in Callers : ProcessEmits(p, c))
    \/ ProcessBabbles(p) \/ ProcessExits(p) \/ ExitNoticed(p)
ReaderStep(k) ==
    ReadLine(k) \/ SecondReaderFails(k) \/ ReadEof(k) \/ WaitReturns(k)

Next == \/ \E c \in Callers : CallerStep(c) \/ DrainEnds(c)
        \/ \E p \in Procs : ProcessStep(p) \/ ReaderStep(p)

\* The pipe of a process that is gone breaks, which ends the drain() on it.
BrokenPipe(c) ==
    writing[c] # 0 /\ proc[writing[c]].stage = "exited" /\ DrainEnds(c)

\* The event loop runs every task that can run and every timer that is due;
\* the kernel reports an exit and breaks the pipe.  Nothing makes the sidecar
\* answer, read its stdin or live.
Spec ==
    /\ Init /\ [][Next]_vars
    /\ \A c \in Callers : WF_vars(CallerStep(c)) /\ WF_vars(BrokenPipe(c))
    /\ \A p \in Procs : WF_vars(ReaderStep(p)) /\ WF_vars(ExitNoticed(p))

-----------------------------------------------------------------------------
(* Properties *)

Alive == {p \in Procs : proc[p].stage \in {"booting", "up"}}

\* However many flows start the client at once, and whatever exits in
\* between, at most one sidecar process is alive (the two checks of start()).
OneProcess == Cardinality(Alive) <= 1

\* When the reader of a process has ended, every session open on that process
\* has been told: a sidecar_error waits in its queue (the order of register
\* and send in open_session, the finally clause of _read_stdout).
ToldOfTheEnd ==
    \A c \in Callers :
        call[c] = "open" /\ reader[mine[c]].stage = "done" => Ended(c)

\* No event is lost, repeated or out of order between the sidecar and the flow:
\* until it is told of a failure, what waits in the queue of an open session and
\* what is still in the pipe are exactly the events sent and not yet taken.
EventsInOrder ==
    \A c \in Callers : call[c] = "open" /\ ~Ended(c) =>
        LET ahead == queue[c] \o proc[mine[c]].out
            its == {i \in DOMAIN ahead : ahead[i].kind = "event" /\ ahead[i].of = c}
        IN  /\ {ahead[i].number : i \in its} = (got[c] + 1) .. sent[c]
            /\ \A i, j \in its : i < j => ahead[i].number < ahead[j].number

Starting(c) == call[c] \in {"locking", "spawning", "awaiting"}
Opening(c) == \/ Starting(c) \/ call[c] \in {"opening", "sending"}
              \/ call[c] = "open" /\ writing[c] # 0

\* A drain() waits on a process that lives and does not read its stdin.
Unread == \E c \in Callers : writing[c] # 0 /\ proc[writing[c]].stage # "exited"

\* start() returns or raises whatever the process does: it has a timeout and
\* gives its lock back on every way out.  So does open_session, unless some
\* send waits for ever on a process that lives: send() has no timeout and
\* keeps _write_lock, and then every flow of the client may wait with it.  A
\* caller opens once: that each comes to an end is that a time comes after
\* which nobody is at it.
OpenEnds ==
    /\ <>[](\A c \in Callers : ~Starting(c))
    /\ <>[]Unread \/ <>[](\A c \in Callers : ~Opening(c))
=============================================================================
