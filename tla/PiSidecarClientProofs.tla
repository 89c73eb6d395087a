----------------------- MODULE PiSidecarClientProofs -----------------------
(***************************************************************************)
(* Proofs about the Pi sidecar client, for any number of flows, of spawns  *)
(* and of events: at most one process is alive, no session waits on a      *)
(* process whose end was noticed without being told, and the events of a   *)
(* session arrive as they were sent.                                       *)
(***************************************************************************)
EXTENDS PiSidecarClient, FiniteSetTheorems, TLAPS

Events == [kind : {"event"}, of : Callers, number : Nat]
Lines == {Ready, Garbage} \cup Events
Notes == {SidecarError} \cup Events

LEMMA EventType ==
  ASSUME NEW c \in Callers, NEW n \in Nat
  PROVE  Event(c, n) \in Events /\ Event(c, n).of = c /\ Event(c, n).number = n
BY DEF Event, Events

LEMMA EventParts ==
  ASSUME NEW e \in Events
  PROVE  e.of \in Callers /\ e.number \in Nat /\ e = Event(e.of, e.number) /\ e.kind = "event"
BY DEF Event, Events

LEMMA OthersAreNoEvents ==
  /\ Ready \notin Events /\ Garbage \notin Events /\ SidecarError \notin Events
  /\ Ready.kind = "ready" /\ Garbage.kind = "garbage" /\ SidecarError.kind = "sidecar_error"
BY DEF Ready, Garbage, SidecarError, Events

-----------------------------------------------------------------------------
(* Sequences *)

LEMMA Appended ==
  ASSUME NEW S, NEW q \in Seq(S), NEW e \in S
  PROVE  /\ Append(q, e) \in Seq(S) /\ Append(q, e) # <<>> /\ Len(q) \in Nat
         /\ Len(Append(q, e)) = Len(q) + 1
         /\ \A i \in 1 .. Len(q) : Append(q, e)[i] = q[i]
         /\ Append(q, e)[Len(q) + 1] = e
         /\ DOMAIN q = 1 .. Len(q) /\ DOMAIN Append(q, e) = 1 .. Len(q) + 1
OBVIOUS

LEMMA TakenOff ==
  ASSUME NEW S, NEW q \in Seq(S), q # <<>>
  PROVE  /\ Tail(q) \in Seq(S) /\ Head(q) = q[1] /\ q[1] \in S
         /\ Len(q) \in Nat /\ Len(q) >= 1 /\ Len(Tail(q)) = Len(q) - 1
         /\ \A i \in 1 .. Len(q) - 1 : Tail(q)[i] = q[i + 1]
         /\ DOMAIN q = 1 .. Len(q) /\ DOMAIN Tail(q) = 1 .. Len(q) - 1
OBVIOUS

\* The lines of out that are about c carry the numbers from a to b, in order.
Carries(out, c, a, b) ==
    /\ \A i \in DOMAIN out : out[i] \in Events /\ out[i].of = c => out[i].number \in a .. b
    /\ \A n \in a .. b : \E i \in DOMAIN out : out[i] = Event(c, n)
    /\ \A i, j \in DOMAIN out :
          /\ out[i] \in Events /\ out[i].of = c
          /\ out[j] \in Events /\ out[j].of = c
          /\ i < j
          => out[i].number < out[j].number

LEMMA CarriesNothing ==
  ASSUME NEW out, NEW c, NEW a \in Nat, NEW b \in Nat, a = b + 1,
         \A i \in DOMAIN out : out[i] \in Events => out[i].of # c
  PROVE  Carries(out, c, a, b)
BY DEF Carries

\* A line about nobody, or about another.
LEMMA CarriesMoreOfOthers ==
  ASSUME NEW out \in Seq(Lines), NEW c, NEW a \in Nat, NEW b \in Nat, Carries(out, c, a, b),
         NEW line \in Lines, line \in Events => line.of # c
  PROVE  Carries(Append(out, line), c, a, b)
<1>1. PICK m \in Nat : m = Len(out) /\ DOMAIN out = 1 .. m
  OBVIOUS
<1>2. PICK new : new = Append(out, line)
  OBVIOUS
<1>3. /\ DOMAIN new = 1 .. m + 1 /\ new[m + 1] = line
      /\ \A i \in 1 .. m : new[i] = out[i]
  BY <1>1, <1>2, Appended
<1>4. ASSUME NEW i \in 1 .. m + 1, new[i] \in Events, new[i].of = c
      PROVE  i \in 1 .. m
  BY <1>3, <1>4
<1>5. \A n \in a .. b : \E i \in DOMAIN new : new[i] = Event(c, n)
  <2> TAKE n \in a .. b
  <2>1. PICK i \in 1 .. m : out[i] = Event(c, n)
    BY <1>1 DEF Carries
  <2>2. i \in 1 .. m + 1
    OBVIOUS
  <2>3. QED
    BY <1>3, <2>1, <2>2
<1>6. \A i \in DOMAIN new : new[i] \in Events /\ new[i].of = c => new[i].number \in a .. b
  BY <1>1, <1>3, <1>4 DEF Carries
<1>7. \A i, j \in DOMAIN new :
          /\ new[i] \in Events /\ new[i].of = c
          /\ new[j] \in Events /\ new[j].of = c
          /\ i < j
          => new[i].number < new[j].number
  BY <1>1, <1>3, <1>4 DEF Carries
<1>8. QED
  BY <1>2, <1>5, <1>6, <1>7 DEF Carries

\* The next event of c.
LEMMA CarriesOneMore ==
  ASSUME NEW out \in Seq(Lines), NEW c \in Callers, NEW a \in Nat, NEW b \in Nat,
         Carries(out, c, a, b), a <= b + 1
  PROVE  Carries(Append(out, Event(c, b + 1)), c, a, b + 1)
<1>1. PICK m \in Nat : m = Len(out) /\ DOMAIN out = 1 .. m
  OBVIOUS
<1>2. PICK line \in Lines : line = Event(c, b + 1)
  BY EventType DEF Lines
<1>3. line \in Events /\ line.of = c /\ line.number = b + 1
  BY <1>2, EventType
<1>4. PICK new : new = Append(out, line)
  OBVIOUS
<1>5. /\ DOMAIN new = 1 .. m + 1 /\ new[m + 1] = line
      /\ \A i \in 1 .. m : new[i] = out[i]
  BY <1>1, <1>4, Appended
<1>6. \A i \in 1 .. m : new[i] \in Events /\ new[i].of = c => new[i].number \in a .. b
  BY <1>1, <1>5 DEF Carries
<1>7. \A i \in DOMAIN new : new[i] \in Events /\ new[i].of = c => new[i].number \in a .. b + 1
  <2>1. b + 1 \in a .. b + 1 /\ a .. b \subseteq a .. b + 1
    OBVIOUS
  <2>2. \A i \in 1 .. m + 1 : i \in 1 .. m \/ i = m + 1
    OBVIOUS
  <2>3. QED
    BY <1>3, <1>5, <1>6, <2>1, <2>2
<1>8. \A n \in a .. b + 1 : \E i \in DOMAIN new : new[i] = Event(c, n)
  <2> TAKE n \in a .. b + 1
  <2>1. CASE n = b + 1
    <3>1. new[m + 1] = Event(c, n) /\ m + 1 \in 1 .. m + 1
      BY <1>2, <1>5, <2>1
    <3>2. QED
      BY <1>5, <3>1
  <2>2. CASE n \in a .. b
    <3>1. PICK i \in 1 .. m : out[i] = Event(c, n)
      BY <1>1, <2>2 DEF Carries
    <3>2. i \in 1 .. m + 1
      OBVIOUS
    <3>3. QED
      BY <1>5, <3>1, <3>2
  <2>3. QED
    BY <2>1, <2>2
<1>9. ASSUME NEW i \in 1 .. m + 1, NEW j \in 1 .. m + 1, i < j,
             new[i] \in Events, new[i].of = c, new[j] \in Events, new[j].of = c
      PROVE  new[i].number < new[j].number
  <2>1. i \in 1 .. m
    BY <1>9
  <2>2. CASE j \in 1 .. m
    BY <1>1, <1>5, <1>9, <2>1, <2>2 DEF Carries
  <2>3. CASE j = m + 1
    <3>1. new[i].number \in a .. b
      BY <1>6, <1>9, <2>1
    <3>2. new[j].number = b + 1
      BY <1>3, <1>5, <2>3
    <3>3. QED
      BY <3>1, <3>2
  <2>4. QED
    BY <2>2, <2>3
<1>10. QED
  BY <1>2, <1>4, <1>5, <1>7, <1>8, <1>9 DEF Carries

\* The first line is not about c.
LEMMA CarriesBehindOthers ==
  ASSUME NEW out \in Seq(Lines), out # <<>>, NEW c, NEW a \in Nat, NEW b \in Nat,
         Carries(out, c, a, b), Head(out) \in Events => Head(out).of # c
  PROVE  Carries(Tail(out), c, a, b)
<1>1. PICK m \in Nat : m + 1 = Len(out) /\ DOMAIN out = 1 .. m + 1
  <2>1. Len(out) - 1 \in Nat /\ (Len(out) - 1) + 1 = Len(out)
    BY TakenOff
  <2>2. PICK m \in Nat : m + 1 = Len(out)
    BY <2>1
  <2>3. DOMAIN out = 1 .. Len(out)
    OBVIOUS
  <2>4. QED
    BY <2>2, <2>3
<1>2. PICK new : new = Tail(out)
  OBVIOUS
<1>3. DOMAIN new = 1 .. m /\ (\A i \in 1 .. m : new[i] = out[i + 1]) /\ Head(out) = out[1]
  BY <1>1, <1>2, TakenOff
<1>4. \A i \in 1 .. m : i + 1 \in 1 .. m + 1
  OBVIOUS
<1>5. \A i \in DOMAIN new : new[i] \in Events /\ new[i].of = c => new[i].number \in a .. b
  BY <1>1, <1>3, <1>4 DEF Carries
<1>6. \A n \in a .. b : \E i \in DOMAIN new : new[i] = Event(c, n)
  <2> TAKE n \in a .. b
  <2>1. PICK i \in 1 .. m + 1 : out[i] = Event(c, n)
    BY <1>1 DEF Carries
  <2>2. CASE i = 1
    <3>1. Head(out) = Event(c, n) /\ Head(out) \in Lines
      BY <1>3, <2>1, <2>2, TakenOff
    <3>2. Head(out).kind = "event" /\ Head(out).of = c
      BY <3>1 DEF Event
    <3>3. Head(out) \in Events
      BY <3>1, <3>2, OthersAreNoEvents DEF Lines
    <3>4. QED
      BY <3>2, <3>3
  <2>3. CASE i # 1
    <3>1. i - 1 \in 1 .. m /\ (i - 1) + 1 = i
      BY <2>3
    <3>2. new[i - 1] = out[i]
      BY <1>3, <3>1
    <3>3. QED
      BY <1>3, <2>1, <3>1, <3>2
  <2>4. QED
    BY <2>2, <2>3
<1>7. ASSUME NEW i \in 1 .. m, NEW j \in 1 .. m, i < j,
             new[i] \in Events, new[i].of = c, new[j] \in Events, new[j].of = c
      PROVE  new[i].number < new[j].number
  <2>1. i + 1 < j + 1 /\ i + 1 \in 1 .. m + 1 /\ j + 1 \in 1 .. m + 1
    BY <1>7
  <2>2. new[i] = out[i + 1] /\ new[j] = out[j + 1]
    BY <1>3
  <2>3. QED
    BY <1>1, <1>7, <2>1, <2>2 DEF Carries
<1>8. QED
  BY <1>2, <1>3, <1>5, <1>6, <1>7 DEF Carries

\* The first line is the next event of c.
LEMMA CarriesBehindOwn ==
  ASSUME NEW out \in Seq(Lines), out # <<>>, NEW c \in Callers, NEW a \in Nat, NEW b \in Nat,
         Carries(out, c, a, b), Head(out) \in Events, Head(out).of = c
  PROVE  Head(out) = Event(c, a) /\ a <= b /\ Carries(Tail(out), c, a + 1, b)
<1>1. PICK m \in Nat : m + 1 = Len(out) /\ DOMAIN out = 1 .. m + 1
  <2>1. Len(out) - 1 \in Nat /\ (Len(out) - 1) + 1 = Len(out)
    BY TakenOff
  <2>2. PICK m \in Nat : m + 1 = Len(out)
    BY <2>1
  <2>3. DOMAIN out = 1 .. Len(out)
    OBVIOUS
  <2>4. QED
    BY <2>2, <2>3
<1>2. PICK new : new = Tail(out)
  OBVIOUS
<1>3. DOMAIN new = 1 .. m /\ (\A i \in 1 .. m : new[i] = out[i + 1]) /\ Head(out) = out[1]
  BY <1>1, <1>2, TakenOff
<1>4. out[1] \in Events /\ out[1].of = c /\ 1 \in DOMAIN out
  BY <1>1, <1>3
<1>5. out[1].number \in a .. b /\ out[1].number \in Nat
  BY <1>4, EventParts DEF Carries
<1>6. PICK i \in 1 .. m + 1 : out[i] = Event(c, a)
  <2>1. a \in a .. b
    BY <1>5
  <2>2. QED
    BY <1>1, <2>1 DEF Carries
<1>7. out[i] \in Events /\ out[i].of = c /\ out[i].number = a
  BY <1>6, EventType
<1>8. i = 1
  <2>1. SUFFICES ASSUME i # 1 PROVE FALSE
    OBVIOUS
  <2>2. 1 < i
    BY <2>1
  <2>3. out[1].number < out[i].number
    BY <1>1, <1>4, <1>7, <2>2 DEF Carries
  <2>4. QED
    BY <1>5, <1>7, <2>3
<1>9. \A j \in 1 .. m : j + 1 \in 1 .. m + 1 /\ 1 < j + 1
  OBVIOUS
<1>10. \A j \in DOMAIN new : new[j] \in Events /\ new[j].of = c => new[j].number \in a + 1 .. b
  <2> TAKE j \in DOMAIN new
  <2> HAVE new[j] \in Events /\ new[j].of = c
  <2>1. j \in 1 .. m /\ new[j] = out[j + 1]
    BY <1>3
  <2>2. out[j + 1].number \in a .. b
    BY <1>1, <1>9, <2>1 DEF Carries
  <2>3. out[1].number < out[j + 1].number
    BY <1>1, <1>4, <1>9, <2>1 DEF Carries
  <2>4. QED
    BY <1>7, <1>8, <2>1, <2>2, <2>3
<1>11. \A n \in a + 1 .. b : \E j \in DOMAIN new : new[j] = Event(c, n)
  <2> TAKE n \in a + 1 .. b
  <2>1. PICK j \in 1 .. m + 1 : out[j] = Event(c, n)
    <3>1. n \in a .. b
      OBVIOUS
    <3>2. QED
      BY <1>1, <3>1 DEF Carries
  <2>2. j # 1
    BY <1>7, <1>8, <2>1, EventType
  <2>3. j - 1 \in 1 .. m /\ (j - 1) + 1 = j
    BY <2>2
  <2>4. new[j - 1] = out[j]
    BY <1>3, <2>3
  <2>5. QED
    BY <1>3, <2>1, <2>3, <2>4
<1>12. ASSUME NEW j \in 1 .. m, NEW k \in 1 .. m, j < k,
             new[j] \in Events, new[j].of = c, new[k] \in Events, new[k].of = c
      PROVE  new[j].number < new[k].number
  <2>1. j + 1 < k + 1 /\ j + 1 \in 1 .. m + 1 /\ k + 1 \in 1 .. m + 1
    BY <1>12
  <2>2. new[j] = out[j + 1] /\ new[k] = out[k + 1]
    BY <1>3
  <2>3. QED
    BY <1>1, <1>12, <2>1, <2>2 DEF Carries
<1>13. Carries(new, c, a + 1, b)
  BY <1>3, <1>10, <1>11, <1>12 DEF Carries
<1>14. QED
  BY <1>2, <1>3, <1>5, <1>6, <1>8, <1>13
-----------------------------------------------------------------------------
(* Types *)

ProcType ==
    [stage : {"none", "booting", "up", "exited"}, noticed : BOOLEAN, broke : BOOLEAN,
     out : Seq(Lines), serves : SUBSET Callers]

ReaderType == [stage : {"none", "reading", "waiting", "done"}, on : 0 .. MaxStarts]

ReadyStates == {"none", "pending", "set", "failed", "cancelled"}

\* Before a session is open at the sidecar, and from then on.
Before == {"idle", "locking", "spawning", "awaiting", "opening", "sending", "failed"}
After == {"open", "broken", "closing", "parting", "leaving", "closed"}
Writings == [Callers -> 0 .. MaxStarts]

TypeInv ==
    /\ proc \in [Procs -> ProcType]
    /\ starts \in 0 .. MaxStarts /\ current \in 0 .. MaxStarts
    /\ ready \in [Procs -> ReadyStates]
    /\ reader \in [Procs -> ReaderType]
    /\ lockedBy \in SUBSET Callers
    /\ call \in [Callers -> Before \cup After]
    /\ mine \in [Callers -> 0 .. MaxStarts]
    /\ writing \in Writings
    /\ sessions \in SUBSET Callers
    /\ queue \in [Callers -> Seq(Notes)]
    /\ sent \in [Callers -> Nat] /\ got \in [Callers -> Nat]

LEMMA NothingYet == NoProcess \in ProcType /\ NoProcess.stage = "none" /\ ~NoProcess.noticed
                    /\ NoProcess.out = <<>> /\ NoProcess.serves = {}
<1>1. PICK none \in Seq(Lines) : none = <<>>
  <2>1. <<>> \in Seq(Lines)
    OBVIOUS
  <2>2. QED
    BY <2>1, Zenon
<1>2. NoProcess = [stage |-> "none", noticed |-> FALSE, broke |-> FALSE, out |-> none, serves |-> {}]
  BY <1>1, Zenon DEF NoProcess
<1>3. QED
  BY <1>1, <1>2 DEF ProcType

LEMMA InitTypeInv == Init => TypeInv
<1> SUFFICES ASSUME Init PROVE TypeInv
  OBVIOUS
<1>1. <<>> \in Seq(Notes)
  OBVIOUS
<1>2. 0 \in 0 .. MaxStarts /\ 0 \in Nat
  BY ClientAssumption
<1>3. proc \in [Procs -> ProcType]
  BY NothingYet DEF Init
<1>4. reader \in [Procs -> ReaderType]
  BY <1>2 DEF Init, ReaderType
<1>5. queue \in [Callers -> Seq(Notes)]
  BY <1>1 DEF Init
<1>6. QED
  BY <1>2, <1>3, <1>4, <1>5 DEF Init, TypeInv, Before, ReadyStates, Writings

\* What is put into a queue, and what a failure puts into all of them.
LEMMA PutFacts ==
  ASSUME TypeInv, NEW c \in Callers, NEW e \in Notes
  PROVE  /\ Put(c, e) \in Seq(Notes)
         /\ Ended(c) => Put(c, e) = queue[c]
         /\ c \in sessions /\ ~Ended(c) => Put(c, e) = Append(queue[c], e)
BY DEF TypeInv, Put

LEMMA EndedBy ==
  ASSUME NEW q \in Seq(Notes)
  PROVE  Last(Append(q, SidecarError)) = SidecarError /\ Append(q, SidecarError) # <<>>
         /\ Append(q, SidecarError) \in Seq(Notes)
<1>1. PICK e \in Notes : e = SidecarError
  BY DEF Notes
<1>2. QED
  BY <1>1, Appended DEF Last

LEMMA FailQueuesFacts ==
  ASSUME TypeInv
  PROVE  /\ FailQueues \in [Callers -> Seq(Notes)]
         /\ \A c \in Callers :
               /\ c \in sessions \/ Ended(c) => /\ FailQueues[c] # <<>>
                                                /\ Last(FailQueues[c]) = SidecarError
               /\ c \notin sessions => FailQueues[c] = queue[c]
<1>1. SidecarError \in Notes
  BY DEF Notes
<1>2. \A c \in Callers : FailQueues[c] = Put(c, SidecarError)
  BY DEF FailQueues
<1>3. FailQueues \in [Callers -> Seq(Notes)]
  BY <1>1, PutFacts DEF FailQueues
<1>4. ASSUME NEW c \in Callers, c \in sessions \/ Ended(c)
      PROVE  FailQueues[c] # <<>> /\ Last(FailQueues[c]) = SidecarError
  <2>1. CASE Ended(c)
    BY <1>1, <1>2, <2>1, PutFacts DEF Ended
  <2>2. CASE ~Ended(c)
    <3>1. FailQueues[c] = Append(queue[c], SidecarError)
      BY <1>1, <1>2, <1>4, <2>2, PutFacts
    <3>2. queue[c] \in Seq(Notes)
      BY DEF TypeInv
    <3>3. QED
      BY <3>1, <3>2, EndedBy
  <2>3. QED
    BY <2>1, <2>2
<1>5. QED
  BY <1>2, <1>3, <1>4 DEF Put

LEMMA FailReadyType ==
  ASSUME TypeInv
  PROVE  FailReady \in [Procs -> ReadyStates]
BY DEF TypeInv, FailReady, ReadyStates

\* A reader leaves: it is done, or waits for the exit of the current process.
LEMMA LeaveFacts ==
  ASSUME TypeInv, NEW k \in Procs, NEW raised \in BOOLEAN, Leave(k, raised)
  PROVE  /\ reader' \in [Procs -> ReaderType] /\ queue' \in [Callers -> Seq(Notes)]
         /\ ready' \in [Procs -> ReadyStates]
         /\ \A j \in Procs : j # k => reader'[j] = reader[j]
         /\ \/ Running /\ reader'[k].stage = "waiting" /\ reader'[k].on = current
            \/ ~Running /\ reader'[k].stage = "done" /\ queue' = FailQueues
         /\ queue' = queue \/ queue' = FailQueues
<1>1. reader \in [Procs -> ReaderType] /\ current \in 0 .. MaxStarts
      /\ queue \in [Callers -> Seq(Notes)]
      /\ ready \in [Procs -> ReadyStates]
  BY DEF TypeInv
<1>2. CASE Running
  <2>1. PICK new \in ReaderType : new = [stage |-> "waiting", on |-> current]
    BY <1>1 DEF ReaderType
  <2>2. reader' = [reader EXCEPT ![k] = new] /\ new.stage = "waiting" /\ new.on = current
    BY <1>2, <2>1 DEF Leave
  <2>3. (queue' = queue \/ queue' = FailQueues) /\ (ready' = ready \/ ready' = FailReady)
    BY <1>2 DEF Leave
  <2>4. reader'[k] = new /\ reader' \in [Procs -> ReaderType]
        /\ \A j \in Procs : j # k => reader'[j] = reader[j]
    BY <1>1, <2>2
  <2>5. QED
    BY <1>1, <1>2, <2>2, <2>3, <2>4, FailQueuesFacts, FailReadyType
<1>3. CASE ~Running
  <2>1. PICK new \in ReaderType : new = [stage |-> "done", on |-> 0]
    <3>1. 0 \in 0 .. MaxStarts
      BY ClientAssumption
    <3>2. QED
      BY <3>1 DEF ReaderType
  <2>2. reader' = [reader EXCEPT ![k] = new] /\ new.stage = "done"
    BY <1>3, <2>1 DEF Leave
  <2>3. queue' = FailQueues /\ ready' = FailReady
    BY <1>3 DEF Leave
  <2>4. reader'[k] = new /\ reader' \in [Procs -> ReaderType]
        /\ \A j \in Procs : j # k => reader'[j] = reader[j]
    BY <1>1, <2>2
  <2>5. QED
    BY <1>1, <1>3, <2>2, <2>3, <2>4, FailQueuesFacts, FailReadyType
<1>4. QED
  BY <1>2, <1>3
-----------------------------------------------------------------------------
(* The invariant *)

\* The lock of start() is held from the spawn until the process is ready.
LockInv ==
    \A c \in Callers : call[c] \in {"spawning", "awaiting"} => lockedBy = {c}

\* Of the processes that were spawned only the current one may be alive, and
\* the one before is known to be gone when another is spawned.
ProcInv ==
    /\ current <= starts
    /\ \A p \in Procs :
          /\ p > current => proc[p] = NoProcess
          /\ proc[p].noticed => proc[p].stage = "exited"
          /\ p < current => proc[p].stage = "none" \/ proc[p].noticed
    /\ \A c \in Callers : call[c] = "spawning" => ~Running /\ current < starts

\* A reader never falls behind the process it was started for, and ends only
\* when the exit of that process was noticed.
Follows(k) ==
    /\ reader[k].stage # "none" => k <= current /\ proc[k].stage # "none"
    /\ reader[k].stage \in {"reading", "waiting"} => k <= reader[k].on /\ reader[k].on <= current
    /\ reader[k].stage = "done" => proc[k].noticed

ReaderInv == \A k \in Procs : Follows(k)

\* A session is registered before its first line is sent, so that it is told
\* even when the process ends in between.
ToldInv ==
    \A c \in Callers :
        /\ call[c] \in {"sending", "open"} => c \in sessions
        /\ call[c] = "sending" => current \in Procs /\ (reader[current].stage = "done" => Ended(c))
        /\ call[c] = "open" => mine[c] \in Procs /\ (reader[mine[c]].stage = "done" => Ended(c))

\* Events of c come from one process only.
OneSource(p) ==
    /\ \A c \in proc[p].serves : mine[c] = p
    /\ \A i \in DOMAIN proc[p].out : proc[p].out[i] \in Events => mine[proc[p].out[i].of] = p

\* What waits in the queue of c, and what is behind it in the pipe.
InLine(c) ==
    /\ \A i \in DOMAIN queue[c] : queue[c][i] = Event(c, got[c] + i)
    /\ got[c] + Len(queue[c]) <= sent[c]
    /\ Carries(proc[mine[c]].out, c, got[c] + Len(queue[c]) + 1, sent[c])

OrderInv ==
    /\ \A p \in Procs : OneSource(p)
    /\ \A c \in Callers :
          /\ call[c] \in Before => /\ mine[c] = 0 /\ sent[c] = 0 /\ got[c] = 0
                                   /\ queue[c] = <<>> \/ Ended(c)
          /\ call[c] = "open" /\ ~Ended(c) => InLine(c)

IInv == TypeInv /\ LockInv /\ ProcInv /\ ReaderInv /\ ToldInv /\ OrderInv

LEMMA InitIInv == Init => IInv
<1> SUFFICES ASSUME Init PROVE IInv
  OBVIOUS
<1>1. TypeInv
  BY InitTypeInv
<1>2. \A p \in Procs : proc[p] = NoProcess /\ reader[p].stage = "none"
  BY DEF Init
<1>3. LockInv
  BY DEF Init, LockInv
<1>4. ProcInv
  BY <1>2, NothingYet, ClientAssumption DEF Init, ProcInv, Procs
<1>5. ReaderInv
  BY <1>2 DEF ReaderInv, Follows
<1>6. ToldInv
  BY DEF Init, ToldInv
<1>7. OrderInv
  <2>1. \A p \in Procs : OneSource(p)
    BY <1>2, NothingYet DEF OneSource
  <2>2. \A c \in Callers : /\ call[c] = "idle" /\ mine[c] = 0 /\ sent[c] = 0 /\ got[c] = 0
                           /\ queue[c] = <<>>
    BY DEF Init
  <2>3. QED
    BY <2>1, <2>2 DEF OrderInv
<1>8. QED
  BY <1>1, <1>3, <1>4, <1>5, <1>6, <1>7 DEF IInv

\* A line is taken from the pipe.
LEMMA ReadLineFacts ==
  ASSUME IInv, NEW k \in Procs, ReadLine(k)
  PROVE  \E p \in Procs, line \in Lines, new \in ProcType :
            /\ p = reader[k].on /\ reader[k].stage = "reading"
            /\ proc[p].out \in Seq(Lines) /\ proc[p].out # <<>> /\ line = Head(proc[p].out)
            /\ new = [proc[p] EXCEPT !.out = Tail(proc[p].out)]
            /\ proc' = [proc EXCEPT ![p] = new]
            /\ \/ /\ line = Ready
                  /\ ready' \in [Procs -> ReadyStates]
                  /\ reader' = [reader EXCEPT ![k].on = current] /\ queue' = queue
               \/ /\ line \in Events
                  /\ queue' = [queue EXCEPT ![line.of] = Put(line.of, line)]
                  /\ reader' = [reader EXCEPT ![k].on = current] /\ ready' = ready
               \/ Leave(k, TRUE) /\ line = Garbage
<1>1. TypeInv /\ ReaderInv
  BY DEF IInv
<1>2. reader[k].stage = "reading"
  BY DEF ReadLine
<1>3. PICK p \in Procs : p = reader[k].on
  BY <1>1, <1>2, ClientAssumption DEF ReaderInv, Follows, TypeInv, ReaderType, Procs
<1>4. PICK out \in Seq(Lines) : out = proc[p].out
  BY <1>1 DEF TypeInv, ProcType
<1>5. out # <<>> /\ proc' = [proc EXCEPT ![p].out = Tail(@)]
  BY <1>3, <1>4 DEF ReadLine
<1>6. PICK line \in Lines : line = Head(out)
  BY <1>5, TakenOff
<1>7. PICK rest \in Seq(Lines) : rest = Tail(out)
  BY <1>5, TakenOff
<1>8. PICK new : new = [proc[p] EXCEPT !.out = rest]
  OBVIOUS
<1>9. proc[p] \in ProcType /\ new \in ProcType
  BY <1>1, <1>8 DEF TypeInv, ProcType
<1>10. proc' = [proc EXCEPT ![p] = new]
  BY <1>4, <1>5, <1>7, <1>8
<1>11. /\ p = reader[k].on /\ reader[k].stage = "reading"
       /\ proc[p].out \in Seq(Lines) /\ proc[p].out # <<>> /\ line = Head(proc[p].out)
       /\ new = [proc[p] EXCEPT !.out = Tail(proc[p].out)]
  BY <1>2, <1>3, <1>4, <1>5, <1>6, <1>7, <1>8
<1>12. CASE line.kind = "ready" /\ reader' = [reader EXCEPT ![k].on = current] /\ queue' = queue
            /\ ready' = IF ready[starts] = "pending" THEN [ready EXCEPT ![starts] = "set"] ELSE ready
  <2>1. line = Ready
    BY <1>12, OthersAreNoEvents, EventParts DEF Lines
  <2>2. ready' \in [Procs -> ReadyStates]
    BY <1>1, <1>12 DEF TypeInv, ReadyStates
  <2>3. QED
    BY <1>9, <1>10, <1>11, <1>12, <2>1, <2>2, Zenon
<1>13. CASE line.kind = "event" /\ reader' = [reader EXCEPT ![k].on = current] /\ ready' = ready
            /\ queue' = [queue EXCEPT ![line.of] = Put(line.of, line)]
  <2>1. line \in Events
    BY <1>13, OthersAreNoEvents DEF Lines
  <2>2. QED
    BY <1>9, <1>10, <1>11, <1>13, <2>1, Zenon
<1>14. CASE line.kind = "garbage" /\ Leave(k, TRUE)
  <2>1. line = Garbage
    BY <1>14, OthersAreNoEvents, EventParts DEF Lines
  <2>2. QED
    BY <1>9, <1>10, <1>11, <1>14, <2>1, Zenon
<1>15. QED
  <2>1. \/ /\ line.kind = "ready"
           /\ ready' = IF ready[starts] = "pending" THEN [ready EXCEPT ![starts] = "set"] ELSE ready
           /\ reader' = [reader EXCEPT ![k].on = current]
           /\ UNCHANGED queue
        \/ /\ line.kind = "event"
           /\ queue' = [queue EXCEPT ![line.of] = Put(line.of, line)]
           /\ reader' = [reader EXCEPT ![k].on = current]
           /\ UNCHANGED ready
        \/ line.kind = "garbage" /\ Leave(k, TRUE)
    BY <1>3, <1>4, <1>6, Zenon DEF ReadLine
  <2>2. QED
    BY <2>1, <1>12, <1>13, <1>14
-----------------------------------------------------------------------------
(* The steps of a flow *)

LEMMA CallMoves ==
  ASSUME TypeInv, NEW c \in Callers, NEW to \in Before \cup After,
         call' = [call EXCEPT ![c] = to]
  PROVE  /\ call' \in [Callers -> Before \cup After] /\ call'[c] = to
         /\ \A d \in Callers : d # c => call'[d] = call[d]
BY DEF TypeInv

\* A flow that runs has a process whose reader is not done.
LEMMA RunningRead ==
  ASSUME IInv, Running
  PROVE  current \in Procs /\ reader[current].stage # "done" /\ ~proc[current].noticed
<1>1. current \in Procs
  BY ClientAssumption DEF IInv, TypeInv, Running, Procs
<1>2. QED
  BY <1>1 DEF IInv, ReaderInv, Follows, Running

\* Steps that move a flow on before or after its session is open.
LEMMA OnlyCallMoves ==
  ASSUME IInv, NEW c \in Callers, NEW to \in Before \cup After,
         call' = [call EXCEPT ![c] = to], to # "open",
         to \in Before => call[c] \in Before,
         UNCHANGED <<proc, current, reader, mine, queue, sent, got>>,
         starts' \in 0 .. MaxStarts, starts <= starts', ready' \in [Procs -> ReadyStates],
         sessions' \in SUBSET Callers, sessions \subseteq sessions',
         writing' \in Writings, lockedBy' \in SUBSET Callers,
         to \in {"spawning", "awaiting"} => lockedBy' = {c},
         \A d \in Callers : d # c /\ call[d] \in {"spawning", "awaiting"} => lockedBy' = {d},
         to = "spawning" => ~Running /\ current < starts',
         to = "sending" => c \in sessions' /\ Running
  PROVE  IInv'
<1>1. TypeInv /\ LockInv /\ ProcInv /\ ReaderInv /\ ToldInv /\ OrderInv
  BY DEF IInv
<1>2. /\ call' \in [Callers -> Before \cup After] /\ call'[c] = to
      /\ \A d \in Callers : d # c => call'[d] = call[d]
  BY <1>1, CallMoves
<1>3. TypeInv'
  BY <1>1, <1>2 DEF TypeInv, ReadyStates
<1>4. LockInv'
  BY <1>2 DEF LockInv
<1>5. ProcInv'
  <2>1. Running' <=> Running
    BY DEF Running
  <2>2. \A d \in Callers : call'[d] = "spawning" => ~Running /\ current < starts'
    BY <1>1, <1>2 DEF ProcInv, TypeInv
  <2>3. current <= starts'
    BY <1>1 DEF ProcInv, TypeInv
  <2>4. QED
    BY <1>1, <2>1, <2>2, <2>3 DEF ProcInv
<1>6. ReaderInv'
  BY <1>1 DEF ReaderInv, Follows
<1>7. ToldInv'
  <2>1. ASSUME to = "sending" PROVE current \in Procs /\ reader[current].stage # "done"
    BY <2>1, RunningRead
  <2>2. QED
    BY <1>1, <1>2, <2>1 DEF ToldInv, Ended
<1>8. OrderInv'
  BY <1>1, <1>2 DEF OrderInv, OneSource, InLine, Ended
<1>9. QED
  BY <1>3, <1>4, <1>5, <1>6, <1>7, <1>8 DEF IInv

LEMMA AsBefore ==
  ASSUME IInv
  PROVE  /\ starts \in 0 .. MaxStarts /\ starts <= starts
         /\ ready \in [Procs -> ReadyStates]
         /\ sessions \in SUBSET Callers /\ lockedBy \in SUBSET Callers
         /\ writing \in Writings
         /\ \A d \in Callers : call[d] \in {"spawning", "awaiting"} => lockedBy = {d}
BY ClientAssumption DEF IInv, TypeInv, LockInv

LEMMA StartInv ==
  ASSUME IInv, NEW c \in Callers, Start(c)
  PROVE  IInv'
<1>1. PICK to \in {"opening", "locking"} : call' = [call EXCEPT ![c] = to]
  BY DEF Start
<1>2. call[c] = "idle" /\ UNCHANGED <<proc, starts, ready, current, reader, lockedBy, mine,
                                      writing, sessions, queue, sent, got>>
  BY DEF Start
<1>3. to \in Before \cup After /\ call[c] \in Before
  BY <1>2 DEF Before
<1>4. QED
  BY <1>1, <1>2, <1>3, AsBefore, OnlyCallMoves

LEMMA LockedInv ==
  ASSUME IInv, NEW c \in Callers, Locked(c)
  PROVE  IInv'
<1>1. TypeInv /\ LockInv /\ ProcInv
  BY DEF IInv
<1>2. /\ call[c] = "locking" /\ lockedBy = {}
      /\ UNCHANGED <<proc, current, reader, mine, writing, sessions, queue, sent, got>>
  BY DEF Locked
<1>3. \A d \in Callers : call[d] \notin {"spawning", "awaiting"}
  BY <1>1, <1>2 DEF LockInv
<1>4. CASE Running
  <2>1. call' = [call EXCEPT ![c] = "opening"] /\ UNCHANGED <<lockedBy, starts, ready>>
    BY <1>4 DEF Locked
  <2>2. "opening" \in Before \cup After /\ call[c] \in Before
    BY <1>2 DEF Before
  <2>3. QED
    BY <1>2, <1>3, <2>1, <2>2, AsBefore, OnlyCallMoves
<1>5. CASE ~Running
  <2>1. /\ call' = [call EXCEPT ![c] = "spawning"] /\ lockedBy' = {c}
        /\ starts < MaxStarts /\ starts' = starts + 1
        /\ ready' = [ready EXCEPT ![starts'] = "pending"]
    BY <1>5 DEF Locked
  <2>2. /\ starts' \in 0 .. MaxStarts /\ starts <= starts' /\ current < starts'
        /\ ready' \in [Procs -> ReadyStates]
    <3>1. starts \in 0 .. MaxStarts /\ current \in 0 .. MaxStarts /\ current <= starts
          /\ MaxStarts \in Nat
      BY <1>1, ClientAssumption DEF TypeInv, ProcInv
    <3>2. starts' \in 0 .. MaxStarts /\ starts <= starts' /\ current < starts'
      BY <2>1, <3>1
    <3>3. PICK n \in 0 .. MaxStarts : ready' = [ready EXCEPT ![n] = "pending"]
      BY <2>1, <3>2
    <3>4. ready' \in [Procs -> ReadyStates]
      BY <1>1, <3>3 DEF TypeInv, ReadyStates
    <3>5. QED
      BY <3>2, <3>4
  <2>3. "spawning" \in Before \cup After /\ call[c] \in Before /\ {c} \in SUBSET Callers
    BY <1>2 DEF Before
  <2>4. QED
    BY <1>2, <1>3, <1>5, <2>1, <2>2, <2>3, AsBefore, OnlyCallMoves
<1>6. QED
  BY <1>4, <1>5

\* The lock is given back by its holder.
LEMMA StartEndsInv ==
  ASSUME IInv, NEW c \in Callers, SpawnFails(c) \/ ReadyOrFailed(c) \/ StartTimesOut(c)
  PROVE  IInv'
<1>1. TypeInv /\ LockInv /\ starts \in Int
  BY DEF IInv, TypeInv
<1>2. /\ call[c] \in {"spawning", "awaiting"} /\ lockedBy' = {}
      /\ UNCHANGED <<proc, starts, current, reader, mine, writing, sessions, queue, sent, got>>
  BY DEF SpawnFails, ReadyOrFailed, StartTimesOut
<1>3. PICK to \in {"opening", "failed"} : call' = [call EXCEPT ![c] = to]
  BY DEF SpawnFails, ReadyOrFailed, StartTimesOut
<1>4. ready' \in [Procs -> ReadyStates]
  BY <1>1 DEF SpawnFails, ReadyOrFailed, StartTimesOut, TypeInv, ReadyStates
<1>5. \A d \in Callers : d # c => call[d] \notin {"spawning", "awaiting"}
  BY <1>1, <1>2 DEF LockInv
<1>6. to \in Before \cup After /\ call[c] \in Before /\ {} \in SUBSET Callers
  BY <1>2 DEF Before
<1>7. QED
  BY <1>2, <1>3, <1>4, <1>5, <1>6, AsBefore, OnlyCallMoves

LEMMA RegisterInv ==
  ASSUME IInv, NEW c \in Callers, Register(c)
  PROVE  IInv'
<1>1. TypeInv /\ LockInv
  BY DEF IInv
<1>2. /\ call[c] = "opening" /\ sessions' = sessions \cup {c}
      /\ UNCHANGED <<proc, starts, ready, current, reader, lockedBy, mine, writing, queue, sent,
                     got>>
  BY DEF Register
<1>3. PICK to \in {"sending", "failed"} :
        call' = [call EXCEPT ![c] = to] /\ (to = "sending" => Running)
  BY DEF Register
<1>4. to \in Before \cup After /\ call[c] \in Before
      /\ sessions' \in SUBSET Callers /\ sessions \subseteq sessions' /\ c \in sessions'
  BY <1>1, <1>2 DEF Before, TypeInv
<1>5. QED
  BY <1>2, <1>3, <1>4, AsBefore, OnlyCallMoves

\* The flow goes on to its end; nothing else moves but the write lock.
LEMMA GoesOn ==
  ASSUME IInv, NEW c \in Callers, NEW to \in After, to # "open",
         call' = [call EXCEPT ![c] = to], writing' \in Writings,
         UNCHANGED <<proc, starts, ready, current, reader, lockedBy, mine, sessions, queue,
                     sent, got>>
  PROVE  IInv'
<1>1. to \in Before \cup After /\ to \notin Before /\ to \notin {"spawning", "awaiting", "sending"}
  BY DEF Before, After
<1>2. QED
  BY <1>1, AsBefore, OnlyCallMoves

LEMMA WritingSet ==
  ASSUME TypeInv, NEW c \in Callers, NEW p \in 0 .. MaxStarts,
         writing' = [writing EXCEPT ![c] = p]
  PROVE  writing' \in Writings
BY DEF TypeInv, Writings

LEMMA NobodyWrites == 0 \in 0 .. MaxStarts
BY ClientAssumption

LEMMA EventTimesOutInv ==
  ASSUME IInv, NEW c \in Callers, EventTimesOut(c)
  PROVE  IInv'
<1>1. writing \in Writings
  BY AsBefore
<1>2. /\ call' = [call EXCEPT ![c] = "closing"]
      /\ UNCHANGED <<proc, starts, ready, current, reader, lockedBy, mine, writing, sessions,
                     queue, sent, got>>
  BY DEF EventTimesOut
<1>3. "closing" \in After
  BY DEF After
<1>4. QED
  BY <1>1, <1>2, <1>3, GoesOn

LEMMA SendCloseInv ==
  ASSUME IInv, NEW c \in Callers, SendClose(c)
  PROVE  IInv'
<1>1. TypeInv /\ current \in 0 .. MaxStarts
  BY DEF IInv, TypeInv
<1>2. /\ call' = [call EXCEPT ![c] = "leaving"] /\ writing' = [writing EXCEPT ![c] = current]
      /\ UNCHANGED <<proc, starts, ready, current, reader, lockedBy, mine, sessions,
                     queue, sent, got>>
  BY DEF SendClose
<1>3. "leaving" \in After /\ writing' \in Writings
  BY <1>1, <1>2, WritingSet DEF After
<1>4. QED
  BY <1>2, <1>3, GoesOn

LEMMA DrainRaisesInv ==
  ASSUME IInv, NEW c \in Callers, DrainRaises(c)
  PROVE  IInv'
<1>1. TypeInv
  BY DEF IInv
<1>2. /\ call' = [call EXCEPT ![c] = "broken"] /\ writing' = [writing EXCEPT ![c] = 0]
      /\ UNCHANGED <<proc, starts, ready, current, reader, lockedBy, mine, sessions,
                     queue, sent, got>>
  BY DEF DrainRaises
<1>3. "broken" \in After /\ writing' \in Writings
  BY <1>1, <1>2, WritingSet, NobodyWrites DEF After
<1>4. QED
  BY <1>2, <1>3, GoesOn

LEMMA DrainedInv ==
  ASSUME IInv, NEW c \in Callers, Drained(c)
  PROVE  IInv'
<1>1. TypeInv /\ LockInv /\ ProcInv /\ ReaderInv /\ ToldInv /\ OrderInv
  BY DEF IInv
<1>2. /\ writing' = [writing EXCEPT ![c] = 0]
      /\ UNCHANGED <<proc, starts, ready, current, reader, lockedBy, call, mine, sessions,
                     queue, sent, got>>
  BY DEF Drained
<1>3. TypeInv'
  BY <1>1, <1>2, WritingSet, NobodyWrites DEF TypeInv
<1>4. LockInv' /\ ProcInv' /\ ReaderInv' /\ ToldInv'
  BY <1>1, <1>2 DEF LockInv, ProcInv, Running, ReaderInv, Follows, ToldInv, Ended
<1>5. OrderInv'
  BY <1>1, <1>2 DEF OrderInv, OneSource, InLine, Ended
<1>6. QED
  BY <1>3, <1>4, <1>5 DEF IInv

\* The pipes and the queues are left as they are.
LEMMA OrderKept ==
  ASSUME IInv, NEW c \in Callers, NEW to \in Before \cup After,
         call' = [call EXCEPT ![c] = to], to # "open",
         to \in Before => call[c] \in Before,
         UNCHANGED <<mine, queue, sent, got>>,
         \A p \in Procs : proc'[p].out = proc[p].out /\ proc'[p].serves \subseteq proc[p].serves
  PROVE  OrderInv'
<1>1. TypeInv /\ ToldInv /\ OrderInv
  BY DEF IInv
<1>2. call'[c] = to /\ \A d \in Callers : d # c => call'[d] = call[d]
  BY <1>1, CallMoves
<1>3. ASSUME NEW p \in Procs PROVE OneSource(p)'
  BY <1>1 DEF OrderInv, OneSource
<1>4. ASSUME NEW d \in Callers, call'[d] = "open", ~Ended(d)' PROVE InLine(d)'
  <2>1. d # c /\ call[d] = "open" /\ mine[d] \in Procs
    BY <1>1, <1>2, <1>4 DEF ToldInv
  <2>2. ~Ended(d)
    BY <1>4 DEF Ended
  <2>3. InLine(d)
    BY <1>1, <2>1, <2>2 DEF OrderInv
  <2>4. proc'[mine[d]].out = proc[mine[d]].out
    BY <2>1
  <2>5. QED
    BY <2>3, <2>4 DEF InLine
<1>5. ASSUME NEW d \in Callers, call'[d] \in Before
      PROVE  mine[d] = 0 /\ sent[d] = 0 /\ got[d] = 0 /\ (queue[d] = <<>> \/ Ended(d))
  <2>1. call[d] \in Before
    BY <1>2, <1>5
  <2>2. QED
    BY <1>1, <2>1 DEF OrderInv
<1>6. QED
  BY <1>3, <1>4, <1>5 DEF OrderInv, Ended

\* The process that is spawned is the only one alive.
LEMMA SpawnedInv ==
  ASSUME IInv, NEW c \in Callers, Spawned(c)
  PROVE  IInv'
<1>1. TypeInv /\ LockInv /\ ProcInv /\ ReaderInv /\ ToldInv /\ OrderInv
  BY DEF IInv
<1>2. /\ call[c] = "spawning" /\ current' = starts /\ call' = [call EXCEPT ![c] = "awaiting"]
      /\ proc' = [proc EXCEPT ![starts].stage = "booting"]
      /\ reader' = [reader EXCEPT ![starts] = [stage |-> "reading", on |-> starts]]
      /\ UNCHANGED <<starts, ready, lockedBy, mine, writing, sessions, queue, sent, got>>
  BY DEF Spawned
<1>3. /\ ~Running /\ current < starts /\ lockedBy = {c}
      /\ starts \in 0 .. MaxStarts /\ current \in 0 .. MaxStarts /\ MaxStarts \in Nat
  BY <1>1, <1>2, ClientAssumption DEF LockInv, ProcInv, TypeInv
<1>4. PICK p \in Procs : p = starts /\ p > current
  <2>1. starts \in 1 .. MaxStarts
    BY <1>3
  <2>2. QED
    BY <1>3, <2>1 DEF Procs
<1>5. proc[p] = NoProcess
  BY <1>1, <1>4 DEF ProcInv
<1>6. PICK new : new = [NoProcess EXCEPT !.stage = "booting"]
  OBVIOUS
<1>7. /\ new \in ProcType /\ new.stage = "booting" /\ ~new.noticed
      /\ new.out = NoProcess.out /\ new.serves = NoProcess.serves
  BY <1>6, NothingYet DEF ProcType
<1>8. PICK r \in ReaderType : r = [stage |-> "reading", on |-> p]
  <2>1. p \in 0 .. MaxStarts
    BY <1>3, <1>4
  <2>2. QED
    BY <2>1 DEF ReaderType
<1>9. r.stage = "reading" /\ r.on = p
  BY <1>8
<1>10. /\ proc' \in [Procs -> ProcType] /\ proc'[p] = new
       /\ \A q \in Procs : q # p => proc'[q] = proc[q]
  <2>1. proc' = [proc EXCEPT ![p] = new]
    BY <1>2, <1>4, <1>5, <1>6
  <2>2. QED
    BY <1>1, <1>7, <2>1 DEF TypeInv
<1>11. /\ reader' \in [Procs -> ReaderType] /\ reader'[p] = r
       /\ \A q \in Procs : q # p => reader'[q] = reader[q]
  BY <1>1, <1>2, <1>4, <1>8 DEF TypeInv
<1>12. "awaiting" \in Before \cup After /\ call[c] \in Before
  BY <1>2 DEF Before
<1>13. /\ call' \in [Callers -> Before \cup After] /\ call'[c] = "awaiting"
       /\ \A d \in Callers : d # c => call'[d] = call[d]
  BY <1>1, <1>2, <1>12, CallMoves
<1>14. TypeInv'
  BY <1>1, <1>2, <1>10, <1>11, <1>13 DEF TypeInv
<1>15. LockInv'
  BY <1>1, <1>2, <1>3, <1>13 DEF LockInv
<1>16. ProcInv'
  <2>1. \A d \in Callers : call'[d] # "spawning"
    <3>1. ASSUME NEW d \in Callers, d # c, call[d] = "spawning" PROVE FALSE
      <4>1. lockedBy = {d}
        BY <1>1, <3>1 DEF LockInv
      <4>2. QED
        BY <1>3, <3>1, <4>1
    <3>2. QED
      BY <1>13, <3>1
  <2>2. ASSUME NEW q \in Procs, q > p PROVE proc'[q] = NoProcess
    <3>1. q > current /\ q # p
      BY <1>3, <1>4, <2>2 DEF Procs
    <3>2. QED
      BY <1>1, <1>10, <3>1 DEF ProcInv
  <2>3. ASSUME NEW q \in Procs PROVE proc'[q].noticed => proc'[q].stage = "exited"
    BY <1>1, <1>7, <1>10 DEF ProcInv
  <2>4. ASSUME NEW q \in Procs, q < p PROVE proc'[q].stage = "none" \/ proc'[q].noticed
    <3>1. q # p /\ (q < current \/ q = current \/ q > current)
      BY <1>3, <1>4, <2>4 DEF Procs
    <3>2. CASE q < current
      BY <1>1, <1>10, <3>1, <3>2 DEF ProcInv
    <3>3. CASE q = current
      <4>1. proc[q].noticed
        BY <1>3, <3>3 DEF Running, Procs
      <4>2. QED
        BY <1>10, <3>1, <4>1
    <3>4. CASE q > current
      <4>1. proc'[q] = NoProcess
        BY <1>1, <1>10, <3>1, <3>4 DEF ProcInv
      <4>2. QED
        BY <4>1, NothingYet
    <3>5. QED
      BY <3>1, <3>2, <3>3, <3>4
  <2>5. current' <= starts'
    BY <1>2, <1>3
  <2>6. QED
    BY <1>2, <1>4, <2>1, <2>2, <2>3, <2>4, <2>5 DEF ProcInv
<1>17. ASSUME NEW k \in Procs PROVE Follows(k)'
  <2>1. CASE k = p
    BY <1>2, <1>4, <1>7, <1>9, <1>10, <1>11, <2>1 DEF Procs, Follows
  <2>2. CASE k # p
    <3>1. reader'[k] = reader[k] /\ proc'[k] = proc[k]
      BY <1>10, <1>11, <2>2
    <3>2. k \in Int /\ reader[k].on \in Int
      BY <1>1, <1>3 DEF TypeInv, ReaderType, Procs
    <3>3. /\ reader[k].stage # "none" => k <= current /\ proc[k].stage # "none"
          /\ reader[k].stage \in {"reading", "waiting"} => k <= reader[k].on /\ reader[k].on <= current
          /\ reader[k].stage = "done" => proc[k].noticed
      BY <1>1 DEF ReaderInv, Follows
    <3>4. \A x \in Int : x <= current => x <= starts
      BY <1>3
    <3>5. QED
      BY <1>2, <3>1, <3>2, <3>3, <3>4 DEF Follows
  <2>3. QED
    BY <2>1, <2>2
<1>18. ToldInv'
  <2>1. reader'[p].stage = "reading" /\ current' = p
    BY <1>2, <1>4, <1>9, <1>11
  <2>2. ASSUME NEW d \in Callers, mine[d] \in Procs, reader[mine[d]].stage = "done" => Ended(d)
        PROVE  reader'[mine[d]].stage = "done" => Ended(d)
    BY <1>11, <2>1, <2>2
  <2>3. QED
    BY <1>1, <1>2, <1>13, <2>1, <2>2 DEF ToldInv, Ended
<1>19. OrderInv'
  <2>1. \A q \in Procs : proc'[q].out = proc[q].out /\ proc'[q].serves \subseteq proc[q].serves
    BY <1>5, <1>7, <1>10
  <2>2. QED
    BY <1>2, <1>12, <2>1, OrderKept
<1>20. QED
  BY <1>14, <1>15, <1>16, <1>17, <1>18, <1>19 DEF IInv, ReaderInv
\* No process is spawned, exits or is noticed to have exited.
LivesOn ==
    /\ proc' \in [Procs -> ProcType]
    /\ \A p \in Procs : /\ proc'[p].stage = proc[p].stage
                        /\ proc'[p].noticed <=> proc[p].noticed
                        /\ p > current /\ proc[p] = NoProcess => proc'[p] = NoProcess

LEMMA LivesOnInv ==
  ASSUME IInv, LivesOn, UNCHANGED <<starts, current>>,
         \A d \in Callers : call'[d] = "spawning" => call[d] = "spawning"
  PROVE  /\ ProcInv' /\ (Running' <=> Running)
         /\ \A k \in Procs : reader'[k] = reader[k] => Follows(k)'
<1>1. TypeInv /\ ProcInv /\ ReaderInv
  BY DEF IInv
<1>2. current = 0 \/ current \in Procs
  BY <1>1, ClientAssumption DEF TypeInv, Procs
<1>3. Running' <=> Running
  BY <1>2 DEF Running, LivesOn
<1>4. ProcInv'
  BY <1>1, <1>3 DEF ProcInv, LivesOn
<1>5. ASSUME NEW k \in Procs, reader'[k] = reader[k] PROVE Follows(k)'
  BY <1>1, <1>5 DEF ReaderInv, Follows, LivesOn
<1>6. QED
  BY <1>3, <1>4, <1>5

\* A flow that is done with its session no longer counts.
LEMMA SessionLeft ==
  ASSUME IInv, NEW c \in Callers, call[c] \in After,
         NEW to \in {"closing", "closed"}, writing' \in Writings, call' = [call EXCEPT ![c] = to],
         NEW q \in Seq(Notes), queue' = [queue EXCEPT ![c] = q],
         NEW n \in Nat, got' = [got EXCEPT ![c] = n],
         sessions' \in SUBSET sessions, sessions \ {c} \subseteq sessions',
         LivesOn,
         \A p \in Procs : proc'[p].out = proc[p].out /\ proc'[p].serves \subseteq proc[p].serves,
         UNCHANGED <<starts, ready, current, reader, lockedBy, mine, sent>>
  PROVE  IInv'
<1>1. TypeInv /\ LockInv /\ ToldInv /\ OrderInv
  BY DEF IInv
<1>2. to \in Before \cup After /\ to \notin Before
  BY DEF Before, After
<1>3. /\ call' \in [Callers -> Before \cup After] /\ call'[c] = to
      /\ \A d \in Callers : d # c => call'[d] = call[d]
  BY <1>1, <1>2, CallMoves
<1>4. /\ queue' \in [Callers -> Seq(Notes)] /\ got' \in [Callers -> Nat]
      /\ \A d \in Callers : d # c => queue'[d] = queue[d] /\ got'[d] = got[d]
  BY <1>1 DEF TypeInv
<1>5. TypeInv'
  BY <1>1, <1>3, <1>4 DEF TypeInv, LivesOn
<1>6. LockInv'
  BY <1>1, <1>3 DEF LockInv
<1>7. ProcInv' /\ ReaderInv'
  BY <1>3, LivesOnInv DEF ReaderInv
<1>8. ASSUME NEW d \in Callers, d # c PROVE Ended(d)' <=> Ended(d)
  BY <1>4, <1>8 DEF Ended
<1>9. ToldInv'
  BY <1>1, <1>3, <1>8 DEF ToldInv
<1>10. OrderInv'
  <2>1. ASSUME NEW p \in Procs PROVE OneSource(p)'
    BY <1>1 DEF OrderInv, OneSource
  <2>2. ASSUME NEW d \in Callers, call'[d] = "open", ~Ended(d)' PROVE InLine(d)'
    <3>1. d # c /\ call[d] = "open" /\ mine[d] \in Procs /\ ~Ended(d)
      BY <1>1, <1>3, <1>8, <2>2 DEF ToldInv
    <3>2. InLine(d) /\ proc'[mine[d]].out = proc[mine[d]].out
      BY <1>1, <3>1 DEF OrderInv
    <3>3. QED
      BY <1>4, <3>1, <3>2 DEF InLine
  <2>3. ASSUME NEW d \in Callers, call'[d] \in Before
        PROVE  mine[d] = 0 /\ sent[d] = 0 /\ got'[d] = 0 /\ (queue'[d] = <<>> \/ Ended(d)')
    <3>1. d # c /\ call[d] \in Before
      BY <1>2, <1>3, <2>3
    <3>2. QED
      BY <1>1, <1>4, <1>8, <3>1 DEF OrderInv
  <2>4. QED
    BY <2>1, <2>2, <2>3 DEF OrderInv
<1>11. QED
  BY <1>5, <1>6, <1>7, <1>9, <1>10 DEF IInv

LEMMA ForgottenInv ==
  ASSUME IInv, NEW c \in Callers, call[c] \in After, Forgotten(c), writing' \in Writings
  PROVE  IInv'
<1>1. TypeInv /\ ProcInv
  BY DEF IInv
<1>2. /\ call' = [call EXCEPT ![c] = "closed"]
      /\ sessions' = sessions \ {c} /\ queue' = [queue EXCEPT ![c] = <<>>]
      /\ proc' = IF Running THEN [proc EXCEPT ![current].serves = @ \ {c}] ELSE proc
      /\ UNCHANGED <<starts, ready, current, reader, lockedBy, mine, sent, got>>
  BY DEF Forgotten
<1>3. PICK q \in Seq(Notes) : q = <<>>
  <2>1. <<>> \in Seq(Notes)
    OBVIOUS
  <2>2. QED
    BY <2>1, Zenon
<1>4. PICK n \in Nat : n = got[c]
  BY <1>1 DEF TypeInv
<1>5. got' = [got EXCEPT ![c] = n]
  BY <1>1, <1>2, <1>4 DEF TypeInv
<1>6. queue' = [queue EXCEPT ![c] = q]
  BY <1>2, <1>3, Zenon
<1>7. sessions' \in SUBSET sessions /\ sessions \ {c} \subseteq sessions'
  BY <1>2
<1>8. LivesOn /\ \A p \in Procs : proc'[p].out = proc[p].out /\ proc'[p].serves \subseteq proc[p].serves
  <2>1. CASE ~Running
    <3>1. proc' = proc
      BY <1>2, <2>1
    <3>2. QED
      BY <1>1, <3>1 DEF LivesOn, TypeInv
  <2>2. CASE Running
    <3>1. PICK p \in Procs : p = current
      BY <1>1, <2>2, ClientAssumption DEF TypeInv, Running, Procs
    <3>2. PICK new : new = [proc[p] EXCEPT !.serves = @ \ {c}]
      OBVIOUS
    <3>3. proc[p] \in ProcType
      BY <1>1 DEF TypeInv
    <3>4. /\ new \in ProcType /\ new.stage = proc[p].stage /\ new.noticed = proc[p].noticed
          /\ new.out = proc[p].out /\ new.serves = proc[p].serves \ {c}
      BY <3>2, <3>3 DEF ProcType
    <3>5. proc[p] = NoProcess => new = NoProcess
      <4>1. SUFFICES ASSUME proc[p] = NoProcess PROVE new = NoProcess
        OBVIOUS
      <4>2. new = [NoProcess EXCEPT !.serves = {} \ {c}]
        BY <3>2, <4>1, NothingYet
      <4>3. QED
        BY <4>2, NothingYet DEF NoProcess
    <3>6. proc' = [proc EXCEPT ![p] = new]
      BY <1>2, <2>2, <3>1, <3>2
    <3>7. /\ proc' \in [Procs -> ProcType] /\ proc'[p] = new
          /\ \A r \in Procs : r # p => proc'[r] = proc[r]
      BY <1>1, <3>4, <3>6 DEF TypeInv
    <3>8. QED
      BY <3>4, <3>5, <3>7 DEF LivesOn
  <2>3. QED
    BY <2>1, <2>2
<1>9. QED
  BY <1>2, <1>5, <1>6, <1>7, <1>8, SessionLeft

LEMMA CloseInv ==
  ASSUME IInv, NEW c \in Callers, Close(c)
  PROVE  IInv'
<1>1. call[c] \in After /\ "parting" \in After /\ UNCHANGED writing /\ writing \in Writings
  BY AsBefore DEF Close, After
<1>2. CASE Running
  <2>1. /\ call' = [call EXCEPT ![c] = "parting"]
        /\ UNCHANGED <<proc, starts, ready, current, reader, lockedBy, mine, sessions,
                       queue, sent, got>>
    BY <1>2 DEF Close
  <2>2. QED
    BY <1>1, <2>1, GoesOn
<1>3. CASE ~Running
  <2>1. Forgotten(c)
    BY <1>3 DEF Close
  <2>2. QED
    BY <1>1, <2>1, ForgottenInv
<1>4. QED
  BY <1>2, <1>3

LEMMA ClosedInv ==
  ASSUME IInv, NEW c \in Callers, Closed(c)
  PROVE  IInv'
<1>1. call[c] \in After /\ Forgotten(c) /\ writing' = [writing EXCEPT ![c] = 0] /\ TypeInv
  BY DEF IInv, Closed, After
<1>2. writing' \in Writings
  BY <1>1, WritingSet, NobodyWrites
<1>3. QED
  BY <1>1, <1>2, ForgottenInv

\* A session that is told before its first line was sent stays told.
LEMMA SendInv ==
  ASSUME IInv, NEW c \in Callers, Send(c)
  PROVE  IInv'
<1>1. TypeInv /\ LockInv /\ ProcInv /\ ReaderInv /\ ToldInv /\ OrderInv
  BY DEF IInv
<1>2. /\ call[c] = "sending"
      /\ UNCHANGED <<starts, ready, current, reader, lockedBy, sessions, queue, sent, got>>
  BY DEF Send
<1>3. /\ c \in sessions /\ mine[c] = 0 /\ sent[c] = 0 /\ got[c] = 0
      /\ queue[c] = <<>> \/ Ended(c)
  BY <1>1, <1>2 DEF ToldInv, OrderInv, Before
<1>4. PICK p \in Procs : p = current
  BY <1>1, <1>2 DEF ToldInv
<1>5. writing' \in Writings
  <2>1. writing' = [writing EXCEPT ![c] = current] /\ current \in 0 .. MaxStarts
    BY <1>1 DEF Send, TypeInv
  <2>2. QED
    BY <1>1, <2>1, WritingSet
<1>6. CASE /\ call' = [call EXCEPT ![c] = "open"] /\ mine' = [mine EXCEPT ![c] = current]
           /\ proc' = IF proc[current].stage = "exited" THEN proc
                      ELSE [proc EXCEPT ![current].serves = @ \cup {c}]
  <2>1. "open" \in Before \cup After /\ "open" \notin Before
    BY DEF Before, After
  <2>2. /\ call' \in [Callers -> Before \cup After] /\ call'[c] = "open"
        /\ \A d \in Callers : d # c => call'[d] = call[d]
    BY <1>1, <1>6, <2>1, CallMoves
  <2>3. /\ mine' \in [Callers -> 0 .. MaxStarts] /\ mine'[c] = p
        /\ \A d \in Callers : d # c => mine'[d] = mine[d]
    BY <1>1, <1>4, <1>6 DEF TypeInv
  <2>4. /\ LivesOn
        /\ \A q \in Procs : proc'[q].out = proc[q].out
        /\ \A q \in Procs : q # p => proc'[q].serves = proc[q].serves
        /\ proc'[p].serves \subseteq proc[p].serves \cup {c}
    <3>1. CASE proc[p].stage = "exited"
      <4>1. proc' = proc
        BY <1>4, <1>6, <3>1
      <4>2. QED
        BY <1>1, <4>1 DEF LivesOn, TypeInv
    <3>2. CASE proc[p].stage # "exited"
      <4>1. PICK new : new = [proc[p] EXCEPT !.serves = @ \cup {c}]
        OBVIOUS
      <4>2. proc[p] \in ProcType
        BY <1>1 DEF TypeInv
      <4>3. /\ new \in ProcType /\ new.stage = proc[p].stage /\ new.noticed = proc[p].noticed
            /\ new.out = proc[p].out /\ new.serves = proc[p].serves \cup {c}
        BY <4>1, <4>2 DEF ProcType
      <4>4. proc' = [proc EXCEPT ![p] = new]
        BY <1>4, <1>6, <3>2, <4>1
      <4>5. /\ proc' \in [Procs -> ProcType] /\ proc'[p] = new
            /\ \A r \in Procs : r # p => proc'[r] = proc[r]
        BY <1>1, <4>3, <4>4 DEF TypeInv
      <4>6. ~(p > current)
        BY <1>4 DEF Procs
      <4>7. QED
        BY <4>3, <4>5, <4>6 DEF LivesOn
    <3>3. QED
      BY <3>1, <3>2
  <2>5. TypeInv'
    BY <1>1, <1>2, <1>5, <2>2, <2>3, <2>4 DEF TypeInv, LivesOn
  <2>6. LockInv'
    BY <1>1, <1>2, <2>2 DEF LockInv
  <2>7. ProcInv' /\ ReaderInv'
    BY <1>2, <2>2, <2>4, LivesOnInv DEF ReaderInv
  <2>8. \A d \in Callers : Ended(d)' <=> Ended(d)
    BY <1>2 DEF Ended
  <2>9. ToldInv'
    <3>1. reader[p].stage = "done" => Ended(c)
      BY <1>1, <1>2, <1>4 DEF ToldInv
    <3>2. QED
      BY <1>1, <1>2, <1>3, <2>2, <2>3, <2>8, <3>1 DEF ToldInv
  <2>10. OrderInv'
    <3>1. \A q \in Procs : q # 0
      BY DEF Procs
    <3>2. ASSUME NEW q \in Procs PROVE OneSource(q)'
      <4>1. OneSource(q)
        BY <1>1 DEF OrderInv
      <4>2. c \notin proc[q].serves
        BY <1>3, <3>1, <4>1 DEF OneSource
      <4>3. ASSUME NEW i \in DOMAIN proc[q].out, proc[q].out[i] \in Events
            PROVE  mine'[proc[q].out[i].of] = q
        <5>1. PICK e \in Events : e = proc[q].out[i]
          BY <4>3
        <5>2. e.of \in Callers /\ mine[e.of] = q
          BY <4>1, <4>3, <5>1, EventParts DEF OneSource
        <5>3. QED
          BY <1>3, <2>3, <3>1, <5>1, <5>2
      <4>4. ASSUME NEW d \in proc'[q].serves PROVE mine'[d] = q
        <5>1. CASE d = c
          <6>1. q = p
            BY <2>4, <4>2, <4>4, <5>1
          <6>2. QED
            BY <2>3, <5>1, <6>1
        <5>2. CASE d # c
          <6>1. d \in proc[q].serves /\ d \in Callers
            <7>1. d \in proc[q].serves
              BY <2>4, <4>4, <5>2
            <7>2. QED
              BY <1>1, <7>1 DEF TypeInv, ProcType
          <6>2. QED
            BY <2>3, <4>1, <5>2, <6>1 DEF OneSource
        <5>3. QED
          BY <5>1, <5>2
      <4>5. proc'[q].out = proc[q].out
        BY <2>4
      <4>6. QED
        BY <4>3, <4>4, <4>5 DEF OneSource
    <3>3. ASSUME NEW d \in Callers, d # c, call'[d] = "open", ~Ended(d)' PROVE InLine(d)'
      <4>1. call[d] = "open" /\ mine[d] \in Procs /\ ~Ended(d) /\ mine'[d] = mine[d]
        BY <1>1, <2>2, <2>3, <2>8, <3>3 DEF ToldInv
      <4>2. InLine(d) /\ proc'[mine[d]].out = proc[mine[d]].out
        BY <1>1, <2>4, <4>1 DEF OrderInv
      <4>3. QED
        BY <1>2, <4>1, <4>2 DEF InLine
    <3>4. ASSUME ~Ended(c)' PROVE InLine(c)'
      <4>1. queue[c] = <<>>
        BY <1>3, <2>8, <3>4
      <4>2. Len(queue[c]) = 0 /\ DOMAIN queue[c] = {}
        BY <4>1
      <4>3. ASSUME NEW i \in DOMAIN proc[p].out, proc[p].out[i] \in Events
            PROVE  proc[p].out[i].of # c
        <5>1. mine[proc[p].out[i].of] = p
          BY <1>1, <4>3 DEF OrderInv, OneSource
        <5>2. QED
          BY <1>3, <3>1, <5>1
      <4>4. Carries(proc[p].out, c, 1, 0)
        BY <4>3, CarriesNothing
      <4>5. proc'[mine'[c]].out = proc[p].out
        BY <2>3, <2>4
      <4>6. Carries(proc'[mine'[c]].out, c, got[c] + Len(queue[c]) + 1, sent[c])
        BY <1>3, <4>2, <4>4, <4>5
      <4>7. QED
        BY <1>2, <1>3, <4>2, <4>6 DEF InLine
    <3>5. ASSUME NEW d \in Callers, call'[d] \in Before
          PROVE  mine'[d] = 0 /\ sent[d] = 0 /\ got[d] = 0 /\ (queue[d] = <<>> \/ Ended(d))
      <4>1. d # c /\ call[d] \in Before
        BY <2>1, <2>2, <3>5
      <4>2. QED
        BY <1>1, <2>3, <4>1 DEF OrderInv
    <3>6. QED
      BY <1>2, <2>8, <3>2, <3>3, <3>4, <3>5 DEF OrderInv
  <2>11. QED
    BY <2>5, <2>6, <2>7, <2>9, <2>10 DEF IInv
<1>7. QED
  BY <1>6 DEF Send

\* The flow takes the next event, or is told of the end.
LEMMA NextEventInv ==
  ASSUME IInv, NEW c \in Callers, NextEvent(c)
  PROVE  IInv'
<1>1. TypeInv /\ LockInv /\ ProcInv /\ ReaderInv /\ ToldInv /\ OrderInv
  BY DEF IInv
<1>2. PICK q \in Seq(Notes) : q = queue[c]
  BY <1>1 DEF TypeInv
<1>3. /\ call[c] = "open" /\ q # <<>>
      /\ UNCHANGED <<proc, starts, ready, current, reader, lockedBy, mine, writing, sessions, sent>>
      /\ call[c] \in After /\ writing \in Writings
  BY <1>2, AsBefore DEF NextEvent, After
<1>4. PICK rest \in Seq(Notes) : rest = Tail(q)
  BY <1>3, TakenOff
<1>5. queue' = [queue EXCEPT ![c] = rest]
  BY <1>2, <1>4 DEF NextEvent
<1>6. PICK n \in Nat : n = got[c]
  BY <1>1 DEF TypeInv
<1>7. LivesOn
  BY <1>1, <1>3 DEF LivesOn, TypeInv
<1>8. CASE call' = [call EXCEPT ![c] = "closing"]
  <2>1. PICK m \in Nat : got' = [got EXCEPT ![c] = m]
    <3>1. CASE Head(q) = SidecarError
      <4>1. got' = got
        BY <1>2, <3>1 DEF NextEvent
      <4>2. got' = [got EXCEPT ![c] = n]
        BY <1>1, <1>6, <4>1 DEF TypeInv
      <4>3. QED
        BY <4>2
    <3>2. CASE Head(q) # SidecarError
      <4>1. PICK m \in Nat : m = n + 1
        OBVIOUS
      <4>2. got' = [got EXCEPT ![c] = m]
        BY <1>2, <1>6, <3>2, <4>1 DEF NextEvent
      <4>3. QED
        BY <4>2
    <3>3. QED
      BY <3>1, <3>2
  <2>2. QED
    BY <1>1, <1>3, <1>5, <1>7, <1>8, <2>1, SessionLeft
<1>9. CASE Head(q) # SidecarError /\ call' = call
  <2>1. got' = [got EXCEPT ![c] = n + 1]
    BY <1>2, <1>6, <1>9 DEF NextEvent
  <2>2. /\ queue' \in [Callers -> Seq(Notes)] /\ got' \in [Callers -> Nat]
        /\ queue'[c] = rest /\ got'[c] = n + 1
        /\ \A d \in Callers : d # c => queue'[d] = queue[d] /\ got'[d] = got[d]
    BY <1>1, <1>5, <2>1 DEF TypeInv
  <2>3. TypeInv'
    BY <1>1, <1>3, <1>9, <2>2 DEF TypeInv
  <2>4. LockInv'
    BY <1>1, <1>3, <1>9 DEF LockInv
  <2>5. ProcInv' /\ ReaderInv'
    BY <1>3, <1>7, <1>9, LivesOnInv DEF ReaderInv
  <2>6. PICK m \in Nat : Len(q) = m + 1
    <3>1. Len(q) - 1 \in Nat /\ Len(q) = (Len(q) - 1) + 1
      BY <1>3, TakenOff
    <3>2. QED
      BY <3>1
  <2>7. /\ DOMAIN q = 1 .. m + 1 /\ DOMAIN rest = 1 .. m /\ Len(rest) = m /\ Head(q) = q[1]
        /\ \A i \in 1 .. m : rest[i] = q[i + 1]
    <3>1. (m + 1) - 1 = m
      OBVIOUS
    <3>2. QED
      BY <1>3, <1>4, <2>6, <3>1, TakenOff
  <2>8. Ended(c) => Ended(c)'
    <3>1. SUFFICES ASSUME Ended(c) PROVE Ended(c)'
      OBVIOUS
    <3>2. q[m + 1] = SidecarError
      BY <1>2, <2>6, <3>1 DEF Ended, Last
    <3>3. m # 0
      BY <1>9, <2>7, <3>2
    <3>4. m \in 1 .. m /\ rest # <<>>
      BY <2>7, <3>3
    <3>5. rest[m] = SidecarError
      BY <2>7, <3>2, <3>4
    <3>6. QED
      BY <2>2, <2>7, <3>4, <3>5 DEF Ended, Last
  <2>9. \A d \in Callers : d # c => (Ended(d)' <=> Ended(d))
    BY <2>2 DEF Ended
  <2>10. ToldInv'
    BY <1>1, <1>3, <1>9, <2>8, <2>9 DEF ToldInv
  <2>11. OrderInv'
    <3>1. ASSUME NEW p \in Procs PROVE OneSource(p)'
      BY <1>1, <1>3 DEF OrderInv, OneSource
    <3>2. ASSUME NEW d \in Callers, d # c, call'[d] = "open", ~Ended(d)' PROVE InLine(d)'
      <4>1. InLine(d)
        BY <1>1, <1>9, <2>9, <3>2 DEF OrderInv
      <4>2. QED
        BY <1>3, <2>2, <3>2, <4>1 DEF InLine
    <3>3. ASSUME ~Ended(c)' PROVE InLine(c)'
      <4>1. InLine(c)
        BY <1>1, <1>3, <2>8, <3>3 DEF OrderInv
      <4>2. /\ \A i \in 1 .. m + 1 : q[i] = Event(c, n + i)
            /\ n + (m + 1) <= sent[c]
            /\ Carries(proc[mine[c]].out, c, n + (m + 1) + 1, sent[c])
        BY <1>2, <1>6, <2>6, <2>7, <4>1 DEF InLine
      <4>3. ASSUME NEW i \in 1 .. m PROVE rest[i] = Event(c, (n + 1) + i)
        <5>1. i + 1 \in 1 .. m + 1 /\ n + (i + 1) = (n + 1) + i
          OBVIOUS
        <5>2. QED
          BY <2>7, <4>2, <5>1
      <4>4. (n + 1) + m = n + (m + 1)
        OBVIOUS
      <4>5. QED
        BY <1>3, <2>2, <2>7, <4>2, <4>3, <4>4 DEF InLine
    <3>4. ASSUME NEW d \in Callers, call'[d] \in Before
          PROVE  mine[d] = 0 /\ sent[d] = 0 /\ got'[d] = 0 /\ (queue'[d] = <<>> \/ Ended(d)')
      <4>1. d # c /\ call[d] \in Before
        BY <1>3, <1>9, <3>4 DEF Before
      <4>2. QED
        BY <1>1, <2>2, <2>9, <4>1 DEF OrderInv
    <3>5. QED
      BY <1>3, <3>1, <3>2, <3>3, <3>4 DEF OrderInv
  <2>12. QED
    BY <2>3, <2>4, <2>5, <2>10, <2>11 DEF IInv
<1>10. QED
  BY <1>2, <1>8, <1>9 DEF NextEvent
-----------------------------------------------------------------------------
(* The steps of a process *)

ProcessUnchanged ==
    UNCHANGED <<starts, ready, current, reader, lockedBy, callerVars, sessions, queue>>

\* A process writes at most one line; the events it writes are numbered by session.
Writes(p, new) ==
    \/ new.out = proc[p].out /\ sent' = sent
    \/ \E line \in {Ready, Garbage} : new.out = Append(proc[p].out, line) /\ sent' = sent
    \/ \E c \in proc[p].serves : /\ sent' = [sent EXCEPT ![c] = @ + 1]
                                 /\ new.out = Append(proc[p].out, Event(c, sent[c] + 1))

\* A process that was noticed to be gone stays so.
Ages(p, new) ==
    /\ proc[p].stage # "none" /\ new.stage # "none"
    /\ new.serves \subseteq proc[p].serves
    /\ new.noticed => new.stage = "exited"
    /\ proc[p].noticed => new.noticed

LEMMA LineWritten ==
  ASSUME NEW q \in Seq(Lines), NEW line, line \in {Ready, Garbage} \/ line \in Events
  PROVE  \E out \in Seq(Lines) : out = Append(q, line)
<1>1. line \in Lines
  BY DEF Lines
<1>2. Append(q, line) \in Seq(Lines)
  BY <1>1, Appended
<1>3. QED
  BY <1>2

LEMMA ProcessStepFacts ==
  ASSUME IInv, NEW p \in Procs, ProcessStep(p)
  PROVE  ProcessUnchanged
         /\ \E new \in ProcType : proc' = [proc EXCEPT ![p] = new] /\ Ages(p, new) /\ Writes(p, new)
<1>1. TypeInv /\ ProcInv
  BY DEF IInv
<1>2. PICK old \in ProcType : old = proc[p]
  BY <1>1 DEF TypeInv
<1>3. old.out \in Seq(Lines) /\ old.serves \subseteq Callers
  BY DEF ProcType
<1>4. old.noticed => old.stage = "exited"
  BY <1>1, <1>2 DEF ProcInv
<1>5. CASE ProcessReady(p)
  <2>1. PICK out \in Seq(Lines) : out = Append(old.out, Ready)
    BY <1>3, LineWritten
  <2>2. PICK new : new = [old EXCEPT !.stage = "up", !.out = out]
    OBVIOUS
  <2>3. /\ new \in ProcType /\ new.stage = "up" /\ new.out = out /\ new.serves = old.serves
        /\ new.noticed = old.noticed
    BY <2>2 DEF ProcType
  <2>4. old.stage = "booting" /\ sent' = sent /\ ProcessUnchanged
    BY <1>2, <1>5 DEF ProcessReady, ProcessUnchanged
  <2>5. proc' = [proc EXCEPT ![p] = new]
    BY <1>2, <1>5, <2>1, <2>2 DEF ProcessReady
  <2>6. Ages(p, new) /\ Writes(p, new)
    BY <1>2, <1>4, <2>1, <2>3, <2>4 DEF Ages, Writes
  <2>7. QED
    BY <2>3, <2>4, <2>5, <2>6
<1>6. ASSUME NEW c \in Callers, ProcessEmits(p, c)
      PROVE  ProcessUnchanged
             /\ \E new \in ProcType : proc' = [proc EXCEPT ![p] = new] /\ Ages(p, new) /\ Writes(p, new)
  <2>1. PICK n \in Nat : n = sent[c] + 1
    BY <1>1 DEF TypeInv
  <2>2. /\ old.stage = "up" /\ c \in old.serves /\ ProcessUnchanged
        /\ sent' = [sent EXCEPT ![c] = n]
        /\ proc' = [proc EXCEPT ![p].out = Append(@, Event(c, sent'[c]))]
    BY <1>2, <1>6, <2>1 DEF ProcessEmits, ProcessUnchanged
  <2>3. sent'[c] = n
    BY <1>1, <2>2 DEF TypeInv
  <2>4. PICK out \in Seq(Lines) : out = Append(old.out, Event(c, n))
    BY <1>3, EventType, LineWritten
  <2>5. PICK new : new = [old EXCEPT !.out = out]
    OBVIOUS
  <2>6. /\ new \in ProcType /\ new.stage = "up" /\ new.out = out /\ new.serves = old.serves
        /\ new.noticed = old.noticed
    BY <2>2, <2>5 DEF ProcType
  <2>7. proc' = [proc EXCEPT ![p] = new]
    BY <1>2, <2>2, <2>3, <2>4, <2>5
  <2>8. Ages(p, new)
    BY <1>2, <1>4, <2>2, <2>6 DEF Ages
  <2>9. Writes(p, new)
    BY <1>2, <2>1, <2>2, <2>4, <2>6 DEF Writes
  <2>10. QED
    BY <2>2, <2>6, <2>7, <2>8, <2>9
<1>7. CASE ProcessBabbles(p)
  <2>1. PICK out \in Seq(Lines) : out = Append(old.out, Garbage)
    BY <1>3, LineWritten
  <2>2. PICK new : new = [old EXCEPT !.broke = TRUE, !.out = out]
    OBVIOUS
  <2>3. /\ new \in ProcType /\ new.stage = old.stage /\ new.out = out /\ new.serves = old.serves
        /\ new.noticed = old.noticed
    BY <2>2 DEF ProcType
  <2>4. old.stage = "up" /\ sent' = sent /\ ProcessUnchanged
    BY <1>2, <1>7 DEF ProcessBabbles, ProcessUnchanged
  <2>5. proc' = [proc EXCEPT ![p] = new]
    BY <1>2, <1>7, <2>1, <2>2 DEF ProcessBabbles
  <2>6. Ages(p, new) /\ Writes(p, new)
    BY <1>2, <1>4, <2>1, <2>3, <2>4 DEF Ages, Writes
  <2>7. QED
    BY <2>3, <2>4, <2>5, <2>6
<1>8. CASE ProcessExits(p)
  <2>1. PICK new : new = [old EXCEPT !.stage = "exited", !.serves = {}]
    OBVIOUS
  <2>2. /\ new \in ProcType /\ new.stage = "exited" /\ new.out = old.out /\ new.serves = {}
        /\ new.noticed = old.noticed
    BY <2>1 DEF ProcType
  <2>3. old.stage \in {"booting", "up"} /\ sent' = sent /\ ProcessUnchanged
    BY <1>2, <1>8 DEF ProcessExits, ProcessUnchanged
  <2>4. proc' = [proc EXCEPT ![p] = new]
    BY <1>2, <1>8, <2>1 DEF ProcessExits
  <2>5. Ages(p, new) /\ Writes(p, new)
    BY <1>2, <1>4, <2>2, <2>3 DEF Ages, Writes
  <2>6. QED
    BY <2>2, <2>3, <2>4, <2>5
<1>9. CASE ExitNoticed(p)
  <2>1. PICK new : new = [old EXCEPT !.noticed = TRUE]
    OBVIOUS
  <2>2. /\ new \in ProcType /\ new.stage = old.stage /\ new.out = old.out /\ new.serves = old.serves
        /\ new.noticed
    BY <2>1 DEF ProcType
  <2>3. old.stage = "exited" /\ sent' = sent /\ ProcessUnchanged
    BY <1>2, <1>9 DEF ExitNoticed, ProcessUnchanged
  <2>4. proc' = [proc EXCEPT ![p] = new]
    BY <1>2, <1>9, <2>1 DEF ExitNoticed
  <2>5. Ages(p, new) /\ Writes(p, new)
    BY <1>2, <1>4, <2>2, <2>3 DEF Ages, Writes
  <2>6. QED
    BY <2>2, <2>3, <2>4, <2>5
<1>10. QED
  BY <1>5, <1>6, <1>7, <1>8, <1>9 DEF ProcessStep

LEMMA ProcessStepInv ==
  ASSUME IInv, NEW p \in Procs, ProcessStep(p)
  PROVE  IInv'
<1>1. TypeInv /\ LockInv /\ ProcInv /\ ReaderInv /\ ToldInv /\ OrderInv
  BY DEF IInv
<1>2. /\ UNCHANGED <<starts, ready, current, reader, lockedBy, call, mine, writing, got, sessions, queue>>
      /\ \E new \in ProcType : proc' = [proc EXCEPT ![p] = new] /\ Ages(p, new) /\ Writes(p, new)
  BY ProcessStepFacts DEF ProcessUnchanged, callerVars
<1>3. PICK new \in ProcType : proc' = [proc EXCEPT ![p] = new] /\ Ages(p, new) /\ Writes(p, new)
  BY <1>2
<1>4. /\ proc' \in [Procs -> ProcType] /\ proc'[p] = new /\ proc[p] \in ProcType
      /\ \A q \in Procs : q # p => proc'[q] = proc[q]
  BY <1>1, <1>3 DEF TypeInv
<1>5. proc[p].out \in Seq(Lines) /\ new.out \in Seq(Lines) /\ proc[p].serves \subseteq Callers
  BY <1>4 DEF ProcType
<1>6. sent' \in [Callers -> Nat]
  <2>1. sent \in [Callers -> Nat]
    BY <1>1 DEF TypeInv
  <2>2. ASSUME NEW c \in proc[p].serves, sent' = [sent EXCEPT ![c] = @ + 1]
        PROVE  sent' \in [Callers -> Nat]
    <3>1. c \in Callers /\ sent[c] + 1 \in Nat
      BY <1>5, <2>1
    <3>2. QED
      BY <2>1, <2>2, <3>1
  <2>3. QED
    BY <1>3, <2>1, <2>2 DEF Writes
<1>7. TypeInv'
  BY <1>1, <1>2, <1>4, <1>6 DEF TypeInv
<1>8. LockInv'
  BY <1>1, <1>2 DEF LockInv
<1>9. ~(p > current)
  <2>1. proc[p] # NoProcess
    BY <1>3, NothingYet DEF Ages
  <2>2. QED
    BY <1>1, <2>1 DEF ProcInv
<1>10. Running' => Running
  <2>1. current # p => proc'[current] = proc[current] \/ current = 0
    BY <1>1, <1>4, ClientAssumption DEF TypeInv, Procs
  <2>2. QED
    BY <1>2, <1>3, <1>4, <2>1 DEF Running, Ages
<1>11. ProcInv'
  <2>1. \A q \in Procs : q > current => proc'[q] = NoProcess
    BY <1>1, <1>4, <1>9 DEF ProcInv
  <2>2. \A q \in Procs : proc'[q].noticed => proc'[q].stage = "exited"
    BY <1>1, <1>3, <1>4 DEF ProcInv, Ages
  <2>3. \A q \in Procs : q < current => proc'[q].stage = "none" \/ proc'[q].noticed
    BY <1>1, <1>3, <1>4 DEF ProcInv, Ages
  <2>4. QED
    BY <1>1, <1>2, <1>10, <2>1, <2>2, <2>3 DEF ProcInv
<1>12. ASSUME NEW k \in Procs PROVE Follows(k)'
  <2>1. proc[k].noticed => proc'[k].noticed
    BY <1>3, <1>4 DEF Ages
  <2>2. proc[k].stage # "none" => proc'[k].stage # "none"
    BY <1>3, <1>4 DEF Ages
  <2>3. QED
    BY <1>1, <1>2, <2>1, <2>2 DEF ReaderInv, Follows
<1>13. \A d \in Callers : Ended(d)' <=> Ended(d)
  BY <1>2 DEF Ended
<1>14. ToldInv'
  BY <1>1, <1>2, <1>13 DEF ToldInv
<1>15. \A q \in Procs : q # 0
  BY DEF Procs
<1>16. OneSource(p)
  BY <1>1 DEF OrderInv
<1>17. CASE new.out = proc[p].out /\ sent' = sent
  <2>1. \A q \in Procs : proc'[q].out = proc[q].out /\ proc'[q].serves \subseteq proc[q].serves
    BY <1>3, <1>4, <1>17 DEF Ages
  <2>2. ASSUME NEW q \in Procs PROVE OneSource(q)'
    BY <1>1, <1>2, <2>1 DEF OrderInv, OneSource
  <2>3. ASSUME NEW d \in Callers, call[d] = "open", ~Ended(d) PROVE InLine(d)'
    BY <1>1, <1>2, <1>17, <2>1, <2>3 DEF OrderInv, InLine, ToldInv
  <2>4. QED
    BY <1>1, <1>2, <1>7, <1>8, <1>11, <1>12, <1>13, <1>14, <1>17, <2>2, <2>3
    DEF OrderInv, IInv, ReaderInv
<1>18. ASSUME NEW line \in Lines, new.out = Append(proc[p].out, line),
              line \in Events => mine[line.of] = p,
              \A d \in Callers : (line \in Events => line.of # d) => sent'[d] = sent[d],
              line \in Events => /\ line = Event(line.of, sent[line.of] + 1)
                                 /\ sent'[line.of] = sent[line.of] + 1
       PROVE  IInv'
  <2>1. PICK m \in Nat : m = Len(proc[p].out) /\ DOMAIN proc[p].out = 1 .. m
    BY <1>5
  <2>2. /\ DOMAIN new.out = 1 .. m + 1 /\ new.out[m + 1] = line
        /\ \A i \in 1 .. m : new.out[i] = proc[p].out[i]
    BY <1>5, <1>18, <2>1, Appended
  <2>3. ASSUME NEW q \in Procs PROVE OneSource(q)'
    <3>1. CASE q # p
      BY <1>1, <1>2, <1>4, <3>1 DEF OrderInv, OneSource
    <3>2. CASE q = p
      <4>1. \A d \in new.serves : mine[d] = p
        BY <1>3, <1>16 DEF Ages, OneSource
      <4>2. ASSUME NEW i \in 1 .. m + 1, new.out[i] \in Events PROVE mine[new.out[i].of] = p
        <5>1. CASE i = m + 1
          BY <1>18, <2>2, <4>2, <5>1
        <5>2. CASE i \in 1 .. m
          BY <1>16, <2>1, <2>2, <4>2, <5>2 DEF OneSource
        <5>3. QED
          BY <5>1, <5>2
      <4>3. QED
        BY <1>2, <1>4, <2>2, <3>2, <4>1, <4>2 DEF OneSource
    <3>3. QED
      BY <3>1, <3>2
  <2>4. ASSUME NEW d \in Callers, call[d] \in Before PROVE sent'[d] = 0
    <3>1. mine[d] = 0 /\ sent[d] = 0
      BY <1>1, <2>4 DEF OrderInv
    <3>2. line \in Events => line.of # d
      BY <1>15, <1>18, <3>1
    <3>3. QED
      BY <1>18, <3>1, <3>2
  <2>5. ASSUME NEW d \in Callers, call[d] = "open", ~Ended(d) PROVE InLine(d)'
    <3>1. InLine(d) /\ mine[d] \in Procs
      BY <1>1, <2>5 DEF OrderInv, ToldInv
    <3>2. PICK a \in Nat : a = got[d] + Len(queue[d]) /\ a <= sent[d]
      BY <1>1, <3>1 DEF InLine, TypeInv
    <3>3. PICK b \in Nat : b = sent[d]
      BY <1>1 DEF TypeInv
    <3>4. Carries(proc[mine[d]].out, d, a + 1, b)
      BY <3>1, <3>2, <3>3 DEF InLine
    <3>5. CASE line \in Events /\ line.of = d
      <4>1. mine[d] = p /\ line = Event(d, b + 1) /\ sent'[d] = b + 1
        BY <1>18, <3>3, <3>5
      <4>2. a + 1 \in Nat /\ a + 1 <= b + 1 /\ a <= b + 1
        BY <3>2, <3>3
      <4>3. Carries(new.out, d, a + 1, b + 1)
        BY <1>5, <1>18, <3>4, <4>1, <4>2, CarriesOneMore
      <4>4. QED
        BY <1>2, <1>4, <3>1, <3>2, <4>1, <4>2, <4>3 DEF InLine
    <3>6. CASE line \in Events => line.of # d
      <4>1. sent'[d] = b
        BY <1>18, <3>3, <3>6
      <4>2. a + 1 \in Nat
        OBVIOUS
      <4>3. Carries(proc'[mine[d]].out, d, a + 1, b)
        <5>1. CASE mine[d] = p
          BY <1>4, <1>5, <1>18, <3>4, <3>6, <4>2, <5>1, CarriesMoreOfOthers
        <5>2. CASE mine[d] # p
          BY <1>4, <3>1, <3>4, <5>2
        <5>3. QED
          BY <5>1, <5>2
      <4>4. QED
        BY <1>2, <3>1, <3>2, <3>3, <4>1, <4>3 DEF InLine
    <3>7. QED
      BY <3>5, <3>6
  <2>6. OrderInv'
    BY <1>1, <1>2, <1>13, <2>3, <2>4, <2>5 DEF OrderInv
  <2>7. QED
    BY <1>7, <1>8, <1>11, <1>12, <1>14, <2>6 DEF IInv, ReaderInv
<1>19. ASSUME NEW line \in {Ready, Garbage}, new.out = Append(proc[p].out, line), sent' = sent
       PROVE  IInv'
  <2>1. line \in Lines /\ line \notin Events
    BY OthersAreNoEvents DEF Lines
  <2>2. QED
    BY <1>18, <1>19, <2>1
<1>20. ASSUME NEW c \in proc[p].serves, sent' = [sent EXCEPT ![c] = @ + 1],
              new.out = Append(proc[p].out, Event(c, sent[c] + 1))
       PROVE  IInv'
  <2>1. c \in Callers /\ mine[c] = p
    BY <1>5, <1>16 DEF OneSource
  <2>2. PICK n \in Nat : n = sent[c] + 1
    BY <1>1, <2>1 DEF TypeInv
  <2>3. PICK line \in Events : line = Event(c, n) /\ line.of = c
    BY <2>1, EventType
  <2>4. sent'[c] = n /\ \A d \in Callers : d # c => sent'[d] = sent[d]
    BY <1>1, <1>20, <2>1, <2>2 DEF TypeInv
  <2>5. QED
    BY <1>18, <1>20, <2>1, <2>2, <2>3, <2>4 DEF Lines
<1>21. QED
  BY <1>3, <1>17, <1>19, <1>20 DEF Writes
-----------------------------------------------------------------------------
(* The steps of a reader *)

ReaderUnchanged == UNCHANGED <<starts, current, lockedBy, call, mine, writing, got, sessions, sent>>

\* From the pipes at most a line is taken that is about nobody.
PipesKept ==
    /\ LivesOn
    /\ \A p \in Procs :
          /\ proc'[p].serves = proc[p].serves
          /\ \/ proc'[p].out = proc[p].out
             \/ /\ proc[p].out # <<>> /\ Head(proc[p].out) \notin Events
                /\ proc'[p].out = Tail(proc[p].out)

LEMMA OneSourceKept ==
  ASSUME IInv, NEW p \in Procs, UNCHANGED mine,
         proc'[p].serves = proc[p].serves,
         \/ proc'[p].out = proc[p].out
         \/ proc[p].out # <<>> /\ proc'[p].out = Tail(proc[p].out)
  PROVE  OneSource(p)'
<1>1. proc[p].out \in Seq(Lines) /\ OneSource(p)
  BY DEF IInv, TypeInv, ProcType, OrderInv
<1>2. CASE proc'[p].out = proc[p].out
  BY <1>1, <1>2 DEF OneSource
<1>3. CASE proc[p].out # <<>> /\ proc'[p].out = Tail(proc[p].out)
  <2>1. PICK m \in Nat : m + 1 = Len(proc[p].out)
    <3>1. Len(proc[p].out) - 1 \in Nat /\ (Len(proc[p].out) - 1) + 1 = Len(proc[p].out)
      BY <1>1, <1>3, TakenOff
    <3>2. QED
      BY <3>1
  <2>2. PICK out \in Seq(Lines) : out = proc[p].out
    BY <1>1
  <2>3. PICK rest \in Seq(Lines) : rest = Tail(out)
    BY <1>3, <2>2, TakenOff
  <2>4. /\ DOMAIN out = 1 .. m + 1 /\ DOMAIN rest = 1 .. m
        /\ \A i \in 1 .. m : rest[i] = out[i + 1]
    <3>1. (m + 1) - 1 = m
      OBVIOUS
    <3>2. QED
      BY <1>3, <2>1, <2>2, <2>3, <3>1, TakenOff
  <2>5. ASSUME NEW i \in 1 .. m, rest[i] \in Events PROVE mine[rest[i].of] = p
    <3>1. i + 1 \in 1 .. m + 1 /\ rest[i] = out[i + 1]
      BY <2>4
    <3>2. QED
      BY <1>1, <2>2, <2>4, <2>5, <3>1 DEF OneSource
  <2>6. QED
    BY <1>1, <1>3, <2>2, <2>3, <2>4, <2>5 DEF OneSource
<1>4. QED
  BY <1>2, <1>3

\* A reader goes on, or leaves: it is done only when its process is known to be
\* gone, and has then told every session.
LEMMA ReaderMoves ==
  ASSUME IInv, NEW k \in Procs, reader[k].stage # "none",
         reader' \in [Procs -> ReaderType], ready' \in [Procs -> ReadyStates],
         \A j \in Procs : j # k => reader'[j] = reader[j],
         \/ reader'[k].stage \in {"reading", "waiting"} /\ reader'[k].on = current
         \/ proc[k].noticed /\ reader'[k].stage = "done" /\ queue' = FailQueues,
         queue' = queue \/ queue' = FailQueues,
         PipesKept, ReaderUnchanged
  PROVE  IInv'
<1>1. TypeInv /\ LockInv /\ ProcInv /\ ReaderInv /\ ToldInv /\ OrderInv
  BY DEF IInv
<1>2. LivesOn /\ UNCHANGED <<starts, current, lockedBy, call, mine, writing, got, sessions, sent>>
  BY DEF PipesKept, ReaderUnchanged
<1>3. queue' \in [Callers -> Seq(Notes)]
  BY <1>1, FailQueuesFacts DEF TypeInv
<1>4. TypeInv'
  BY <1>1, <1>2, <1>3 DEF TypeInv, LivesOn
<1>5. LockInv'
  BY <1>1, <1>2 DEF LockInv
<1>6. ProcInv'
  BY <1>2, LivesOnInv
<1>7. ASSUME NEW j \in Procs PROVE Follows(j)'
  <2>1. CASE j # k
    BY <1>2, <2>1, LivesOnInv
  <2>2. CASE j = k
    <3>1. k <= current /\ proc[k].stage # "none" /\ current <= current
      BY <1>1, ClientAssumption DEF ReaderInv, Follows, TypeInv
    <3>2. proc'[k].stage = proc[k].stage /\ (proc'[k].noticed <=> proc[k].noticed)
      BY <1>2 DEF LivesOn
    <3>3. QED
      BY <1>2, <2>2, <3>1, <3>2 DEF Follows
  <2>3. QED
    BY <2>1, <2>2
<1>8. ASSUME NEW d \in Callers, Ended(d) PROVE Ended(d)'
  <2>1. FailQueues[d] # <<>> /\ Last(FailQueues[d]) = SidecarError
    BY <1>1, <1>8, FailQueuesFacts
  <2>2. QED
    BY <1>8, <2>1 DEF Ended
<1>9. ASSUME NEW d \in Callers, d \in sessions, reader'[k].stage = "done" PROVE Ended(d)'
  <2>1. FailQueues[d] # <<>> /\ Last(FailQueues[d]) = SidecarError
    BY <1>1, <1>9, FailQueuesFacts
  <2>2. queue' = FailQueues
    BY <1>9
  <2>3. QED
    BY <2>1, <2>2 DEF Ended
<1>10. ToldInv'
  <2>1. ASSUME NEW d \in Callers, d \in sessions, NEW j \in Procs,
               reader[j].stage = "done" => Ended(d), reader'[j].stage = "done"
        PROVE  Ended(d)'
    <3>1. CASE j = k
      BY <1>9, <2>1, <3>1
    <3>2. CASE j # k
      BY <1>8, <2>1, <3>2
    <3>3. QED
      BY <3>1, <3>2
  <2>2. QED
    BY <1>1, <1>2, <2>1 DEF ToldInv
<1>11. OrderInv'
  <2>1. ASSUME NEW p \in Procs PROVE OneSource(p)'
    BY <1>2, OneSourceKept DEF PipesKept
  <2>2. ASSUME NEW d \in Callers, call[d] = "open", ~Ended(d)' PROVE InLine(d)'
    <3>1. ~Ended(d) /\ d \in sessions /\ mine[d] \in Procs
      BY <1>1, <1>8, <2>2 DEF ToldInv
    <3>2. queue' = queue
      <4>1. FailQueues[d] # <<>> /\ Last(FailQueues[d]) = SidecarError
        BY <1>1, <3>1, FailQueuesFacts
      <4>2. QED
        BY <2>2, <4>1 DEF Ended
    <3>3. InLine(d)
      BY <1>1, <2>2, <3>1 DEF OrderInv
    <3>4. PICK a \in Nat : a = got[d] + Len(queue[d]) + 1
      BY <1>1 DEF TypeInv
    <3>5. PICK b \in Nat : b = sent[d]
      BY <1>1 DEF TypeInv
    <3>6. PICK out \in Seq(Lines) : out = proc[mine[d]].out
      BY <1>1, <3>1 DEF TypeInv, ProcType
    <3>7. Carries(out, d, a, b)
      BY <3>3, <3>4, <3>5, <3>6 DEF InLine
    <3>8. Carries(proc'[mine[d]].out, d, a, b)
      <4>1. CASE proc'[mine[d]].out = out
        BY <3>7, <4>1
      <4>2. CASE out # <<>> /\ Head(out) \notin Events /\ proc'[mine[d]].out = Tail(out)
        BY <3>7, <4>2, CarriesBehindOthers
      <4>3. QED
        BY <3>1, <3>6, <4>1, <4>2 DEF PipesKept
    <3>9. QED
      BY <1>2, <3>2, <3>3, <3>4, <3>5, <3>8 DEF InLine
  <2>3. ASSUME NEW d \in Callers, call[d] \in Before PROVE queue'[d] = <<>> \/ Ended(d)'
    <3>1. queue[d] = <<>> \/ Ended(d)
      BY <1>1, <2>3 DEF OrderInv
    <3>2. CASE d \in sessions
      <4>1. FailQueues[d] # <<>> /\ Last(FailQueues[d]) = SidecarError
        BY <1>1, <3>2, FailQueuesFacts
      <4>2. CASE queue' = FailQueues
        BY <4>1, <4>2 DEF Ended
      <4>3. CASE queue' = queue
        BY <1>8, <3>1, <4>3
      <4>4. QED
        BY <4>2, <4>3
    <3>3. CASE d \notin sessions
      <4>1. FailQueues[d] = queue[d]
        BY <1>1, <3>3, FailQueuesFacts
      <4>2. queue'[d] = queue[d]
        BY <4>1
      <4>3. QED
        BY <1>8, <3>1, <4>2
    <3>4. QED
      BY <3>2, <3>3
  <2>4. QED
    BY <1>1, <1>2, <2>1, <2>2, <2>3 DEF OrderInv
<1>12. QED
  BY <1>4, <1>5, <1>6, <1>7, <1>10, <1>11 DEF IInv, ReaderInv

LEMMA LeaveInv ==
  ASSUME IInv, NEW k \in Procs, reader[k].stage = "reading", NEW raised \in BOOLEAN,
         Leave(k, raised), PipesKept, ReaderUnchanged
  PROVE  IInv'
<1>1. TypeInv /\ ProcInv /\ ReaderInv
  BY DEF IInv
<1>2. k <= current /\ proc[k].stage # "none" /\ current \in Int /\ k \in Int
  BY <1>1, ClientAssumption DEF ReaderInv, Follows, TypeInv, Procs
<1>3. ASSUME ~Running PROVE proc[k].noticed
  <2>1. CASE k = current
    BY <1>3, <2>1 DEF Running, Procs
  <2>2. CASE k < current
    BY <1>1, <1>2, <2>2 DEF ProcInv
  <2>3. QED
    BY <1>2, <2>1, <2>2
<1>4. /\ reader' \in [Procs -> ReaderType] /\ ready' \in [Procs -> ReadyStates]
      /\ \A j \in Procs : j # k => reader'[j] = reader[j]
      /\ queue' = queue \/ queue' = FailQueues
  BY <1>1, LeaveFacts
<1>5. \/ reader'[k].stage = "waiting" /\ reader'[k].on = current
      \/ proc[k].noticed /\ reader'[k].stage = "done" /\ queue' = FailQueues
  BY <1>1, <1>3, LeaveFacts
<1>6. QED
  BY <1>4, <1>5, ReaderMoves

LEMMA AllPipesKept == ASSUME IInv, UNCHANGED proc PROVE PipesKept
BY DEF IInv, TypeInv, PipesKept, LivesOn

LEMMA ReaderEndsInv ==
  ASSUME IInv, NEW k \in Procs, SecondReaderFails(k) \/ ReadEof(k) \/ WaitReturns(k)
  PROVE  IInv'
<1>1. TypeInv /\ ProcInv /\ ReaderInv
  BY DEF IInv
<1>2. PipesKept /\ ReaderUnchanged
  <2>1. UNCHANGED proc /\ ReaderUnchanged
    BY DEF SecondReaderFails, ReadEof, WaitReturns, ReaderUnchanged, callerVars
  <2>2. QED
    BY <2>1, AllPipesKept
<1>3. CASE SecondReaderFails(k)
  BY <1>2, <1>3, LeaveInv DEF SecondReaderFails
<1>4. CASE ReadEof(k)
  BY <1>2, <1>4, LeaveInv DEF ReadEof
<1>5. CASE WaitReturns(k)
  <2>1. /\ reader[k].stage = "waiting" /\ proc[reader[k].on].noticed
        /\ reader' = [reader EXCEPT ![k] = [stage |-> "done", on |-> 0]]
        /\ queue' = FailQueues /\ ready' = FailReady
    BY <1>5 DEF WaitReturns
  <2>2. PICK r \in ReaderType : r = [stage |-> "done", on |-> 0]
    <3>1. 0 \in 0 .. MaxStarts
      BY ClientAssumption
    <3>2. QED
      BY <3>1 DEF ReaderType
  <2>3. /\ reader' \in [Procs -> ReaderType] /\ reader'[k].stage = "done"
        /\ \A j \in Procs : j # k => reader'[j] = reader[j]
    BY <1>1, <2>1, <2>2 DEF TypeInv
  <2>4. /\ k <= reader[k].on /\ reader[k].on <= current /\ proc[k].stage # "none"
        /\ k \in Int /\ reader[k].on \in Int /\ current \in Int
    BY <1>1, <2>1, ClientAssumption DEF ReaderInv, Follows, TypeInv, ReaderType, Procs
  <2>5. proc[k].noticed
    <3>1. CASE k = reader[k].on
      BY <2>1, <3>1
    <3>2. CASE k < current
      BY <1>1, <2>4, <3>2 DEF ProcInv
    <3>3. QED
      BY <2>4, <3>1, <3>2
  <2>6. ready' \in [Procs -> ReadyStates]
    BY <1>1, <2>1, FailReadyType
  <2>7. QED
    BY <1>2, <2>1, <2>3, <2>5, <2>6, ReaderMoves
<1>6. QED
  BY <1>3, <1>4, <1>5
\* An event goes to the session it names.
LEMMA EventHandedInv ==
  ASSUME IInv, NEW k \in Procs, NEW p \in Procs, NEW line \in Events, reader[k].stage = "reading",
         reader' \in [Procs -> ReaderType], reader'[k].stage = "reading", reader'[k].on = current,
         \A j \in Procs : j # k => reader'[j] = reader[j], ready' = ready,
         queue' = [queue EXCEPT ![line.of] = Put(line.of, line)],
         proc[p].out # <<>>, line = Head(proc[p].out), proc'[p].out = Tail(proc[p].out),
         \A q \in Procs : q # p => proc'[q].out = proc[q].out,
         \A q \in Procs : proc'[q].serves = proc[q].serves,
         LivesOn, ReaderUnchanged
  PROVE  IInv'
<1>1. TypeInv /\ LockInv /\ ProcInv /\ ReaderInv /\ ToldInv /\ OrderInv
  BY DEF IInv
<1>2. UNCHANGED <<starts, current, lockedBy, call, mine, writing, got, sessions, sent>>
  BY DEF ReaderUnchanged
<1>3. PICK c \in Callers : c = line.of /\ line \in Notes
  BY EventParts DEF Notes
<1>4. mine[c] = p
  <2>1. proc[p].out \in Seq(Lines)
    BY <1>1 DEF TypeInv, ProcType
  <2>2. 1 \in DOMAIN proc[p].out /\ proc[p].out[1] = line
    BY <2>1, TakenOff
  <2>3. QED
    BY <1>1, <1>3, <2>2 DEF OrderInv, OneSource
<1>5. PICK q \in Seq(Notes) : q = Put(c, line)
  BY <1>1, <1>3, PutFacts
<1>6. /\ queue' \in [Callers -> Seq(Notes)] /\ queue'[c] = q
      /\ \A d \in Callers : d # c => queue'[d] = queue[d]
  BY <1>1, <1>3, <1>5 DEF TypeInv
<1>7. TypeInv'
  BY <1>1, <1>2, <1>6 DEF TypeInv, LivesOn
<1>8. LockInv'
  BY <1>1, <1>2 DEF LockInv
<1>9. ProcInv'
  BY <1>2, LivesOnInv
<1>10. ASSUME NEW j \in Procs PROVE Follows(j)'
  <2>1. CASE j # k
    BY <1>2, <2>1, LivesOnInv
  <2>2. CASE j = k
    <3>1. k <= current /\ proc[k].stage # "none" /\ current <= current
      BY <1>1, ClientAssumption DEF ReaderInv, Follows, TypeInv
    <3>2. proc'[k].stage = proc[k].stage
      BY DEF LivesOn
    <3>3. QED
      BY <1>2, <2>2, <3>1, <3>2 DEF Follows
  <2>3. QED
    BY <2>1, <2>2
<1>11. ASSUME NEW d \in Callers, Ended(d) PROVE Ended(d)' /\ queue'[d] = queue[d]
  <2>1. queue'[d] = queue[d]
    BY <1>1, <1>3, <1>5, <1>6, <1>11, PutFacts
  <2>2. QED
    BY <1>11, <2>1 DEF Ended
<1>12. ToldInv'
  <2>1. \A j \in Procs : reader'[j].stage = "done" => reader[j].stage = "done"
    OBVIOUS
  <2>2. QED
    BY <1>1, <1>2, <1>11, <2>1 DEF ToldInv
<1>13. ASSUME NEW j \in Procs PROVE OneSource(j)'
  BY <1>2, OneSourceKept
<1>14. ASSUME NEW d \in Callers, call[d] = "open", ~Ended(d)' PROVE InLine(d)'
  <2>1. ~Ended(d) /\ d \in sessions /\ mine[d] \in Procs
    BY <1>1, <1>11, <1>14 DEF ToldInv
  <2>2. InLine(d)
    BY <1>1, <1>14, <2>1 DEF OrderInv
  <2>3. PICK n \in Nat, m \in Nat, b \in Nat : n = got[d] /\ m = Len(queue[d]) /\ b = sent[d]
    BY <1>1 DEF TypeInv
  <2>4. PICK out \in Seq(Lines) : out = proc[mine[d]].out
    BY <1>1, <2>1 DEF TypeInv, ProcType
  <2>5. Carries(out, d, n + m + 1, b) /\ n + m <= b
    BY <2>2, <2>3, <2>4 DEF InLine
  <2>6. CASE d # c
    <3>1. Carries(proc'[mine[d]].out, d, n + m + 1, b)
      <4>1. CASE mine[d] = p
        <5>1. Carries(Tail(out), d, n + m + 1, b)
          BY <1>3, <2>4, <2>5, <2>6, <4>1, CarriesBehindOthers
        <5>2. QED
          BY <2>4, <4>1, <5>1
      <4>2. CASE mine[d] # p
        BY <2>1, <2>4, <2>5, <4>2
      <4>3. QED
        BY <4>1, <4>2
    <3>2. QED
      BY <1>2, <1>6, <2>2, <2>3, <2>6, <3>1 DEF InLine
  <2>7. CASE d = c
    <3>1. /\ line = Event(d, n + m + 1) /\ n + m + 1 <= b
          /\ Carries(Tail(out), d, n + m + 1 + 1, b)
      <4>1. n + m + 1 \in Nat /\ Head(out) = line /\ out # <<>> /\ line.of = d
        BY <1>3, <1>4, <2>4, <2>7
      <4>2. QED
        BY <2>5, <4>1, CarriesBehindOwn
    <3>2. PICK old \in Seq(Notes) : old = queue[d]
      BY <1>1 DEF TypeInv
    <3>3. queue'[d] = Append(old, line)
      BY <1>1, <1>3, <1>5, <1>6, <2>1, <2>7, <3>2, PutFacts
    <3>4. PICK new \in Seq(Notes) : new = Append(old, line)
      BY <1>3, Appended
    <3>5. /\ DOMAIN old = 1 .. m /\ DOMAIN new = 1 .. m + 1 /\ Len(new) = m + 1
          /\ new[m + 1] = line
          /\ \A i \in 1 .. m : new[i] = old[i]
      BY <1>3, <2>3, <3>2, <3>4, Appended
    <3>6. ASSUME NEW i \in 1 .. m + 1 PROVE new[i] = Event(d, n + i)
      <4>1. CASE i \in 1 .. m
        <5>1. old[i] = Event(d, n + i)
          BY <2>2, <2>3, <3>2, <3>5, <4>1 DEF InLine
        <5>2. QED
          BY <3>5, <4>1, <5>1
      <4>2. CASE i = m + 1
        <5>1. n + (m + 1) = n + m + 1
          OBVIOUS
        <5>2. QED
          BY <3>1, <3>5, <4>2, <5>1
      <4>3. QED
        BY <4>1, <4>2
    <3>7. n + (m + 1) + 1 = n + m + 1 + 1 /\ n + (m + 1) = n + m + 1
      OBVIOUS
    <3>8. proc'[mine[d]].out = Tail(out)
      BY <1>3, <1>4, <2>4, <2>7
    <3>9. /\ queue'[d] = new /\ mine'[d] = mine[d] /\ sent'[d] = b /\ got'[d] = n
      BY <1>2, <2>3, <3>3, <3>4
    <3>10. \A i \in DOMAIN new : new[i] = Event(d, n + i)
      BY <3>5, <3>6
    <3>11. n + Len(new) <= b
      BY <3>1, <3>5, <3>7
    <3>12. Carries(proc'[mine[d]].out, d, n + Len(new) + 1, b)
      BY <3>1, <3>5, <3>7, <3>8
    <3>13. QED
      BY <3>9, <3>10, <3>11, <3>12, Zenon DEF InLine
  <2>8. QED
    BY <2>6, <2>7
<1>15. ASSUME NEW d \in Callers, call[d] \in Before PROVE queue'[d] = <<>> \/ Ended(d)'
  <2>1. mine[d] = 0 /\ (queue[d] = <<>> \/ Ended(d))
    BY <1>1, <1>15 DEF OrderInv
  <2>2. d # c
    BY <1>4, <2>1 DEF Procs
  <2>3. QED
    BY <1>6, <1>11, <2>1, <2>2
<1>16. OrderInv'
  BY <1>1, <1>2, <1>13, <1>14, <1>15 DEF OrderInv
<1>17. QED
  BY <1>7, <1>8, <1>9, <1>10, <1>12, <1>16 DEF IInv, ReaderInv

LEMMA ReadLineInv ==
  ASSUME IInv, NEW k \in Procs, ReadLine(k)
  PROVE  IInv'
<1>1. TypeInv /\ ReaderUnchanged
  BY DEF IInv, ReadLine, ReaderUnchanged, callerVars
<1>2. PICK p \in Procs, line \in Lines, new \in ProcType :
            /\ p = reader[k].on /\ reader[k].stage = "reading"
            /\ proc[p].out \in Seq(Lines) /\ proc[p].out # <<>> /\ line = Head(proc[p].out)
            /\ new = [proc[p] EXCEPT !.out = Tail(proc[p].out)]
            /\ proc' = [proc EXCEPT ![p] = new]
            /\ \/ /\ line = Ready
                  /\ ready' \in [Procs -> ReadyStates]
                  /\ reader' = [reader EXCEPT ![k].on = current] /\ queue' = queue
               \/ /\ line \in Events
                  /\ queue' = [queue EXCEPT ![line.of] = Put(line.of, line)]
                  /\ reader' = [reader EXCEPT ![k].on = current] /\ ready' = ready
               \/ Leave(k, TRUE) /\ line = Garbage
  BY ReadLineFacts
<1>3. proc[p] \in ProcType
  BY <1>1 DEF TypeInv
<1>4. /\ new.stage = proc[p].stage /\ new.noticed = proc[p].noticed /\ new.serves = proc[p].serves
      /\ new.out = Tail(proc[p].out)
  BY <1>2, <1>3 DEF ProcType
<1>5. /\ proc' \in [Procs -> ProcType] /\ proc'[p] = new
      /\ \A q \in Procs : q # p => proc'[q] = proc[q]
  BY <1>1, <1>2 DEF TypeInv
<1>6. LivesOn
  <2>1. proc[p] # NoProcess
    BY <1>2, NothingYet
  <2>2. QED
    BY <1>4, <1>5, <2>1 DEF LivesOn
<1>7. \A q \in Procs : proc'[q].serves = proc[q].serves
  BY <1>4, <1>5
<1>8. ASSUME line \notin Events PROVE PipesKept
  BY <1>2, <1>4, <1>5, <1>6, <1>7, <1>8 DEF PipesKept
<1>9. ASSUME reader' = [reader EXCEPT ![k].on = current]
      PROVE  /\ reader' \in [Procs -> ReaderType]
             /\ reader'[k].stage = "reading" /\ reader'[k].on = current
             /\ \A j \in Procs : j # k => reader'[j] = reader[j]
  <2>1. PICK r : r = [reader[k] EXCEPT !.on = current]
    OBVIOUS
  <2>2. r \in ReaderType /\ r.stage = "reading" /\ r.on = current
    BY <1>1, <1>2, <2>1 DEF TypeInv, ReaderType
  <2>3. reader' = [reader EXCEPT ![k] = r]
    BY <1>9, <2>1
  <2>4. QED
    BY <1>1, <2>2, <2>3 DEF TypeInv
<1>10. CASE Leave(k, TRUE) /\ line = Garbage
  BY <1>1, <1>2, <1>8, <1>10, LeaveInv, OthersAreNoEvents
<1>11. CASE /\ line = Ready /\ ready' \in [Procs -> ReadyStates]
            /\ reader' = [reader EXCEPT ![k].on = current] /\ queue' = queue
  BY <1>1, <1>2, <1>8, <1>9, <1>11, ReaderMoves, OthersAreNoEvents
<1>12. CASE /\ line \in Events /\ queue' = [queue EXCEPT ![line.of] = Put(line.of, line)]
            /\ reader' = [reader EXCEPT ![k].on = current] /\ ready' = ready
  <2>1. \A q \in Procs : q # p => proc'[q].out = proc[q].out
    BY <1>5
  <2>2. proc'[p].out = Tail(proc[p].out)
    BY <1>4, <1>5
  <2>3. PICK e \in Events : e = line
    BY <1>12
  <2>4. /\ queue' = [queue EXCEPT ![e.of] = Put(e.of, e)]
        /\ reader[k].stage = "reading" /\ proc[p].out # <<>> /\ e = Head(proc[p].out)
    BY <1>2, <1>12, <2>3
  <2>5. /\ reader' \in [Procs -> ReaderType]
        /\ reader'[k].stage = "reading" /\ reader'[k].on = current
        /\ \A j \in Procs : j # k => reader'[j] = reader[j]
        /\ ready' = ready /\ ReaderUnchanged
    BY <1>1, <1>9, <1>12
  <2>6. QED
    BY <1>6, <1>7, <2>1, <2>2, <2>4, <2>5, EventHandedInv
<1>13. QED
  BY <1>2, <1>10, <1>11, <1>12

-----------------------------------------------------------------------------
(* The theorems *)

LEMMA NextIInv == IInv /\ [Next]_vars => IInv'
<1> SUFFICES ASSUME IInv, [Next]_vars PROVE IInv'
  OBVIOUS
<1>1. ASSUME NEW c \in Callers, CallerStep(c) \/ DrainEnds(c) PROVE IInv'
  BY <1>1, StartInv, LockedInv, SpawnedInv, StartEndsInv, RegisterInv, SendInv, NextEventInv,
     EventTimesOutInv, CloseInv, SendCloseInv, DrainedInv, DrainRaisesInv, ClosedInv
  DEF CallerStep, DrainEnds
<1>2. ASSUME NEW p \in Procs, ProcessStep(p) PROVE IInv'
  BY <1>2, ProcessStepInv
<1>3. ASSUME NEW k \in Procs, ReaderStep(k) PROVE IInv'
  BY <1>3, ReadLineInv, ReaderEndsInv DEF ReaderStep
<1>4. CASE UNCHANGED vars
  <2>1. UNCHANGED <<proc, starts, ready, current, reader, lockedBy, call, mine, writing,
                    sessions, queue, sent, got>>
    BY <1>4 DEF vars
  <2>2. TypeInv' /\ LockInv' /\ ProcInv' /\ ReaderInv' /\ ToldInv'
    BY <2>1 DEF IInv, TypeInv, LockInv, ProcInv, Running, ReaderInv, Follows, ToldInv, Ended
  <2>3. OrderInv'
    BY <2>1 DEF IInv, OrderInv, OneSource, InLine, Ended
  <2>4. QED
    BY <2>2, <2>3 DEF IInv
<1>5. QED
  BY <1>1, <1>2, <1>3, <1>4 DEF Next

LEMMA Inductive == Spec => []IInv
BY InitIInv, NextIInv, PTL DEF Spec

(* However many flows start the client at once, and whenever a process     *)
(* exits or fails to start: a second sidecar is spawned only when the one  *)
(* before is known to be gone (start(), its check before the lock and the  *)
(* one under it).                                                          *)
THEOREM OneSidecarAlive == Spec => []OneProcess
<1>1. IInv => OneProcess
  <2>1. SUFFICES ASSUME IInv PROVE OneProcess
    OBVIOUS
  <2>2. ASSUME NEW p \in Alive PROVE p = current
    <3>1. p \in Procs /\ proc[p].stage \in {"booting", "up"}
      BY DEF Alive
    <3>2. ~(p > current)
      BY <2>1, <3>1, NothingYet DEF IInv, ProcInv
    <3>3. ~(p < current)
      BY <2>1, <3>1 DEF IInv, ProcInv
    <3>4. p \in Int /\ current \in Int
      BY <2>1, <3>1, ClientAssumption DEF IInv, TypeInv, Procs
    <3>5. QED
      BY <3>2, <3>3, <3>4
  <2>3. IsFiniteSet({current}) /\ Cardinality({current}) = 1
    BY FS_Singleton
  <2>4. Alive \in SUBSET {current}
    BY <2>2
  <2>5. Cardinality(Alive) <= Cardinality({current})
    BY <2>3, <2>4, FS_Subset
  <2>6. QED
    BY <2>3, <2>5 DEF OneProcess
<1>2. QED
  BY <1>1, Inductive, PTL

(* No flow is left waiting on a process whose reader has ended: every open *)
(* session finds a sidecar_error in its queue, even one whose first line   *)
(* was written after the end (open_session registers before it sends;      *)
(* _read_stdout fails all in its finally clause).                          *)
THEOREM EverySessionTold == Spec => []ToldOfTheEnd
<1>1. IInv => ToldOfTheEnd
  BY DEF IInv, ToldInv, ToldOfTheEnd
<1>2. QED
  BY <1>1, Inductive, PTL

\* Of two sequences one behind the other.
LEMMA Concatenated ==
  ASSUME NEW S, NEW q \in Seq(S), NEW out \in Seq(S)
  PROVE  /\ q \o out \in Seq(S) /\ Len(q) \in Nat /\ Len(out) \in Nat
         /\ DOMAIN q = 1 .. Len(q) /\ DOMAIN out = 1 .. Len(out)
         /\ DOMAIN (q \o out) = 1 .. Len(q) + Len(out)
         /\ \A i \in 1 .. Len(q) : (q \o out)[i] = q[i]
         /\ \A i \in Len(q) + 1 .. Len(q) + Len(out) : (q \o out)[i] = out[i - Len(q)]
<1>1. q \o out \in Seq(S) /\ Len(q \o out) = Len(q) + Len(out)
  OBVIOUS
<1>2. QED
  BY <1>1

(* No event of a session is lost, repeated or out of order between the     *)
(* sidecar and the flow, whichever reader takes it from the pipe, until    *)
(* the session is told of a failure (_read_stdout, next_event).            *)
THEOREM EventsArriveInOrder == Spec => []EventsInOrder
<1>1. ASSUME IInv, NEW c \in Callers, call[c] = "open", ~Ended(c)
      PROVE  LET ahead == queue[c] \o proc[mine[c]].out
                 its == {i \in DOMAIN ahead : ahead[i].kind = "event" /\ ahead[i].of = c}
             IN  /\ {ahead[i].number : i \in its} = (got[c] + 1) .. sent[c]
                 /\ \A i, j \in its : i < j => ahead[i].number < ahead[j].number
  <2> DEFINE All == {SidecarError} \cup Lines
  <2>1. InLine(c) /\ mine[c] \in Procs
    BY <1>1 DEF IInv, OrderInv, ToldInv
  <2>2. PICK q \in Seq(All) : q = queue[c]
    BY <1>1 DEF IInv, TypeInv, Notes, Lines
  <2>3. PICK out \in Seq(All) : out = proc[mine[c]].out
    BY <1>1, <2>1 DEF IInv, TypeInv, ProcType
  <2>4. PICK n \in Nat, m \in Nat, l \in Nat, b \in Nat :
          n = got[c] /\ m = Len(q) /\ l = Len(out) /\ b = sent[c]
    BY <1>1, <2>2, <2>3 DEF IInv, TypeInv
  <2>5. /\ \A i \in 1 .. m : q[i] = Event(c, n + i)
        /\ n + m <= b
        /\ Carries(out, c, n + m + 1, b)
    BY <2>1, <2>2, <2>3, <2>4 DEF InLine
  <2>6. PICK ahead \in Seq(All) : ahead = q \o out
    BY Concatenated
  <2>7. /\ DOMAIN ahead = 1 .. m + l /\ DOMAIN out = 1 .. l
        /\ \A i \in 1 .. m : ahead[i] = Event(c, n + i)
        /\ \A i \in m + 1 .. m + l : ahead[i] = out[i - m]
    BY <2>4, <2>5, <2>6, Concatenated
  <2> DEFINE its == {i \in DOMAIN ahead : ahead[i].kind = "event" /\ ahead[i].of = c}
  <2>8. ASSUME NEW e \in All PROVE e.kind = "event" <=> e \in Events
    BY OthersAreNoEvents, EventParts DEF Lines
  <2>9. ASSUME NEW i \in its
        PROVE  \/ i \in 1 .. m /\ ahead[i].number = n + i
               \/ /\ i \in m + 1 .. m + l /\ i - m \in 1 .. l
                  /\ out[i - m] \in Events /\ out[i - m].of = c /\ ahead[i] = out[i - m]
                  /\ out[i - m].number \in n + m + 1 .. b
    <3>1. i \in 1 .. m + l /\ ahead[i] \in Events /\ ahead[i].of = c
      BY <2>6, <2>7, <2>8
    <3>2. CASE i \in 1 .. m
      <4>1. n + i \in Nat
        BY <3>2
      <4>2. QED
        BY <2>7, <3>2, <4>1, EventType
    <3>3. CASE i \in m + 1 .. m + l
      <4>1. i - m \in 1 .. l /\ ahead[i] = out[i - m]
        BY <2>7, <3>3
      <4>2. out[i - m].number \in n + m + 1 .. b
        BY <2>5, <2>7, <3>1, <4>1 DEF Carries
      <4>3. QED
        BY <3>1, <3>3, <4>1, <4>2
    <3>4. QED
      BY <3>1, <3>2, <3>3
  <2>10. ASSUME NEW i \in its PROVE ahead[i].number \in n + 1 .. b
    <3>1. CASE i \in 1 .. m /\ ahead[i].number = n + i
      <4>1. n + i \in n + 1 .. b
        BY <2>5, <3>1
      <4>2. QED
        BY <3>1, <4>1
    <3>2. CASE ahead[i].number \in n + m + 1 .. b
      BY <3>2
    <3>3. QED
      BY <2>9, <3>1, <3>2
  <2>11. ASSUME NEW x \in n + 1 .. b PROVE \E i \in its : ahead[i].number = x
    <3>1. CASE x <= n + m
      <4>1. PICK i \in 1 .. m : n + i = x
        <5>1. x - n \in 1 .. m /\ n + (x - n) = x
          BY <3>1
        <5>2. QED
          BY <5>1
      <4>2. /\ ahead[i] = Event(c, x) /\ i \in 1 .. m + l
        BY <2>7, <4>1
      <4>3. ahead[i].number = x /\ ahead[i].kind = "event" /\ ahead[i].of = c
        BY <4>2 DEF Event
      <4>4. QED
        BY <2>7, <4>2, <4>3
    <3>2. CASE x > n + m
      <4>1. x \in n + m + 1 .. b
        BY <3>2
      <4>2. PICK j \in 1 .. l : out[j] = Event(c, x)
        BY <2>5, <2>7, <4>1 DEF Carries
      <4>3. m + j \in m + 1 .. m + l /\ m + j \in 1 .. m + l /\ (m + j) - m = j
        OBVIOUS
      <4>4. ahead[m + j] = Event(c, x)
        BY <2>7, <4>2, <4>3
      <4>5. ahead[m + j].number = x /\ ahead[m + j].kind = "event" /\ ahead[m + j].of = c
        BY <4>4 DEF Event
      <4>6. QED
        BY <2>7, <4>3, <4>5
    <3>3. QED
      BY <3>1, <3>2
  <2>12. ASSUME NEW i \in its, NEW j \in its, i < j PROVE ahead[i].number < ahead[j].number
    <3>1. CASE i \in 1 .. m
      <4>1. ahead[i].number = n + i
        BY <2>9, <3>1
      <4>2. CASE j \in 1 .. m /\ ahead[j].number = n + j
        BY <2>12, <3>1, <4>1, <4>2
      <4>3. CASE ahead[j].number \in n + m + 1 .. b
        <5>1. n + i < n + m + 1
          BY <3>1
        <5>2. QED
          BY <4>1, <4>3, <5>1
      <4>4. QED
        BY <2>9, <4>2, <4>3
    <3>2. CASE i \in m + 1 .. m + l
      <4>1. j \in m + 1 .. m + l
        BY <2>9, <2>12, <3>2
      <4>2. i - m < j - m
        BY <2>12, <3>2, <4>1
      <4>3. /\ i - m \in 1 .. l /\ out[i - m] \in Events /\ out[i - m].of = c
            /\ ahead[i] = out[i - m]
        BY <2>9, <3>2
      <4>4. /\ j - m \in 1 .. l /\ out[j - m] \in Events /\ out[j - m].of = c
            /\ ahead[j] = out[j - m]
        BY <2>9, <4>1
      <4>5. QED
        BY <2>5, <2>7, <4>2, <4>3, <4>4 DEF Carries
    <3>3. QED
      BY <2>9, <3>1, <3>2
  <2>13. {ahead[i].number : i \in its} = n + 1 .. b
    BY <2>10, <2>11
  <2>14. QED
    BY <2>2, <2>3, <2>4, <2>6, <2>12, <2>13
<1>2. IInv => EventsInOrder
  BY <1>1 DEF EventsInOrder
<1>3. QED
  BY <1>2, Inductive, PTL
=============================================================================
