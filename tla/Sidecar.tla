------------------------------ MODULE Sidecar ------------------------------
(* The built-in summary engine: SidecarManager keeps one helper process and *)
(* talks to it in lines of JSON over its standard input and output.  The    *)
(* slots for the process, for its input and for its output, the path of the *)
(* model and the health flag each have a lock of their own.  Several        *)
(* generations, a health check and an idle check run side by side; every    *)
(* one of them may start a shutdown, and a generation may start a process.  *)
EXTENDS Integers, Sequences

CONSTANTS Clients,    \* calls of generate_with_builtin
          MaxSpawns,  \* bound: helper processes that can be started
          MaxTrouble, \* bound: crashes, cancellations and idle shutdowns together
          Nobody

ASSUME ClientsAssumption == Clients \subseteq Nat \ {0} /\ Nobody \notin Int
ASSUME SpawnsAssumption == MaxSpawns \in Nat \ {0}
ASSUME TroubleAssumption == MaxTrouble \in Nat

VARIABLES child,      \* child_process: the process that will be waited for
          stdin,      \* stdin_writer and ...
          stdout,     \* ... stdout_reader: whose pipes they are
          outLock,    \* who holds the lock of stdout_reader
          ready,      \* current_model_path is set and is_healthy
          shouldShutdown, \* should_shutdown
          alive,      \* helper processes that run
          spawned,    \* how many were started
          asked,      \* per process: requests in its input pipe
          answers,    \* per process: lines in its output pipe
          trouble,    \* how many of them there were
          task,       \* clients, health check and idle check
          shared      \* history: since the slots were last emptied in peace, two
                      \* tasks have been at work at once

wires == <<child, stdin, stdout, outLock, ready, shouldShutdown>>
procs == <<alive, spawned, asked, answers>>
sidecarVars == <<wires, procs, task, trouble, shared>>

Procs == 1..MaxSpawns
(* A line in a pipe is named for its sender: a client's number for a prompt *)
(* or its answer, Health for a ping or its pong, and Stop for the shutdown  *)
(* or the goodbye.                                                          *)
Health == 0        \* the health check loop
Sweeper == -1      \* the idle check loop
Bye == -2
Tasks == Clients \cup {Health, Sweeper}
Lines == Clients \cup {Health, Bye}

Flight == {"write", "lock", "read"}
Shutdown == {"command", "take", "wait", "unplugIn", "unplugOut", "forget"}
TaskPcs == {"idle", "ensure", "spawn", "plugIn", "plugOut", "announce", "over"}
       \cup Flight \cup Shutdown
(* "next" is where a shutdown returns to, "proc" the process at hand.       *)
Idle == [pc |-> "idle", next |-> "over", proc |-> Nobody, got |-> Nobody]

SidecarInit ==
    /\ child = Nobody /\ stdin = Nobody /\ stdout = Nobody /\ outLock = Nobody
    /\ ready = FALSE /\ shouldShutdown = FALSE
    /\ alive = {} /\ spawned = 0
    /\ asked = [p \in Procs |-> <<>>] /\ answers = [p \in Procs |-> <<>>]
    /\ task = [t \in Tasks |-> Idle]
    /\ trouble = 0 /\ shared = FALSE

-----------------------------------------------------------------------------
TaskAt(t, pc) == task[t].pc = pc
TaskTo(t, pc) == task' = [task EXCEPT ![t].pc = pc]
(* A client is over; a loop goes on waiting for its next tick.              *)
Rest(t) == IF t \in Clients THEN "over" ELSE "idle"
End(t, got) == task' = [task EXCEPT ![t].pc = Rest(t), ![t].got = got, ![t].proc = Nobody]
(* active_request_count: the guards of send_request.                        *)
Active == {c \in Clients : task[c].pc \in Flight}
Busy == {t \in Tasks : task[t].pc \notin {"idle", "ensure", "over"}}
Meets(t) == ~(Busy \subseteq {t})
Join(t) == shared' = (shared \/ Meets(t))

(* shutdown() is called: the flag first; afterwards go on at "next".  What  *)
(* it meets may spoil it; left alone, it leaves nothing of earlier trouble. *)
CallShutdown(t, next) ==
    /\ shouldShutdown' = TRUE
    /\ task' = [task EXCEPT ![t].pc = "command", ![t].next = next, ![t].proc = Nobody]
    /\ shared' = Meets(t)

(* ensure_running.                                                          *)
Generate(c) ==
    /\ TaskAt(c, "idle")
    /\ \A d \in Clients : d < c => ~TaskAt(d, "idle")
    /\ TaskTo(c, "ensure")
    /\ UNCHANGED <<wires, procs, shared, trouble>>
Running(c) ==
    /\ TaskAt(c, "ensure") /\ ready
    /\ TaskTo(c, "write")
    /\ Join(c)
    /\ UNCHANGED <<wires, procs, trouble>>
NotRunning(c) ==
    /\ TaskAt(c, "ensure") /\ ~ready
    /\ CallShutdown(c, "spawn")
    /\ UNCHANGED <<child, stdin, stdout, outLock, ready, procs, trouble>>

-----------------------------------------------------------------------------
(* shutdown: a last line to the process, up to three seconds for it to exit *)
(* before it is killed, and then every slot is emptied.                     *)
Command(t) ==
    /\ TaskAt(t, "command")
    /\ asked' = IF ready /\ stdin \in alive
                THEN [asked EXCEPT ![stdin] = Append(@, Bye)] ELSE asked
    /\ TaskTo(t, "take")
    /\ UNCHANGED <<wires, alive, spawned, answers, shared, trouble>>
Take(t) ==
    /\ TaskAt(t, "take") /\ ~\E u \in Tasks : TaskAt(u, "wait")
    /\ child' = Nobody
    /\ task' = [task EXCEPT ![t].pc = IF child = Nobody THEN "unplugIn" ELSE "wait",
                            ![t].proc = child]
    /\ UNCHANGED <<stdin, stdout, outLock, ready, shouldShutdown, procs, shared, trouble>>
Dies(p) == alive' = alive \ {p} /\ asked' = [asked EXCEPT ![p] = <<>>]
Reap(t) ==
    /\ TaskAt(t, "wait")
    /\ Dies(task[t].proc)
    /\ TaskTo(t, "unplugIn")
    /\ UNCHANGED <<wires, spawned, answers, shared, trouble>>
UnplugIn(t) ==
    /\ TaskAt(t, "unplugIn")
    /\ stdin' = Nobody
    /\ TaskTo(t, "unplugOut")
    /\ UNCHANGED <<child, stdout, outLock, ready, shouldShutdown, procs, shared, trouble>>
(* What nobody can read any more is gone with the pipe.                     *)
Unread(p) == [q \in Procs |-> IF q = p THEN <<>> ELSE answers[q]]
UnplugOut(t) ==
    /\ TaskAt(t, "unplugOut") /\ outLock = Nobody
    /\ stdout' = Nobody
    /\ answers' = Unread(stdout)
    /\ TaskTo(t, "forget")
    /\ UNCHANGED <<child, stdin, outLock, ready, shouldShutdown, alive, spawned, asked, shared, trouble>>
ForgetProcessOnly(t) ==
    /\ TaskAt(t, "forget")
    /\ task' = [task EXCEPT ![t].pc = task[t].next, ![t].next = "over",
                            ![t].proc = Nobody]
    /\ UNCHANGED <<child, stdin, stdout, outLock, ready, shouldShutdown, procs, shared, trouble>>
Forget(t) ==
    /\ TaskAt(t, "forget")
    /\ ready' = FALSE
    /\ task' = [task EXCEPT ![t].pc = task[t].next, ![t].next = "over",
                            ![t].proc = Nobody]
    /\ UNCHANGED <<child, stdin, stdout, outLock, shouldShutdown, procs, shared, trouble>>

(* spawn: a new process, its pipes, and the announcement.                   *)
SpawnFails(c) ==
    /\ TaskAt(c, "spawn")
    /\ End(c, Nobody)
    /\ UNCHANGED <<wires, procs, shared, trouble>>
Spawn(c) ==
    /\ TaskAt(c, "spawn") /\ spawned < MaxSpawns
    /\ ~\E u \in Tasks : TaskAt(u, "wait")
    /\ spawned' = spawned + 1
    /\ alive' = alive \cup {spawned'}
    /\ child' = spawned'
    /\ task' = [task EXCEPT ![c].pc = "plugIn", ![c].proc = spawned']
    /\ UNCHANGED <<stdin, stdout, outLock, ready, shouldShutdown, asked, answers, shared, trouble>>
PlugIn(c) ==
    /\ TaskAt(c, "plugIn")
    /\ stdin' = task[c].proc
    /\ TaskTo(c, "plugOut")
    /\ UNCHANGED <<child, stdout, outLock, ready, shouldShutdown, procs, shared, trouble>>
PlugOut(c) ==
    /\ TaskAt(c, "plugOut") /\ outLock = Nobody
    /\ stdout' = task[c].proc
    /\ answers' = Unread(stdout)
    /\ TaskTo(c, "announce")
    /\ UNCHANGED <<child, stdin, outLock, ready, shouldShutdown, alive, spawned, asked, shared, trouble>>
Announce(c) ==
    /\ TaskAt(c, "announce")
    /\ ready' = TRUE
    /\ shouldShutdown' = FALSE
    /\ TaskTo(c, "write")
    /\ UNCHANGED <<child, stdin, stdout, outLock, procs, shared, trouble>>

-----------------------------------------------------------------------------
(* send_request and send_ping: a line is written under one lock, and one is *)
(* read under another.                                                      *)
Write(t) ==
    /\ TaskAt(t, "write") /\ stdin \in alive
    /\ asked' = [asked EXCEPT ![stdin] = Append(@, t)]
    /\ TaskTo(t, "lock")
    /\ UNCHANGED <<wires, alive, spawned, answers, shared, trouble>>
(* What a failure does: a request returns the error, a failed ping marks    *)
(* the helper as unhealthy.                                                 *)
Fails(t) == End(t, Nobody) /\ ready' = (ready /\ t # Health)
WriteFails(t) ==
    /\ TaskAt(t, "write") /\ stdin \notin alive
    /\ Fails(t)
    /\ UNCHANGED <<child, stdin, stdout, outLock, shouldShutdown, procs, shared, trouble>>
Lock(t) ==
    /\ TaskAt(t, "lock") /\ outLock = Nobody /\ stdout # Nobody
    /\ outLock' = t
    /\ TaskTo(t, "read")
    /\ UNCHANGED <<child, stdin, stdout, ready, shouldShutdown, procs, shared, trouble>>
LockFails(t) ==
    /\ TaskAt(t, "lock") /\ outLock = Nobody /\ stdout = Nobody
    /\ Fails(t)
    /\ UNCHANGED <<child, stdin, stdout, outLock, shouldShutdown, procs, shared, trouble>>
(* A request takes any line that says "response", a ping only a pong.       *)
Expected(t, line) == IF t = Health THEN line = Health ELSE line \in Clients
Read(t) ==
    LET line == Head(answers[stdout]) IN
    /\ TaskAt(t, "read") /\ answers[stdout] # <<>>
    /\ answers' = [answers EXCEPT ![stdout] = Tail(@)]
    /\ outLock' = Nobody
    /\ IF Expected(t, line) THEN End(t, line) /\ UNCHANGED ready ELSE Fails(t)
    /\ UNCHANGED <<child, stdin, stdout, shouldShutdown, alive, spawned, asked, shared, trouble>>
EndOfFile(t) ==
    /\ TaskAt(t, "read") /\ answers[stdout] = <<>> /\ stdout \notin alive
    /\ outLock' = Nobody
    /\ Fails(t)
    /\ UNCHANGED <<child, stdin, stdout, shouldShutdown, procs, shared, trouble>>
Unlock(t) == outLock' = IF outLock = t THEN Nobody ELSE outLock
(* A request that takes too long, and one that the user cancels, shuts the  *)
(* helper down; a ping gives up.                                            *)
TimeoutKeepsHelper(c) ==
    /\ task[c].pc \in {"lock", "read"}
    /\ Unlock(c)
    /\ End(c, Nobody)
    /\ UNCHANGED <<child, stdin, stdout, ready, shouldShutdown, procs, shared, trouble>>
RequestTimesOut(c) ==
    /\ task[c].pc \in {"lock", "read"}
    /\ Unlock(c)
    /\ CallShutdown(c, "over")
    /\ UNCHANGED <<child, stdin, stdout, ready, procs, trouble>>
RequestCancelled(c) ==
    /\ task[c].pc \in Flight
    /\ Unlock(c)
    /\ CallShutdown(c, "over")
    /\ trouble < MaxTrouble /\ trouble' = trouble + 1
    /\ UNCHANGED <<child, stdin, stdout, ready, procs>>
PingTimesOut ==
    /\ task[Health].pc \in {"lock", "read"}
    /\ Unlock(Health)
    /\ Fails(Health)
    /\ UNCHANGED <<child, stdin, stdout, shouldShutdown, procs, shared, trouble>>

(* The two loops.  They look at the number of active requests and then act. *)
HealthTick ==
    /\ TaskAt(Health, "idle") /\ ~shouldShutdown /\ ready /\ Active = {}
    /\ TaskTo(Health, "write")
    /\ Join(Health)
    /\ UNCHANGED <<wires, procs, trouble>>
IdleTick ==
    /\ TaskAt(Sweeper, "idle") /\ ~shouldShutdown /\ Active = {} /\ spawned > 0
    /\ CallShutdown(Sweeper, "idle")
    /\ trouble < MaxTrouble /\ trouble' = trouble + 1
    /\ UNCHANGED <<child, stdin, stdout, outLock, ready, procs>>

-----------------------------------------------------------------------------
(* The helper: one line at a time; it ends when told to, and when nobody    *)
(* holds the other end of its input any more.                               *)
Serve(p) ==
    LET line == Head(asked[p]) IN
    /\ p \in alive /\ asked[p] # <<>>
    /\ answers' = [answers EXCEPT ![p] = Append(@, line)]
    /\ IF line = Bye THEN Dies(p)
       ELSE asked' = [asked EXCEPT ![p] = Tail(@)] /\ UNCHANGED alive
    /\ UNCHANGED <<wires, spawned, task, shared, trouble>>
InputClosed(p) ==
    /\ p \in alive /\ asked[p] = <<>> /\ stdin # p
    /\ ~\E t \in Tasks : TaskAt(t, "plugIn") /\ task[t].proc = p
    /\ Dies(p)
    /\ UNCHANGED <<wires, spawned, answers, task, shared, trouble>>
HelperCrash(p) ==
    /\ p \in alive
    /\ Dies(p)
    /\ trouble < MaxTrouble /\ trouble' = trouble + 1
    /\ UNCHANGED <<wires, spawned, answers, task, shared>>

Client(c) ==
    \/ Running(c) \/ NotRunning(c) \/ SpawnFails(c) \/ Spawn(c)
    \/ PlugIn(c) \/ PlugOut(c) \/ Announce(c) \/ RequestTimesOut(c)
TaskSteps(t) ==
    \/ Command(t) \/ Take(t) \/ Reap(t) \/ UnplugIn(t) \/ UnplugOut(t) \/ Forget(t)
    \/ Write(t) \/ WriteFails(t) \/ Lock(t) \/ LockFails(t) \/ Read(t) \/ EndOfFile(t)
Helper(p) == Serve(p) \/ InputClosed(p)
SidecarNext ==
    \/ \E c \in Clients : Generate(c) \/ Client(c) \/ RequestCancelled(c)
    \/ \E t \in Tasks : TaskSteps(t)
    \/ \E p \in Procs : Helper(p) \/ HelperCrash(p)
    \/ HealthTick \/ PingTimesOut \/ IdleTick
SidecarSpec == SidecarInit /\ [][SidecarNext]_sidecarVars

-----------------------------------------------------------------------------
Nexts == {"over", "idle", "spawn"}
Slot == Procs \cup {Nobody}
TaskRecord == [pc : TaskPcs, next : Nexts, proc : Slot, got : Clients \cup {Health, Nobody}]
SidecarTypeOK ==
    /\ child \in Slot /\ stdin \in Slot /\ stdout \in Slot
    /\ outLock \in Tasks \cup {Nobody}
    /\ ready \in BOOLEAN /\ shouldShutdown \in BOOLEAN
    /\ alive \subseteq 1..spawned /\ spawned \in 0..MaxSpawns
    /\ asked \in [Procs -> Seq(Lines)] /\ answers \in [Procs -> Seq(Lines)]
    /\ task \in [Tasks -> TaskRecord]
    /\ trouble \in 0..MaxTrouble /\ shared \in BOOLEAN

(* The answer that a generation returns is the one to its own prompt, as    *)
(* long as no two tasks were at work at once since the slots were emptied:  *)
(* nothing an earlier request left in the pipes reaches a later one.        *)
LoneAnswer ==
    [][\A c \in Clients : ~shared /\ task'[c].got # task[c].got => task'[c].got = c]_sidecarVars

(* "Send a request to the sidecar and wait for response": whatever runs     *)
(* beside it, a generation never returns the answer to another prompt.      *)
OwnAnswer == \A c \in Clients : task[c].got \in {c, Nobody}

(* Under the same condition a manager that says it is ready, between two    *)
(* uses, has the input, the output and the process in its slots belong      *)
(* together.                                                                *)
ReadyIsWired ==
    ~shared /\ Busy = {} /\ ready => child # Nobody /\ stdin = child /\ stdout = child

=============================================================================
