------------------------------- MODULE Prefork -------------------------------
(***************************************************************************)
(* The processes of a server with workers (odoo/service/server.py): the    *)
(* master forks HTTP and cron workers and starts the longpolling server,   *)
(* replaces those that die, kills those that are silent for too long, and  *)
(* stops or restarts all of them when it is told to.                       *)
(*                                                                         *)
(* Time is left out but for `late`: the watchdog of a worker has run out.  *)
(* A signal is delivered when it is sent.  A worker that was just forked   *)
(* still has the master's handlers, which only fill a queue nobody reads.  *)
(***************************************************************************)
EXTENDS Integers, Sequences, FiniteSets, FiniteSetsExt

CONSTANTS
    Pid, NoPid,     \* numbers of processes besides the master, and none
    HttpEnable,
    Population,     \* configured number of HTTP workers
    MaxCron,        \* max_cron_threads
    Watched,        \* kinds of workers with a watchdog
    QueueLimit,     \* signals beyond it are dropped, but for SIGCHLD; 5 in the code
    UserSignals,    \* what the administrator sends
    MaxSignals      \* bound: how often

ASSUME PreforkAssumption ==
    /\ Pid \subseteq Nat /\ IsFiniteSet(Pid) /\ NoPid \notin Pid
    /\ HttpEnable \in BOOLEAN
    /\ {Population, MaxCron, QueueLimit, MaxSignals} \subseteq Nat
    /\ Watched \subseteq {"http", "cron"}
    /\ UserSignals \subseteq {"TERM", "HUP", "TTIN", "TTOU"}

VARIABLES
    master,      \* what the master is at
    queue,       \* signals it has not processed
    known,       \* self.workers
    lp,          \* long_polling_pid
    late,        \* workers whose watchdog_time is too long ago
    population,
    phoenix,     \* to be restarted
    ping,        \* workers whose watchdog_pipe is not empty
    child,       \* the processes, by number
    sent         \* signals of the administrator, for the bound

memory == <<queue, known, lp, late, population, phoenix>>
serverVars == <<master, memory, ping, child, sent>>

Loop == {"signals", "zombie", "timeout", "spawn", "sleep"}
Stopping == {"wait", "term"}
MasterRuns == master \in Loop \cup Stopping
Free == [kind |-> "http", at |-> "free", alive |-> TRUE, deaf |-> FALSE]

ServerTypeOK ==
    /\ master \in Loop \cup Stopping \cup {"exec", "gone"}
    /\ queue \in Seq({"TERM", "HUP", "TTIN", "TTOU", "CHLD"})
    /\ known \subseteq Pid /\ lp \in Pid \cup {NoPid} /\ lp \notin known
    /\ late \subseteq known /\ ping \subseteq Pid
    /\ population \in Int /\ phoenix \in BOOLEAN
    /\ child \in [Pid -> [kind : {"http", "cron", "longpolling"},
                          at : {"free", "boot", "sleep", "work", "stuck", "serve", "blind", "zombie"},
                          alive : BOOLEAN, deaf : BOOLEAN]]
    /\ sent \in 0..MaxSignals

ServerInit ==
    /\ master = "signals"
    /\ queue = << >> /\ known = {} /\ lp = NoPid /\ late = {} /\ ping = {}
    /\ population = Population /\ phoenix = FALSE
    /\ child = [p \in Pid |-> Free]
    /\ sent = 0

Live(p) == child[p].at \notin {"free", "zombie"}
IsWorker(p) == Live(p) /\ child[p].kind # "longpolling"
Of(kind) == {p \in known : child[p].kind = kind}

-----------------------------------------------------------------------------
(* Signals                                                                  *)

\* signal_handler()
Queued(sig) == IF sig = "CHLD" \/ Len(queue) < QueueLimit THEN Append(queue, sig) ELSE queue

Send(sig) ==
    /\ MasterRuns /\ sent < MaxSignals
    /\ sent' = sent + 1
    /\ queue' = Queued(sig)
    /\ UNCHANGED <<master, known, lp, late, population, phoenix, ping, child>>

\* one that starts has the signal in its copy of the queue
Handles(p) == Live(p) /\ child[p].at # "boot"
Missed(p) == [child[p] EXCEPT !.deaf = Live(p)]
Zombie(p) == [Free EXCEPT !.kind = child[p].kind, !.at = "zombie"]

\* SIGINT: signal_handler() of a worker
Interrupted(S) == [p \in Pid |-> IF p \notin S THEN child[p]
                       ELSE IF Handles(p) THEN [child[p] EXCEPT !.alive = FALSE] ELSE Missed(p)]

\* SIGTERM ends a worker
Terminated_Interrupted(S) == Interrupted(S)
Terminated(S) == [p \in Pid |-> IF p \notin S THEN child[p]
                      ELSE IF Handles(p) THEN Zombie(p) ELSE Missed(p)]

-----------------------------------------------------------------------------
(* stop()                                                                   *)

\* the longpolling server is killed in any case
KillLongpolling(c) == lp' = NoPid /\ child' = IF lp \in Pid /\ Live(lp) THEN [c EXCEPT ![lp] = Zombie(lp)] ELSE c

StopGracefully == master' = "wait" /\ KillLongpolling(Interrupted(known))
StopForcefully == master' = "term" /\ KillLongpolling(child)

\* process_signals(): one signal, and the deaths queued before it; a second
\* one that stops ends the wait
Awaited == {i \in DOMAIN queue : queue[i] # "CHLD"}

ProcessSignal ==
    /\ master \in {"signals", "wait"} /\ Awaited # {}
    /\ LET sig == queue[Min(Awaited)] IN
       /\ phoenix' = (phoenix \/ sig = "HUP")
       /\ population' = CASE sig = "TTIN" -> population + 1
                          [] sig = "TTOU" -> population - 1
                          [] OTHER -> population
       /\ \/ sig \in {"TERM", "HUP"} /\ master = "signals" /\ StopGracefully
          \/ sig \in {"TERM", "HUP"} /\ master = "wait" /\ master' = "term" /\ UNCHANGED <<lp, child>>
          \/ sig \notin {"TERM", "HUP"} /\ UNCHANGED <<master, lp, child>>
    /\ queue' = SubSeq(queue, Min(Awaited) + 1, Len(queue))
    /\ UNCHANGED <<known, late, ping, sent>>

\* worker_pop() of the children that waitpid() returns
Reap ==
    LET dead == {p \in Pid : child[p].at = "zombie"} IN
    /\ known' = known \ dead /\ late' = late \ dead /\ ping' = ping \ dead
    /\ lp' = IF lp \in dead THEN NoPid ELSE lp
    /\ child' = [p \in Pid |-> IF p \in dead THEN Free ELSE child[p]]
    /\ UNCHANGED <<population, phoenix, sent>>

WaitZombie == master = "wait" /\ Awaited = {} /\ queue' = << >> /\ Reap /\ UNCHANGED master

\* nobody is left, or the time is over
WaitEnds == master = "wait" /\ master' = "term" /\ UNCHANGED <<memory, ping, child, sent>>

\* another program, or none
Forgets ==
    /\ queue' = << >> /\ known' = {} /\ lp' = NoPid /\ late' = {} /\ ping' = {}
    /\ population' = Population /\ phoenix' = FALSE

\* the master ends; the system reaps its children
Gone(c) ==
    /\ master' = "gone" /\ Forgets
    /\ child' = [p \in Pid |-> IF c[p].at = "zombie" THEN Free ELSE c[p]]
    /\ UNCHANGED sent

\* the workers that are left are terminated, without a wait; run() ends
Terminate ==
    /\ master = "term"
    /\ \/ ~phoenix /\ Gone(Terminated(known))
       \/ phoenix /\ master' = "exec" /\ child' = Terminated(known) /\ UNCHANGED <<memory, ping, sent>>

\* the listening socket: all workers inherit it, and those of cron close it
Holds(p) == HttpEnable /\ IsWorker(p) /\ (child[p].kind = "http" \/ child[p].at = "boot")

\* _reexec() keeps the number of the process, hence its children; bind() fails
\* when the address is in use
Reexec ==
    /\ master = "exec"
    /\ IF \E p \in Pid : Holds(p) THEN Gone(child)
       ELSE master' = "signals" /\ Forgets /\ UNCHANGED <<child, sent>>

\* killed, or out of memory
MasterDies == MasterRuns /\ Gone(child)

-----------------------------------------------------------------------------
(* run()                                                                    *)

Goto(from, to) == master = from /\ master' = to

SignalsDone ==
    /\ Goto("signals", "zombie") /\ Awaited = {} /\ queue' = << >>
    /\ UNCHANGED <<known, lp, late, population, phoenix, ping, child, sent>>

ProcessZombie == Goto("zombie", "timeout") /\ Reap /\ UNCHANGED queue

ProcessTimeout ==
    LET dead == {p \in late : Live(p)} IN
    /\ Goto("timeout", "spawn")
    /\ child' = [p \in Pid |-> IF p \in dead THEN Zombie(p) ELSE child[p]]
    /\ queue' = queue \o [i \in 1..Cardinality(dead) |-> "CHLD"]
    /\ UNCHANGED <<known, lp, late, population, phoenix, ping, sent>>

\* what process_spawn() starts next, if anything
Missing == IF HttpEnable /\ Cardinality(Of("http")) < population THEN "http"
           ELSE IF HttpEnable /\ lp = NoPid THEN "longpolling"
           ELSE IF Cardinality(Of("cron")) < MaxCron THEN "cron" ELSE "none"

Spawn ==
    LET free == {p \in Pid : child[p].at = "free"}  p == Min(free) IN
    /\ master = "spawn" /\ Missing # "none" /\ free # {}
    /\ child' = [child EXCEPT ![p] = [Free EXCEPT !.kind = Missing, !.at = "boot"]]
    /\ IF Missing = "longpolling" THEN lp' = p /\ UNCHANGED known
       ELSE known' = known \cup {p} /\ UNCHANGED lp
    /\ UNCHANGED <<master, queue, late, population, phoenix, ping, sent>>

\* fork() may fail, and does when there is no number left
SpawnFails ==
    /\ master = "spawn" /\ Missing # "none"
    /\ StopForcefully
    /\ UNCHANGED <<queue, known, late, population, phoenix, ping, sent>>

SpawnDone == Goto("spawn", "sleep") /\ Missing = "none" /\ UNCHANGED <<memory, ping, child, sent>>

\* who has pinged gets its time anew
Heard_All == known
Heard == known \cap ping

Sleep ==
    /\ Goto("sleep", "signals")
    /\ late' = late \ Heard /\ ping' = ping \ Heard
    /\ UNCHANGED <<queue, known, lp, population, phoenix, child, sent>>

\* no ping has come for watchdog_timeout; who sleeps pings in time
Late(p) ==
    /\ p \in known \ (late \cup ping) /\ child[p].kind \in Watched
    /\ child[p].at \in {"boot", "work", "stuck"}
    /\ late' = late \cup {p}
    /\ UNCHANGED <<master, queue, known, lp, population, phoenix, ping, child, sent>>

-----------------------------------------------------------------------------
(* The children                                                             *)

Becomes(p, c) == child' = [child EXCEPT ![p] = c] /\ UNCHANGED <<master, memory, sent>>

Dies(p) ==
    /\ child' = [child EXCEPT ![p] = IF master = "gone" THEN Free ELSE Zombie(p)]
    /\ queue' = IF MasterRuns THEN Queued("CHLD") ELSE queue
    /\ UNCHANGED <<master, known, lp, late, population, phoenix, ping, sent>>

\* check_limits(), then the ping, then sleep(): the parent has changed, or a
\* limit is reached
ParentChanged_Unchecked == FALSE
ParentChanged == master = "gone"

Check(p) == \E limit \in BOOLEAN :
    /\ Becomes(p, [child[p] EXCEPT !.at = "sleep", !.alive = ~ParentChanged /\ ~limit])
    /\ ping' = IF p \in known /\ child[p].kind \in Watched THEN ping \cup {p} ELSE ping

\* start(); the longpolling server records who its parent is
Boot(p) ==
    /\ child[p].at = "boot"
    /\ \/ child[p].kind # "longpolling" /\ Check(p)
       \/ /\ child[p].kind = "longpolling" /\ UNCHANGED ping
          /\ Becomes(p, [child[p] EXCEPT !.at = IF master = "gone" THEN "blind" ELSE "serve"])

\* _runloop()
Wake(p) == child[p].at = "sleep" /\ child[p].alive /\ Becomes(p, [child[p] EXCEPT !.at = "work"]) /\ UNCHANGED ping
Work(p) == child[p].at = "work" /\ child[p].alive /\ Check(p)
GetsStuck(p) == child[p].at = "work" /\ Becomes(p, [child[p] EXCEPT !.at = "stuck"]) /\ UNCHANGED ping
Quits(p) == child[p].at \in {"work", "sleep"} /\ ~child[p].alive /\ Dies(p)

\* process_limits() of the longpolling server
LongpollingLeaves(p) == child[p].at = "serve" /\ ParentChanged /\ Dies(p)

\* an error, or a limit of the system
Fails(p) == Live(p) /\ Dies(p)

-----------------------------------------------------------------------------
MasterStep == \/ ProcessSignal \/ SignalsDone \/ ProcessZombie \/ ProcessTimeout
              \/ Spawn \/ SpawnFails \/ SpawnDone \/ Sleep
              \/ WaitZombie \/ WaitEnds \/ Terminate \/ Reexec
ChildStep(p) == Boot(p) \/ Wake(p) \/ Work(p) \/ Quits(p) \/ LongpollingLeaves(p) \/ Late(p)

ServerNext == \/ MasterStep \/ MasterDies
        \/ \E sig \in UserSignals : Send(sig)
        \/ \E p \in Pid : ChildStep(p) \/ GetsStuck(p) \/ Fails(p)

ServerSpec == ServerInit /\ [][ServerNext]_serverVars

(* The loops of the master and of its children go on; clocks do too.        *)
ServerFairness == WF_serverVars(MasterStep) /\ \A p \in Pid : WF_serverVars(ChildStep(p))
ServerFairSpec == ServerSpec /\ ServerFairness

-----------------------------------------------------------------------------
(* Properties                                                               *)

(* The master knows each child it has, so that watchdog and stop reach it,  *)
(* and a number it may send a signal to belongs to a child of its own.  A   *)
(* master that restarted has none of the workers of the former one but      *)
(* those that missed its signals while they started.                        *)
ChildrenAreKnown == MasterRuns =>
    /\ \A p \in Pid : Live(p) => p \in known \cup {lp} \/ child[p].deaf
    /\ \A p \in known \cup ({lp} \ {NoPid}) : child[p].at # "free"

(* A watched worker that hangs is killed: by the watchdog, or when the      *)
(* graceful stop has waited long enough.                                    *)
StuckGoes == \A p \in Pid :
    child[p].at = "stuck" /\ child[p].kind \in Watched ~> child[p].at # "stuck" \/ master = "gone"

(* However the master ends, the workers end: those that missed the signals  *)
(* while they started see that their parent has changed.                    *)
WorkersEnd == master = "gone" ~> \A p \in Pid : ~IsWorker(p) \/ child[p].at = "stuck"

(* process_limits(): the longpolling server, too, ends when its parent has  *)
(* changed.                                                                 *)
LongpollingEnds == master = "gone" ~> \A p \in Pid : child[p].kind # "longpolling" \/ ~Live(p)

(* signal_handler(): a signal that stops or restarts the server does so.    *)
StopIsObeyed == sent = 1 ~> master \notin Loop

(* "restart on kill -HUP"                                                   *)
ComesBack == master = "exec" ~> master = "signals"

(* ChildrenAreKnown without its exception.                                  *)
NoStrangers == MasterRuns => \A p \in Pid : Live(p) => p \in known \cup {lp}
==============================================================================
