----------------------------- MODULE SshSession -----------------------------
(***************************************************************************)
(* The SSH session and the tasks that share it: loop() sends keys and runs *)
(* the ssh and dc commands, sshConnectTask builds the session,      *)
(* sshReceiveTask reads the shell's channel, and transfers open a second   *)
(* channel after they deleted the receive task.  Two mutexes, ssh_io_mutex *)
(* and state_mutex, are taken by some of them; deleting a task does not    *)
(* give back what it owns.                                                 *)
(***************************************************************************)
EXTENDS Naturals

CONSTANTS
  Loop,           \* the task that runs loop()
  Execs,          \* the transfer tasks: they open an exec channel
  Receivers,      \* bound: receive tasks alive at a time, a further one is not started
  Connects,       \* bound: connect tasks, likewise
  None, Dead,     \* no task; a deleted task, as an owner
  UserDoes,       \* key, dc
  Faults,         \* what can happen meanwhile: drop, refuse
  MaxFailures,    \* bound: how often it happens
  MaxStarts       \* bound: dc commands and transfers started

Tasks == {Loop} \cup Execs \cup Receivers \cup Connects

ASSUME SessionAssumption ==
  /\ None \notin Tasks /\ Dead \notin Tasks /\ None # Dead
  /\ Loop \notin Execs \cup Receivers \cup Connects
  /\ Execs \cap Receivers = {} /\ Execs \cap Connects = {} /\ Receivers \cap Connects = {}
  /\ Receivers # {}
  /\ UserDoes \subseteq {"key", "dc"} /\ Faults \subseteq {"drop", "refuse"}
  /\ MaxFailures \in Nat /\ MaxStarts \in Nat

VARIABLES
  ssh_connected, ssh_connecting,
  ssh_sess, ssh_chan,         \* null, live, broken; null, open
  ssh_recv_task_handle,
  ssh_io_mutex, state_mutex,  \* their owners
  pc,                         \* where each task is
  freeing,                    \* where each task is inside sshDisconnect
  attempt, paused_recv,       \* locals of the exec tasks
  failures, starts            \* bound counters

flags   == <<ssh_connected, ssh_connecting>>
libssh  == <<ssh_sess, ssh_chan>>
locks   == <<ssh_io_mutex, state_mutex>>
locals  == <<attempt, paused_recv>>
bounds  == <<failures, starts>>
vars == <<flags, libssh, ssh_recv_task_handle, locks, pc, freeing, locals, bounds>>

LoopPc    == {"idle", "key", "write", "connect", "dc"}
ReceivePc == {"dead", "top", "read", "append", "drain", "drainread", "eof", "closed", "clear"}
ConnectPc == {"dead", "start", "handshake", "channel", "shell", "clear", "launch", "end"}
ExecPc    == {"idle", "ensure", "connect", "wait", "pause", "open", "recover", "stream",
              "resume", "respawn", "done"}

TypeOK ==
  /\ ssh_connected \in BOOLEAN /\ ssh_connecting \in BOOLEAN
  /\ ssh_sess \in {"null", "live", "broken"} /\ ssh_chan \in {"null", "open"}
  /\ ssh_recv_task_handle \in Receivers \cup {None}
  /\ ssh_io_mutex \in {Loop, None, Dead} \cup Receivers
  /\ state_mutex \in {Loop, None, Dead} \cup Receivers
  /\ pc \in [Tasks -> LoopPc \cup ReceivePc \cup ConnectPc \cup ExecPc]
  /\ pc[Loop] \in LoopPc
  /\ \A r \in Receivers : pc[r] \in ReceivePc
  /\ \A c \in Connects : pc[c] \in ConnectPc
  /\ \A x \in Execs : pc[x] \in ExecPc
  /\ freeing \in [Tasks -> {"out", "delete", "free"}]
  /\ attempt \in [Execs -> {"first", "retry"}] /\ paused_recv \in [Execs -> BOOLEAN]
  /\ ssh_recv_task_handle # None => pc[ssh_recv_task_handle] # "dead"
  /\ failures \in 0 .. MaxFailures /\ starts \in 0 .. MaxStarts

Init ==
  /\ ssh_connected = FALSE /\ ssh_connecting = FALSE
  /\ ssh_sess = "null" /\ ssh_chan = "null" /\ ssh_recv_task_handle = None
  /\ ssh_io_mutex = None /\ state_mutex = None
  /\ pc = [t \in Tasks |-> IF t \in {Loop} \cup Execs THEN "idle" ELSE "dead"]
  /\ freeing = [t \in Tasks |-> "out"]
  /\ attempt = [x \in Execs |-> "first"] /\ paused_recv = [x \in Execs |-> FALSE]
  /\ failures = 0 /\ starts = 0

-----------------------------------------------------------------------------
(* Tasks that start and end other tasks.                                   *)

At(t, where) == pc[t] = where /\ freeing[t] = "out"
Goto(t, at) == pc' = [pc EXCEPT ![t] = at]

\* A task of the pool that does not run; which one makes no difference.
Unused(pool) == {k \in pool : pc[k] = "dead"}
Fresh(pool) == CHOOSE k \in Unused(pool) : TRUE

\* vTaskDelete(ssh_recv_task_handle), handle = NULL: what it owns stays taken.
Orphaned(mutex) == IF mutex = ssh_recv_task_handle THEN Dead ELSE mutex
DeleteReceiver(t, at) ==
  IF ssh_recv_task_handle = None THEN Goto(t, at) /\ UNCHANGED <<ssh_recv_task_handle, locks>>
  ELSE /\ pc' = [pc EXCEPT ![t] = at, ![ssh_recv_task_handle] = "dead"]
       /\ ssh_io_mutex' = Orphaned(ssh_io_mutex) /\ state_mutex' = Orphaned(state_mutex)
       /\ ssh_recv_task_handle' = None

\* sshConnectAsync: the two flags are tested here and ssh_connecting set in
\* ConnectAsync.
MayConnect == ~ssh_connecting /\ ~ssh_connected
ConnectAsync(t, at) ==
  /\ ssh_connecting' = TRUE
  /\ IF Unused(Connects) = {} THEN Goto(t, at)
     ELSE pc' = [pc EXCEPT ![t] = at, ![Fresh(Connects)] = "start"]
  /\ UNCHANGED <<ssh_connected, libssh, ssh_recv_task_handle, locks, freeing, locals, bounds>>

-----------------------------------------------------------------------------
(* sshDisconnect, called by dc, by sshConnect and by a transfer that found *)
(* the session stale.  Neither mutex is taken.                             *)

FreeNext(t, step) == freeing' = [freeing EXCEPT ![t] = step]

\* The receive task is deleted and ssh_connected cleared,
DisconnectTask(t) ==
  /\ freeing[t] = "delete"
  /\ DeleteReceiver(t, pc[t])
  /\ ssh_connected' = FALSE
  /\ FreeNext(t, "free")
  /\ UNCHANGED <<ssh_connecting, libssh, locals, bounds>>

\* then channel and session are closed, over the network, and freed.
DisconnectFree(t) ==
  /\ freeing[t] = "free"
  /\ ssh_chan' = "null" /\ ssh_sess' = "null"
  /\ FreeNext(t, "out")
  /\ UNCHANGED <<flags, ssh_recv_task_handle, locks, pc, locals, bounds>>

sshDisconnect(t) == DisconnectTask(t) \/ DisconnectFree(t)

-----------------------------------------------------------------------------
(* sshConnectTask.                                                         *)

\* A step fails because it has to, or because the network or the host says no.
FailsIf(condition) ==
  \/ condition /\ UNCHANGED failures
  \/ "refuse" \in Faults /\ failures < MaxFailures /\ failures' = failures + 1

\* Not on WiFi, or connected meanwhile, is the end; else clean up first.
ConnectStart(c) ==
  /\ At(c, "start")
  /\ ~ssh_connected
  /\ Goto(c, "handshake") /\ FreeNext(c, "delete")
  /\ UNCHANGED <<flags, libssh, ssh_recv_task_handle, locks, locals, bounds>>

ConnectNot(c) ==
  /\ At(c, "start")
  /\ FailsIf(ssh_connected)
  /\ Goto(c, "end")
  /\ UNCHANGED <<flags, libssh, ssh_recv_task_handle, locks, freeing, locals, starts>>

\* sshTryConnect, direct or over the VPN.
ConnectHandshake(c) ==
  /\ At(c, "handshake")
  /\ ssh_sess' = "live"
  /\ Goto(c, "channel")
  /\ UNCHANGED <<flags, ssh_chan, ssh_recv_task_handle, locks, freeing, locals, bounds>>

ConnectChannel(c) ==
  /\ At(c, "channel")
  /\ ssh_sess = "live"
  /\ ssh_chan' = "open"
  /\ Goto(c, "shell")
  /\ UNCHANGED <<flags, ssh_sess, ssh_recv_task_handle, locks, freeing, locals, bounds>>

\* The shell runs: ssh_connected is set before there is a receive task.
ConnectShell(c) ==
  /\ At(c, "shell")
  /\ ssh_sess = "live" /\ ssh_chan = "open"
  /\ ssh_connected' = TRUE
  /\ Goto(c, "clear")
  /\ UNCHANGED <<ssh_connecting, libssh, ssh_recv_task_handle, locks, freeing, locals, bounds>>

\* Any of these fails: what was built is freed.
ConnectFails(c) ==
  /\ \/ At(c, "handshake") /\ FailsIf(FALSE)
     \/ At(c, "channel") /\ FailsIf(ssh_sess # "live")
     \/ At(c, "shell") /\ FailsIf(ssh_sess # "live" \/ ssh_chan = "null")
  /\ ssh_sess' = "null" /\ ssh_chan' = "null"
  /\ Goto(c, "end")
  /\ UNCHANGED <<flags, ssh_recv_task_handle, locks, freeing, locals, starts>>

\* terminalClear under state_mutex, taken with portMAX_DELAY.
ConnectClear(c) ==
  /\ At(c, "clear")
  /\ state_mutex = None
  /\ Goto(c, "launch")
  /\ UNCHANGED <<flags, libssh, ssh_recv_task_handle, locks, freeing, locals, bounds>>

\* The new receive task is the one the handle names, whatever it named before.
Launch(t, at) ==
  IF Unused(Receivers) = {} THEN Goto(t, at) /\ UNCHANGED ssh_recv_task_handle
  ELSE /\ pc' = [pc EXCEPT ![t] = at, ![Fresh(Receivers)] = "top"]
       /\ ssh_recv_task_handle' = Fresh(Receivers)

ConnectLaunch(c) ==
  /\ At(c, "launch")
  /\ Launch(c, "end")
  /\ UNCHANGED <<flags, libssh, locks, freeing, locals, bounds>>

\* Mutant: ssh_connecting is cleared on success only.
ConnectEndConnected(c) ==
  /\ At(c, "end")
  /\ ssh_connecting' = (ssh_connecting /\ ~ssh_connected)
  /\ Goto(c, "dead")
  /\ UNCHANGED <<ssh_connected, libssh, ssh_recv_task_handle, locks, freeing, locals, bounds>>

ConnectEnd(c) ==
  /\ At(c, "end")
  /\ ssh_connecting' = FALSE
  /\ Goto(c, "dead")
  /\ UNCHANGED <<ssh_connected, libssh, ssh_recv_task_handle, locks, freeing, locals, bounds>>

ConnectStep(c) ==
  \/ ConnectStart(c) \/ ConnectNot(c) \/ ConnectHandshake(c) \/ ConnectChannel(c) \/ ConnectShell(c)
  \/ ConnectFails(c) \/ ConnectClear(c) \/ ConnectLaunch(c) \/ ConnectEnd(c)

-----------------------------------------------------------------------------
(* sshReceiveTask.                                                         *)

\* A free ssh_io_mutex is taken; a taken one is tried again after a delay.
ReceiveLock(r) ==
  /\ pc[r] = "top"
  /\ ssh_connected /\ ssh_chan = "open"
  /\ ssh_io_mutex = None
  /\ ssh_io_mutex' = r
  /\ Goto(r, "read")
  /\ UNCHANGED <<flags, libssh, ssh_recv_task_handle, state_mutex, freeing, locals, bounds>>

\* Data, none, or an error when the session broke (or was freed).
ReceiveRead(r) ==
  /\ pc[r] = "read"
  /\ ssh_io_mutex' = None
  /\ \E at \in IF ssh_sess = "live" THEN {"append", "eof"} ELSE {"append", "eof", "closed"} :
       Goto(r, at)
  /\ UNCHANGED <<flags, libssh, ssh_recv_task_handle, state_mutex, freeing, locals, bounds>>

\* state_mutex is taken with portMAX_DELAY for terminalAppendOutput,
ReceiveAppend(r) ==
  /\ pc[r] = "append"
  /\ state_mutex = None
  /\ state_mutex' = r
  /\ Goto(r, "drain")
  /\ UNCHANGED <<flags, libssh, ssh_recv_task_handle, ssh_io_mutex, freeing, locals, bounds>>

\* and kept while more is read (bound: one pass of the ten),
ReceiveDrain(r) ==
  /\ pc[r] = "drain"
  /\ ssh_io_mutex = None
  /\ ssh_io_mutex' = r
  /\ Goto(r, "drainread")
  /\ UNCHANGED <<flags, libssh, ssh_recv_task_handle, state_mutex, freeing, locals, bounds>>

ReceiveDrained(r) ==
  /\ pc[r] = "drainread"
  /\ ssh_io_mutex' = None /\ state_mutex' = None
  /\ Goto(r, "top")
  /\ UNCHANGED <<flags, libssh, ssh_recv_task_handle, freeing, locals, bounds>>

\* or until ssh_io_mutex cannot be had in its 20 ms.
ReceiveGive(r) ==
  /\ pc[r] = "drain"
  /\ state_mutex' = None
  /\ Goto(r, "top")
  /\ UNCHANGED <<flags, libssh, ssh_recv_task_handle, ssh_io_mutex, freeing, locals, bounds>>

\* ssh_channel_is_eof is asked only when ssh_io_mutex can be had.
ReceiveEof(r) ==
  /\ pc[r] = "eof"
  /\ IF ssh_io_mutex = None /\ ssh_sess # "live" THEN Goto(r, "closed") ELSE Goto(r, "top")
  /\ UNCHANGED <<flags, libssh, ssh_recv_task_handle, locks, freeing, locals, bounds>>

ReceiveClosed(r) ==
  /\ pc[r] = "closed"
  /\ ssh_connected' = FALSE
  /\ Goto(r, "clear")
  /\ UNCHANGED <<ssh_connecting, libssh, ssh_recv_task_handle, locks, freeing, locals, bounds>>

ReceiveClear(r) ==
  /\ pc[r] = "clear"
  /\ state_mutex = None
  /\ Goto(r, "top")
  /\ UNCHANGED <<flags, libssh, ssh_recv_task_handle, locks, freeing, locals, bounds>>

ReceiveStep(r) ==
  \/ ReceiveLock(r) \/ ReceiveRead(r) \/ ReceiveAppend(r) \/ ReceiveDrain(r)
  \/ ReceiveDrained(r) \/ ReceiveGive(r) \/ ReceiveEof(r) \/ ReceiveClosed(r)
  \/ ReceiveClear(r)

-----------------------------------------------------------------------------
(* Transfers, as users of the session.                                     *)

ExecStart(x) ==
  /\ At(x, "idle") /\ starts < MaxStarts
  /\ starts' = starts + 1
  /\ Goto(x, "ensure")
  /\ UNCHANGED <<flags, libssh, ssh_recv_task_handle, locks, freeing, locals, failures>>

\* ensureSshForTransfer.
Usable == ssh_connected /\ ssh_sess # "null"
GiveUp(x) == IF attempt[x] = "first" THEN "done" ELSE "resume"

ExecEnsure(x) ==
  /\ At(x, "ensure")
  /\ Goto(x, IF Usable THEN "pause" ELSE IF MayConnect THEN "connect" ELSE "wait")
  /\ UNCHANGED <<flags, libssh, ssh_recv_task_handle, locks, freeing, locals, bounds>>

ExecConnect(x) == At(x, "connect") /\ ConnectAsync(x, "wait")

\* Mutant: the wait has no timeout and does not look at ssh_connecting.
ExecWaitForEver(x) ==
  /\ At(x, "wait")
  /\ ssh_connected
  /\ Goto(x, IF Usable THEN "pause" ELSE GiveUp(x))
  /\ UNCHANGED <<flags, libssh, ssh_recv_task_handle, locks, freeing, locals, bounds>>

\* Connected, no longer connecting, or TRANSFER_SSH_WAIT_MS have passed.
ExecWait(x) ==
  /\ At(x, "wait")
  /\ Goto(x, IF Usable THEN "pause" ELSE GiveUp(x))
  /\ UNCHANGED <<flags, libssh, ssh_recv_task_handle, locks, freeing, locals, bounds>>

\* Mutant: the handle is not set to NULL.
ExecPauseKeepsHandle(x) ==
  /\ At(x, "pause")
  /\ paused_recv' = [paused_recv EXCEPT ![x] = @ \/ ssh_recv_task_handle # None]
  /\ pc' = [t \in Tasks |-> IF t = x THEN "open"
                            ELSE IF t = ssh_recv_task_handle THEN "dead" ELSE pc[t]]
  /\ UNCHANGED <<flags, libssh, ssh_recv_task_handle, locks, freeing, attempt, bounds>>

\* pauseSshReceiveTaskForExec.
ExecPause(x) ==
  /\ At(x, "pause")
  /\ paused_recv' = [paused_recv EXCEPT ![x] = @ \/ ssh_recv_task_handle # None]
  /\ DeleteReceiver(x, "open")
  /\ UNCHANGED <<flags, libssh, freeing, attempt, bounds>>

\* sshOpenExecChannel, and the stream that follows.
ExecOpen(x) ==
  /\ At(x, "open")
  /\ ssh_connected /\ ssh_sess = "live"
  /\ Goto(x, "stream")
  /\ UNCHANGED <<flags, libssh, ssh_recv_task_handle, locks, freeing, locals, bounds>>

\* A stale session: disconnect, connect again, one more try.
ExecOpenFails(x) ==
  /\ At(x, "open")
  /\ FailsIf(~(ssh_connected /\ ssh_sess = "live"))
  /\ IF attempt[x] = "first" THEN Goto(x, "recover") /\ FreeNext(x, "delete")
     ELSE Goto(x, "resume") /\ UNCHANGED freeing
  /\ UNCHANGED <<flags, libssh, ssh_recv_task_handle, locks, locals, starts>>

ExecRecover(x) ==
  /\ At(x, "recover")
  /\ attempt' = [attempt EXCEPT ![x] = "retry"]
  /\ Goto(x, "ensure")
  /\ UNCHANGED <<flags, libssh, ssh_recv_task_handle, locks, freeing, paused_recv, bounds>>

ExecStream(x) ==
  /\ At(x, "stream")
  /\ Goto(x, "resume")
  /\ UNCHANGED <<flags, libssh, ssh_recv_task_handle, locks, freeing, locals, bounds>>

\* Mutant: the receive task is not started again.
ExecResumeNot(x) ==
  /\ At(x, "resume")
  /\ Goto(x, "done")
  /\ UNCHANGED <<flags, libssh, ssh_recv_task_handle, locks, freeing, locals, bounds>>

\* resumeSshReceiveTaskForExec: the tests, then the new task.
ExecResume(x) ==
  /\ At(x, "resume")
  /\ Goto(x, IF paused_recv[x] /\ ssh_recv_task_handle = None /\ ssh_connected /\ ssh_chan = "open"
             THEN "respawn" ELSE "done")
  /\ UNCHANGED <<flags, libssh, ssh_recv_task_handle, locks, freeing, locals, bounds>>

ExecRespawn(x) ==
  /\ At(x, "respawn")
  /\ Launch(x, "done")
  /\ UNCHANGED <<flags, libssh, locks, freeing, locals, bounds>>

\* The running flag is cleared; the locals are gone with the task.
ExecDone(x) ==
  /\ At(x, "done")
  /\ attempt' = [attempt EXCEPT ![x] = "first"]
  /\ paused_recv' = [paused_recv EXCEPT ![x] = FALSE]
  /\ Goto(x, "idle")
  /\ UNCHANGED <<flags, libssh, ssh_recv_task_handle, locks, freeing, bounds>>

ExecStep(x) ==
  \/ ExecEnsure(x) \/ ExecConnect(x) \/ ExecWait(x) \/ ExecPause(x) \/ ExecOpen(x)
  \/ ExecOpenFails(x) \/ ExecRecover(x) \/ ExecStream(x) \/ ExecResume(x) \/ ExecRespawn(x)
  \/ ExecDone(x)

-----------------------------------------------------------------------------
(* loop().                                                                 *)

\* A key event takes state_mutex (25 ms, or the event is dropped).
KeyTake ==
  /\ "key" \in UserDoes /\ At(Loop, "idle")
  /\ state_mutex = None
  /\ state_mutex' = Loop
  /\ Goto(Loop, "key")
  /\ UNCHANGED <<flags, libssh, ssh_recv_task_handle, ssh_io_mutex, freeing, locals, bounds>>

\* sshSendKey, sshSendString.
KeyLock ==
  /\ At(Loop, "key")
  /\ ssh_connected /\ ssh_chan = "open" /\ ssh_io_mutex = None
  /\ ssh_io_mutex' = Loop
  /\ Goto(Loop, "write")
  /\ UNCHANGED <<flags, libssh, ssh_recv_task_handle, state_mutex, freeing, locals, bounds>>

\* Not connected, or ssh_io_mutex not had within 20 ms: nothing is sent.
KeyDropped ==
  /\ At(Loop, "key")
  /\ ~ssh_connected \/ ssh_chan = "null" \/ ssh_io_mutex # None
  /\ state_mutex' = None
  /\ Goto(Loop, "idle")
  /\ UNCHANGED <<flags, libssh, ssh_recv_task_handle, ssh_io_mutex, freeing, locals, bounds>>

KeyWritten ==
  /\ At(Loop, "write")
  /\ ssh_io_mutex' = None /\ state_mutex' = None
  /\ Goto(Loop, "idle")
  /\ UNCHANGED <<flags, libssh, ssh_recv_task_handle, freeing, locals, bounds>>

\* ssh, and loop() every 5 s while the terminal is shown.
AutoConnect ==
  /\ At(Loop, "idle")
  /\ MayConnect
  /\ Goto(Loop, "connect")
  /\ UNCHANGED <<flags, libssh, ssh_recv_task_handle, locks, freeing, locals, bounds>>

LoopConnect == At(Loop, "connect") /\ ConnectAsync(Loop, "idle")

Disconnect ==
  /\ "dc" \in UserDoes /\ At(Loop, "idle") /\ starts < MaxStarts
  /\ starts' = starts + 1
  /\ Goto(Loop, "dc") /\ FreeNext(Loop, "delete")
  /\ UNCHANGED <<flags, libssh, ssh_recv_task_handle, locks, locals, failures>>

LoopDone ==
  /\ At(Loop, "dc")
  /\ Goto(Loop, "idle")
  /\ UNCHANGED <<flags, libssh, ssh_recv_task_handle, locks, freeing, locals, bounds>>

LoopStep == KeyLock \/ KeyDropped \/ KeyWritten \/ LoopConnect \/ LoopDone

\* The host closes the session or the network loses it.
SessionDrops ==
  /\ "drop" \in Faults /\ failures < MaxFailures
  /\ ssh_sess = "live"
  /\ ssh_sess' = "broken" /\ failures' = failures + 1
  /\ UNCHANGED <<flags, ssh_chan, ssh_recv_task_handle, locks, pc, freeing, locals, starts>>

-----------------------------------------------------------------------------
User == KeyTake \/ Disconnect \/ \E x \in Execs : ExecStart(x)

Next ==
  \/ User \/ AutoConnect \/ LoopStep \/ SessionDrops
  \/ \E t \in Tasks : sshDisconnect(t)
  \/ \E c \in Connects : ConnectStep(c)
  \/ \E r \in Receivers : ReceiveStep(r)
  \/ \E x \in Execs : ExecStep(x)

Spec == Init /\ [][Next]_vars

(* Every task that runs keeps running, and one that waits for a mutex, or   *)
(* tries it again and again, gets it when it is free again and again.  A    *)
(* session that broke is read as closed some time, and loop() gets to its   *)
(* five-second check between two keys.  The user owes nothing.              *)
FairSpec ==
  /\ Spec
  /\ WF_vars(LoopStep \/ sshDisconnect(Loop)) /\ SF_vars(AutoConnect)
  /\ \A x \in Execs : WF_vars(ExecStep(x) \/ sshDisconnect(x))
  /\ \A c \in Connects : SF_vars(ConnectStep(c) \/ sshDisconnect(c))
  /\ \A r \in Receivers :
       SF_vars(ReceiveStep(r)) /\ SF_vars(ReceiveRead(r) /\ pc'[r] = "closed")

-----------------------------------------------------------------------------
(* Properties.                                                             *)

Busy == \/ \E x \in Execs : pc[x] # "idle"
        \/ \E c \in Connects : pc[c] # "dead"
        \/ \E t \in Tasks : freeing[t] # "out"

\* What can leave the terminal dead for good: a mutex whose owner was deleted,
\* and a session freed while another task was setting it up.
LockLost == ssh_io_mutex = Dead \/ state_mutex = Dead
HalfFreed == ssh_connected /\ (ssh_chan = "null" \/ ssh_sess = "null")

\* Once transfers and connection attempts are over, a connected shell has a
\* receive task: pausing, reconnecting and resuming always leave one.
ShellIsHeard == ssh_connected /\ ~HalfFreed /\ ~Busy => ssh_recv_task_handle # None

\* Every transfer ends and clears its running flag.
ExecEnds == \A x \in Execs : (pc[x] # "idle") ~> (pc[x] = "idle")

\* A session that ended is connected again, unless one of those happened.
Reconnects ==
  []<>(\/ ssh_connected /\ ssh_sess = "live" /\ ssh_recv_task_handle # None
       \/ LockLost \/ HalfFreed)

=============================================================================
