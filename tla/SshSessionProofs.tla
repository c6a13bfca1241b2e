-------------------------- MODULE SshSessionProofs --------------------------
(***************************************************************************)
(* However transfers pause the receive task, sessions are built, broken    *)
(* and taken down, and the dc command falls between them, a connected      *)
(* shell at rest has a receive task: for any number of tasks, of failures  *)
(* and of commands.                                                        *)
(***************************************************************************)
EXTENDS SshSession, TLAPS

(* A receive task does not take a session down. *)
ReceiversOnlyRead == \A r \in Receivers : freeing[r] = "out"

(* While no receive task is known one can be started: the pool is full only *)
(* with the one the handle names.                                          *)
Spare == ssh_recv_task_handle = None => Unused(Receivers) # {}

(* A transfer that paused the receive task, and came back to the wait or to *)
(* the pause, is at its second attempt: giving up leads it to "resume".     *)
PausedRetries ==
  \A x \in Execs : paused_recv[x] =>
    /\ pc[x] # "idle"
    /\ pc[x] \in {"ensure", "connect", "wait", "pause"} => attempt[x] = "retry"

(* Who is bound to start a receive task, or to find out that there is no    *)
(* shell to read.                                                          *)
Owes == \/ \E c \in Connects : pc[c] \in {"shell", "clear", "launch"}
        \/ \E x \in Execs : paused_recv[x] /\ pc[x] # "done"

Heard == ssh_connected /\ ssh_chan = "open" => ssh_recv_task_handle # None \/ Owes

IInv == TypeOK /\ ReceiversOnlyRead /\ Spare /\ PausedRetries /\ Heard

(* The part of TypeOK about where the tasks are. *)
Places ==
  /\ pc \in [Tasks -> LoopPc \cup ReceivePc \cup ConnectPc \cup ExecPc]
  /\ pc[Loop] \in LoopPc
  /\ \A r \in Receivers : pc[r] \in ReceivePc
  /\ \A c \in Connects : pc[c] \in ConnectPc
  /\ \A x \in Execs : pc[x] \in ExecPc

-----------------------------------------------------------------------------
(* The four kinds of task are different. *)
LEMMA Kinds ==
  ASSUME SessionAssumption
  PROVE  /\ Loop \in Tasks /\ Loop \notin Execs /\ Loop \notin Receivers /\ Loop \notin Connects
         /\ \A x \in Execs : x \in Tasks /\ x # None /\ x \notin Receivers /\ x \notin Connects
         /\ \A r \in Receivers : r \in Tasks /\ r # None /\ r # Dead /\ r \notin Connects
         /\ \A c \in Connects : c \in Tasks /\ c # None
  BY DEF SessionAssumption, Tasks

(* An unused task of a pool is one of it, and it is dead. *)
LEMMA FreshUnused ==
  ASSUME NEW pool, Unused(pool) # {}
  PROVE  Fresh(pool) \in pool /\ pc[Fresh(pool)] = "dead"
  <1>1. Fresh(pool) \in Unused(pool)
    BY DEF Fresh
  <1> QED BY <1>1 DEF Unused

(* A flag that keeps its value, or gets one of the two, is a flag. *)
LEMMA FlagStep ==
  ASSUME NEW old \in BOOLEAN, NEW new, new = old \/ new = TRUE \/ new = FALSE
  PROVE  new \in BOOLEAN
  <1>1. CASE new = old  BY <1>1
  <1>2. CASE new = TRUE  BY <1>2, Zenon
  <1>3. CASE new = FALSE  BY <1>3, Zenon
  <1> QED BY <1>1, <1>2, <1>3

(* A step of the receive task moves that task, and neither starts a        *)
(* session nor gives up the handle.                                        *)
LEMMA ReceiveIInv ==
  ASSUME SessionAssumption, IInv, NEW r \in Receivers, ReceiveStep(r)
  PROVE  IInv'
  <1> USE Kinds
  <1> DEFINE Moves ==
        /\ pc[r] # "dead" /\ \E at \in ReceivePc \ {"dead"} : Goto(r, at)
        /\ ssh_connected' = ssh_connected \/ ssh_connected' = FALSE
        /\ ssh_io_mutex' \in {ssh_io_mutex, None, r}
        /\ state_mutex' \in {state_mutex, None, r}
        /\ UNCHANGED <<ssh_connecting, libssh, ssh_recv_task_handle, freeing, locals, bounds>>
  <1>1. Moves
    <2> USE DEF flags, locks, ReceivePc
    <2>1. CASE ReceiveLock(r)    BY <2>1 DEF ReceiveLock
    <2>2. CASE ReceiveRead(r)    BY <2>2 DEF ReceiveRead
    <2>3. CASE ReceiveAppend(r)  BY <2>3 DEF ReceiveAppend
    <2>4. CASE ReceiveDrain(r)   BY <2>4 DEF ReceiveDrain
    <2>5. CASE ReceiveDrained(r) BY <2>5 DEF ReceiveDrained
    <2>6. CASE ReceiveGive(r)    BY <2>6 DEF ReceiveGive
    <2>7. CASE ReceiveEof(r)     BY <2>7 DEF ReceiveEof
    <2>8. CASE ReceiveClosed(r)  BY <2>8 DEF ReceiveClosed
    <2>9. CASE ReceiveClear(r)   BY <2>9 DEF ReceiveClear
    <2> QED BY <2>1, <2>2, <2>3, <2>4, <2>5, <2>6, <2>7, <2>8, <2>9 DEF ReceiveStep
  <1>2. PICK at \in ReceivePc \ {"dead"} : Goto(r, at)
    BY <1>1
  <1>3. pc' = [pc EXCEPT ![r] = at]
    BY <1>2 DEF Goto
  <1>4. /\ ssh_connected' \in BOOLEAN
        /\ ssh_connected' => ssh_connected
    <2>1. ssh_connected \in BOOLEAN
      BY DEF IInv, TypeOK
    <2>2. ssh_connected' = ssh_connected \/ ssh_connected' = FALSE
      BY <1>1
    <2>3. CASE ssh_connected' = ssh_connected
      BY <2>1, <2>3
    <2>4. CASE ssh_connected' = FALSE
      <3>1. ssh_connected' \in BOOLEAN
        BY ONLY <2>4, Zenon
      <3> QED BY <2>4, <3>1
    <2> QED BY <2>2, <2>3, <2>4
  <1>5. /\ pc' \in [Tasks -> LoopPc \cup ReceivePc \cup ConnectPc \cup ExecPc]
        /\ \A t \in Tasks \ {r} : pc'[t] = pc[t]
        /\ pc'[r] \in ReceivePc /\ pc'[r] # "dead"
    BY <1>3 DEF IInv, TypeOK
  <1>6. TypeOK'
    BY <1>1, <1>4, <1>5 DEF IInv, TypeOK, libssh, locals, bounds
  <1>7. ReceiversOnlyRead' /\ PausedRetries'
    BY <1>1, <1>5 DEF IInv, ReceiversOnlyRead, PausedRetries, locals
  <1>8. Spare'
    <2>1. ssh_recv_task_handle' = ssh_recv_task_handle
      BY <1>1
    <2>2. \A k \in Receivers : pc[k] = "dead" => pc'[k] = "dead"
      BY <1>1, <1>5
    <2> QED BY <2>1, <2>2 DEF IInv, Spare, Unused
  <1>9. Heard'
    BY <1>1, <1>4, <1>5 DEF IInv, Heard, Owes, libssh, locals
  <1> QED BY <1>6, <1>7, <1>8, <1>9 DEF IInv

(* The same of a task of any kind that moves alone: the others stay, and so *)
(* do the types of the places and the room for a receive task.             *)
LEMMA OneMoves ==
  ASSUME SessionAssumption, IInv, NEW t \in Tasks, NEW at, Goto(t, at),
         UNCHANGED ssh_recv_task_handle,
         \/ t = Loop /\ at \in LoopPc
         \/ t \in Connects /\ at \in ConnectPc
         \/ t \in Execs /\ at \in ExecPc
  PROVE  /\ Places' /\ Spare'
         /\ pc'[t] = at /\ \A k \in Tasks \ {t} : pc'[k] = pc[k]
         /\ ssh_recv_task_handle' # None => pc'[ssh_recv_task_handle'] # "dead"
  <1> USE Kinds
  <1>1. t \notin Receivers
    OBVIOUS
  <1>2. /\ pc' \in [Tasks -> LoopPc \cup ReceivePc \cup ConnectPc \cup ExecPc]
        /\ pc'[t] = at /\ \A k \in Tasks \ {t} : pc'[k] = pc[k]
    BY DEF Goto, IInv, TypeOK
  <1>3. Places'
    BY <1>1, <1>2 DEF Places, IInv, TypeOK
  <1>4. \A r \in Receivers : pc'[r] = pc[r]
    BY <1>1, <1>2
  <1>5. Spare'
    BY <1>4 DEF IInv, Spare, Unused
  <1> QED BY <1>2, <1>3, <1>4, <1>5 DEF IInv, TypeOK

(* A connection attempt, up to the start of the receive task: it opens the *)
(* channel on its way to the shell and sets ssh_connected when it has one,  *)
(* and where it fails there is no channel.                                 *)
LEMMA ConnectIInv ==
  ASSUME SessionAssumption, IInv, NEW c \in Connects, ConnectStep(c), ~ConnectLaunch(c)
  PROVE  IInv'
  <1> USE Kinds
  <1> DEFINE Builds == {"shell", "clear", "launch"}
             Moves(at) ==
               /\ Goto(c, at)
               /\ \/ ssh_chan' = ssh_chan /\ (pc[c] \in Builds => at \in Builds)
                  \/ ssh_chan' = "open" /\ at = "shell"
                  \/ ssh_chan' = "null"
               /\ ssh_sess' \in {ssh_sess, "null", "live"}
               /\ freeing' = freeing \/ freeing' = [freeing EXCEPT ![c] = "delete"]
               /\ failures' = failures \/ (failures' = failures + 1 /\ failures < MaxFailures)
               /\ UNCHANGED <<ssh_recv_task_handle, locks, locals, starts>>
             Flags(at) ==
               /\ \/ ssh_connected' = ssh_connected
                  \/ ssh_connected' = TRUE /\ ssh_chan' = ssh_chan /\ at = "clear"
               /\ ssh_connecting' = ssh_connecting \/ ssh_connecting' = FALSE
  <1>1. \E at \in ConnectPc : Moves(at) /\ Flags(at)
    <2> USE DEF flags, libssh, locks, bounds, At, FailsIf, FreeNext
    <2>1. CASE ConnectStart(c)
      <3>1. Moves("handshake") /\ Flags("handshake")
        BY <2>1 DEF ConnectStart
      <3> QED BY <3>1 DEF ConnectPc
    <2>2. CASE ConnectNot(c)
      <3>1. Moves("end") /\ Flags("end")
        BY <2>2 DEF ConnectNot
      <3> QED BY <3>1 DEF ConnectPc
    <2>3. CASE ConnectHandshake(c)
      <3>1. Moves("channel") /\ Flags("channel")
        BY <2>3 DEF ConnectHandshake
      <3> QED BY <3>1 DEF ConnectPc
    <2>4. CASE ConnectChannel(c)
      <3>1. Moves("shell") /\ Flags("shell")
        BY <2>4 DEF ConnectChannel
      <3> QED BY <3>1 DEF ConnectPc
    <2>5. CASE ConnectShell(c)
      <3>1. Moves("clear") /\ Flags("clear")
        BY <2>5 DEF ConnectShell
      <3> QED BY <3>1 DEF ConnectPc
    <2>6. CASE ConnectFails(c)
      <3>1. Moves("end") /\ Flags("end")
        BY <2>6 DEF ConnectFails
      <3> QED BY <3>1 DEF ConnectPc
    <2>7. CASE ConnectClear(c)
      <3>1. Moves("launch") /\ Flags("launch")
        BY <2>7 DEF ConnectClear
      <3> QED BY <3>1 DEF ConnectPc
    <2>8. CASE ConnectEnd(c)
      <3>1. Moves("dead") /\ Flags("dead")
        BY <2>8 DEF ConnectEnd
      <3> QED BY <3>1 DEF ConnectPc
    <2> QED BY <2>1, <2>2, <2>3, <2>4, <2>5, <2>6, <2>7, <2>8 DEF ConnectStep
  <1>2. PICK at \in ConnectPc : Moves(at) /\ Flags(at)
    BY <1>1
  <1>3. /\ Places' /\ Spare'
        /\ pc'[c] = at /\ \A k \in Tasks \ {c} : pc'[k] = pc[k]
        /\ ssh_recv_task_handle' # None => pc'[ssh_recv_task_handle'] # "dead"
    BY <1>2, OneMoves
  <1>4. ssh_connected' \in BOOLEAN /\ ssh_connecting' \in BOOLEAN
    BY <1>2, FlagStep DEF IInv, TypeOK
  <1>5. TypeOK'
    BY <1>2, <1>3, <1>4 DEF IInv, TypeOK, Places, locks, locals, bounds
  <1>6. ReceiversOnlyRead' /\ PausedRetries'
    BY <1>2, <1>3 DEF IInv, TypeOK, ReceiversOnlyRead, PausedRetries, locals
  <1>7. ASSUME ssh_connected', ssh_chan' = "open", ssh_recv_task_handle' = None PROVE Owes'
    <2>1. CASE at \in Builds
      BY <2>1, <1>3 DEF Owes
    <2>2. CASE at \notin Builds
      BY <2>2, <1>2, <1>3, <1>7 DEF IInv, Heard, Owes, locals
    <2> QED BY <2>1, <2>2
  <1> QED BY <1>3, <1>5, <1>6, <1>7 DEF IInv, Heard

(* The receive task is started: by an attempt that built the session, or by *)
(* a transfer that resumes.  The handle names the new one, or, where the    *)
(* pool has no other, still names one.                                     *)
LEMMA LaunchIInv ==
  ASSUME SessionAssumption, IInv, NEW t \in Connects \cup Execs, NEW at, Launch(t, at),
         \/ t \in Connects /\ at \in ConnectPc
         \/ t \in Execs /\ at = "done",
         UNCHANGED <<flags, libssh, locks, freeing, locals, bounds>>
  PROVE  IInv'
  <1> USE Kinds
  <1> DEFINE r == Fresh(Receivers)
  <1>1. CASE Unused(Receivers) = {}
    <2>1. ssh_recv_task_handle # None
      BY <1>1 DEF IInv, Spare
    <2>2. Goto(t, at) /\ ssh_recv_task_handle' = ssh_recv_task_handle
      BY <1>1 DEF Launch
    <2>3. /\ Places' /\ Spare'
          /\ pc'[t] = at /\ \A k \in Tasks \ {t} : pc'[k] = pc[k]
          /\ ssh_recv_task_handle' # None => pc'[ssh_recv_task_handle'] # "dead"
      BY <2>2, OneMoves DEF ExecPc
    <2>4. TypeOK'
      BY <2>2, <2>3 DEF IInv, TypeOK, Places, flags, libssh, locks, locals, bounds
    <2>5. ReceiversOnlyRead' /\ PausedRetries' /\ Heard'
      BY <2>1, <2>2, <2>3 DEF IInv, ReceiversOnlyRead, PausedRetries, Heard, locals
    <2> QED BY <2>3, <2>4, <2>5 DEF IInv
  <1>2. CASE Unused(Receivers) # {}
    <2>1. r \in Receivers
      BY <1>2, FreshUnused
    <2>2. pc' = [pc EXCEPT ![t] = at, ![r] = "top"] /\ ssh_recv_task_handle' = r
      BY <1>2 DEF Launch
    <2>3. /\ pc' \in [Tasks -> LoopPc \cup ReceivePc \cup ConnectPc \cup ExecPc]
          /\ pc'[t] = at /\ pc'[r] = "top" /\ \A k \in Tasks \ {t, r} : pc'[k] = pc[k]
      BY <2>1, <2>2 DEF IInv, TypeOK, ReceivePc, ExecPc
    <2>4. Places'
      BY <2>1, <2>3 DEF IInv, TypeOK, Places, ReceivePc, ExecPc
    <2>5. TypeOK'
      BY <2>1, <2>2, <2>3, <2>4 DEF IInv, TypeOK, Places, flags, libssh, locks, locals, bounds
    <2>6. ReceiversOnlyRead' /\ PausedRetries' /\ Heard' /\ Spare'
      BY <2>1, <2>2, <2>3 DEF IInv, ReceiversOnlyRead, PausedRetries, Heard, Spare, locals
    <2> QED BY <2>5, <2>6 DEF IInv
  <1> QED BY <1>1, <1>2

(* A connection attempt is started, by loop() or by a transfer that then   *)
(* waits for it.                                                           *)
LEMMA ConnectAsyncIInv ==
  ASSUME SessionAssumption, IInv, NEW t \in {Loop} \cup Execs, NEW at, ConnectAsync(t, at),
         \/ t = Loop /\ at = "idle"
         \/ t \in Execs /\ pc[t] = "connect" /\ at = "wait"
  PROVE  IInv'
  <1> USE Kinds
  <1> DEFINE c == Fresh(Connects)
  <1>1. ssh_connecting' \in BOOLEAN
    <2>1. ssh_connecting' = TRUE
      BY DEF ConnectAsync
    <2> QED BY <2>1, Zenon
  <1>2. /\ UNCHANGED <<ssh_connected, libssh, ssh_recv_task_handle, locks, freeing, locals, bounds>>
        /\ pc' \in [Tasks -> LoopPc \cup ReceivePc \cup ConnectPc \cup ExecPc]
        /\ pc'[t] = at /\ \A k \in (Tasks \ Connects) \ {t} : pc'[k] = pc[k]
        /\ \A k \in Connects : pc'[k] = pc[k] \/ (pc[k] = "dead" /\ pc'[k] = "start")
    <2>1. CASE Unused(Connects) = {}
      BY <2>1 DEF ConnectAsync, Goto, IInv, TypeOK, LoopPc, ExecPc
    <2>2. CASE Unused(Connects) # {}
      <3>1. c \in Connects /\ pc[c] = "dead"
        BY <2>2, FreshUnused
      <3>2. pc' = [pc EXCEPT ![t] = at, ![c] = "start"]
        BY <2>2 DEF ConnectAsync
      <3> QED BY <3>1, <3>2 DEF ConnectAsync, IInv, TypeOK, LoopPc, ExecPc, ConnectPc
    <2> QED BY <2>1, <2>2
  <1>3. Places'
    BY <1>2 DEF Places, IInv, TypeOK, LoopPc, ExecPc, ConnectPc
  <1>4. TypeOK'
    BY <1>1, <1>2, <1>3 DEF IInv, TypeOK, Places, libssh, locks, locals, bounds
  <1>5. ReceiversOnlyRead' /\ PausedRetries'
    BY <1>2 DEF IInv, ReceiversOnlyRead, PausedRetries, locals
  <1>6. Spare'
    BY <1>2 DEF IInv, Spare, Unused
  <1>7. Heard'
    BY <1>2 DEF IInv, Heard, Owes, libssh, locals
  <1> QED BY <1>4, <1>5, <1>6, <1>7 DEF IInv

(* The receive task is deleted: what it owned is a dead task's, and the    *)
(* task is free to be started again.                                       *)
LEMMA DeleteTyped ==
  ASSUME SessionAssumption, IInv, NEW t \in Tasks \ Receivers, NEW at, DeleteReceiver(t, at),
         at = pc[t] \/ (t \in Execs /\ at = "open")
  PROVE  /\ Places' /\ ssh_recv_task_handle' = None /\ Spare'
         /\ ssh_io_mutex' \in {Loop, None, Dead} \cup Receivers
         /\ state_mutex' \in {Loop, None, Dead} \cup Receivers
         /\ pc'[t] = at /\ \A k \in (Tasks \ Receivers) \ {t} : pc'[k] = pc[k]
  <1> USE Kinds
  <1> DEFINE r == ssh_recv_task_handle
  <1>1. CASE r = None
    <2>1. /\ pc' = [pc EXCEPT ![t] = at]
          /\ UNCHANGED <<ssh_recv_task_handle, ssh_io_mutex, state_mutex>>
      BY <1>1 DEF DeleteReceiver, Goto, locks
    <2>2. /\ pc' \in [Tasks -> LoopPc \cup ReceivePc \cup ConnectPc \cup ExecPc]
          /\ pc'[t] = at /\ \A k \in Tasks \ {t} : pc'[k] = pc[k]
      BY <2>1 DEF IInv, TypeOK, ExecPc
    <2>3. Places'
      BY <2>2 DEF Places, IInv, TypeOK, ExecPc
    <2>4. Spare'
      BY <1>1, <2>2 DEF IInv, Spare, Unused
    <2> QED BY <1>1, <2>1, <2>2, <2>3, <2>4 DEF IInv, TypeOK
  <1>2. CASE r # None
    <2>1. r \in Receivers
      BY <1>2 DEF IInv, TypeOK
    <2>2. /\ pc' = [pc EXCEPT ![t] = at, ![r] = "dead"]
          /\ ssh_io_mutex' = Orphaned(ssh_io_mutex) /\ state_mutex' = Orphaned(state_mutex)
          /\ ssh_recv_task_handle' = None
      BY <1>2 DEF DeleteReceiver
    <2>3. /\ pc' \in [Tasks -> LoopPc \cup ReceivePc \cup ConnectPc \cup ExecPc]
          /\ pc'[t] = at /\ pc'[r] = "dead" /\ \A k \in Tasks \ {t, r} : pc'[k] = pc[k]
      BY <2>1, <2>2 DEF IInv, TypeOK, ExecPc, ReceivePc
    <2>4. Places'
      BY <2>1, <2>3 DEF Places, IInv, TypeOK, ExecPc, ReceivePc
    <2>5. Spare'
      BY <2>1, <2>3 DEF Spare, Unused
    <2>6. /\ ssh_io_mutex' \in {Loop, None, Dead} \cup Receivers
          /\ state_mutex' \in {Loop, None, Dead} \cup Receivers
      BY <2>2 DEF Orphaned, IInv, TypeOK
    <2> QED BY <2>1, <2>2, <2>3, <2>4, <2>5, <2>6
  <1> QED BY <1>1, <1>2

(* sshDisconnect clears ssh_connected as it deletes the receive task, and  *)
(* leaves no channel when it ends.                                         *)
LEMMA DisconnectIInv ==
  ASSUME SessionAssumption, IInv, NEW t \in Tasks, sshDisconnect(t) PROVE IInv'
  <1> USE Kinds
  <1>1. t \in Tasks \ Receivers
    BY DEF sshDisconnect, DisconnectTask, DisconnectFree, IInv, ReceiversOnlyRead
  <1>2. CASE DisconnectTask(t)
    <2>1. /\ DeleteReceiver(t, pc[t]) /\ ssh_connected' = FALSE
          /\ freeing' = [freeing EXCEPT ![t] = "free"]
          /\ UNCHANGED <<ssh_connecting, libssh, locals, bounds>>
      BY <1>2 DEF DisconnectTask, FreeNext
    <2>2. /\ Places' /\ ssh_recv_task_handle' = None /\ Spare'
          /\ ssh_io_mutex' \in {Loop, None, Dead} \cup Receivers
          /\ state_mutex' \in {Loop, None, Dead} \cup Receivers
          /\ pc'[t] = pc[t] /\ \A k \in (Tasks \ Receivers) \ {t} : pc'[k] = pc[k]
      BY <1>1, <2>1, DeleteTyped
    <2>3. ssh_connected' \in BOOLEAN /\ ~ssh_connected'
      BY <2>1, Zenon
    <2>4. TypeOK'
      BY <2>1, <2>2, <2>3 DEF IInv, TypeOK, Places, libssh, locals, bounds
    <2>5. ReceiversOnlyRead' /\ PausedRetries' /\ Heard'
      BY <1>1, <2>1, <2>2, <2>3
         DEF IInv, TypeOK, ReceiversOnlyRead, PausedRetries, Heard, locals
    <2> QED BY <2>2, <2>4, <2>5 DEF IInv
  <1>3. CASE DisconnectFree(t)
    <2> USE <1>3 DEF DisconnectFree, FreeNext
    <2>1. TypeOK'
      BY DEF IInv, TypeOK, flags, locks, locals, bounds
    <2>2. ReceiversOnlyRead' /\ PausedRetries' /\ Heard' /\ Spare'
      BY <1>1 DEF IInv, TypeOK, ReceiversOnlyRead, PausedRetries, Heard, Spare, Unused, locals
    <2> QED BY <2>1, <2>2 DEF IInv
  <1> QED BY <1>2, <1>3 DEF sshDisconnect

(* A transfer pauses the receive task and knows that it did. *)
LEMMA PauseIInv ==
  ASSUME SessionAssumption, IInv, NEW x \in Execs, ExecPause(x) PROVE IInv'
  <1> USE Kinds
  <1>1. /\ paused_recv' = [paused_recv EXCEPT ![x] = @ \/ ssh_recv_task_handle # None]
        /\ DeleteReceiver(x, "open")
        /\ UNCHANGED <<flags, libssh, freeing, attempt, bounds>>
    BY DEF ExecPause
  <1>2. /\ Places' /\ ssh_recv_task_handle' = None /\ Spare'
        /\ ssh_io_mutex' \in {Loop, None, Dead} \cup Receivers
        /\ state_mutex' \in {Loop, None, Dead} \cup Receivers
        /\ pc'[x] = "open" /\ \A k \in (Tasks \ Receivers) \ {x} : pc'[k] = pc[k]
    BY <1>1, DeleteTyped
  <1>3. /\ paused_recv' \in [Execs -> BOOLEAN]
        /\ \A y \in Execs \ {x} : paused_recv'[y] = paused_recv[y]
        /\ paused_recv[x] \/ ssh_recv_task_handle # None => paused_recv'[x]
    <2>1. (paused_recv[x] \/ ssh_recv_task_handle # None) \in BOOLEAN
      BY Zenon
    <2> QED BY <1>1, <2>1 DEF IInv, TypeOK
  <1>4. TypeOK'
    BY <1>1, <1>2, <1>3 DEF IInv, TypeOK, Places, flags, libssh, bounds
  <1>5. ReceiversOnlyRead' /\ PausedRetries'
    BY <1>1, <1>2, <1>3 DEF IInv, ReceiversOnlyRead, PausedRetries
  <1>6. Heard'
    BY <1>1, <1>2, <1>3 DEF IInv, Heard, Owes, flags, libssh
  <1> QED BY <1>2, <1>4, <1>5, <1>6 DEF IInv

(* The other steps of a transfer move it alone.  One that paused the       *)
(* receive task gives up only through "resume", and ends there without a    *)
(* new one only when there is one or no shell to read.                     *)
LEMMA ExecIInv ==
  ASSUME SessionAssumption, IInv, NEW x \in Execs, ExecStep(x) \/ ExecStart(x),
         ~ExecConnect(x), ~ExecPause(x), ~ExecRespawn(x)
  PROVE  IInv'
  <1> USE Kinds
  <1> DEFINE Again == {"ensure", "connect", "wait", "pause"}
             Resumed == ssh_recv_task_handle # None \/ ~ssh_connected \/ ssh_chan # "open"
             Moves(at) ==
               /\ Goto(x, at)
               /\ at = "done" => pc[x] # "idle" /\ (paused_recv[x] => Resumed)
               /\ at \in Again /\ paused_recv'[x] => attempt'[x] = "retry"
               /\ at = "idle" => ~paused_recv'[x] /\ pc[x] = "done"
             Locals(at) ==
               /\ attempt' = attempt \/ \E a \in {"first", "retry"} : attempt' = [attempt EXCEPT ![x] = a]
               /\ paused_recv' = paused_recv \/ (at = "idle" /\ paused_recv' = [paused_recv EXCEPT ![x] = FALSE])
             Others ==
               /\ freeing' = freeing \/ freeing' = [freeing EXCEPT ![x] = "delete"]
               /\ failures' = failures \/ (failures' = failures + 1 /\ failures < MaxFailures)
               /\ starts' = starts \/ (starts' = starts + 1 /\ starts < MaxStarts)
               /\ UNCHANGED <<flags, libssh, ssh_recv_task_handle, locks>>
  <1>1. /\ attempt \in [Execs -> {"first", "retry"}] /\ paused_recv \in [Execs -> BOOLEAN]
        /\ paused_recv[x] => pc[x] # "idle" /\ (pc[x] \in Again => attempt[x] = "retry")
    BY DEF IInv, TypeOK, PausedRetries
  <1>2. \E at \in ExecPc : Moves(at) /\ Locals(at) /\ Others
    <2> USE <1>1 DEF locals, bounds, At, FailsIf, FreeNext, ExecPc
    <2>1. CASE ExecStart(x)
      <3>1. Moves("ensure") /\ Locals("ensure") /\ Others  BY <2>1 DEF ExecStart
      <3> QED BY <3>1
    <2>2. CASE ExecEnsure(x)
      <3>1. PICK at \in {"pause", "connect", "wait"} : Goto(x, at)
        BY <2>2 DEF ExecEnsure
      <3>2. Moves(at) /\ Locals(at) /\ Others  BY <2>2, <3>1 DEF ExecEnsure
      <3> QED BY <3>2
    <2>3. CASE ExecWait(x)
      <3>1. CASE Usable
        <4>1. Moves("pause") /\ Locals("pause") /\ Others  BY <2>3, <3>1 DEF ExecWait
        <4> QED BY <4>1
      <3>2. CASE ~Usable /\ attempt[x] = "first"
        <4>1. Moves("done") /\ Locals("done") /\ Others  BY <2>3, <3>2 DEF ExecWait, GiveUp
        <4> QED BY <4>1
      <3>3. CASE ~Usable /\ attempt[x] # "first"
        <4>1. Moves("resume") /\ Locals("resume") /\ Others  BY <2>3, <3>3 DEF ExecWait, GiveUp
        <4> QED BY <4>1
      <3> QED BY <3>1, <3>2, <3>3
    <2>4. CASE ExecOpen(x)
      <3>1. Moves("stream") /\ Locals("stream") /\ Others  BY <2>4 DEF ExecOpen
      <3> QED BY <3>1
    <2>5. CASE ExecOpenFails(x)
      <3>1. CASE attempt[x] = "first"
        <4>1. Moves("recover") /\ Locals("recover") /\ Others  BY <2>5, <3>1 DEF ExecOpenFails
        <4> QED BY <4>1
      <3>2. CASE attempt[x] # "first"
        <4>1. Moves("resume") /\ Locals("resume") /\ Others  BY <2>5, <3>2 DEF ExecOpenFails
        <4> QED BY <4>1
      <3> QED BY <3>1, <3>2
    <2>6. CASE ExecRecover(x)
      <3>1. Moves("ensure") /\ Locals("ensure") /\ Others  BY <2>6 DEF ExecRecover
      <3> QED BY <3>1
    <2>7. CASE ExecStream(x)
      <3>1. Moves("resume") /\ Locals("resume") /\ Others  BY <2>7 DEF ExecStream
      <3> QED BY <3>1
    <2>8. CASE ExecResume(x)
      <3> DEFINE Needed == paused_recv[x] /\ ssh_recv_task_handle = None
                             /\ ssh_connected /\ ssh_chan = "open"
      <3>1. CASE Needed
        <4>1. Moves("respawn") /\ Locals("respawn") /\ Others  BY <2>8, <3>1 DEF ExecResume
        <4> QED BY <4>1
      <3>2. CASE ~Needed
        <4>1. Moves("done") /\ Locals("done") /\ Others  BY <2>8, <3>2 DEF ExecResume
        <4> QED BY <4>1
      <3> QED BY <3>1, <3>2
    <2>9. CASE ExecDone(x)
      <3>1. Moves("idle") /\ Locals("idle") /\ Others  BY <2>9 DEF ExecDone
      <3> QED BY <3>1
    <2> QED BY <2>1, <2>2, <2>3, <2>4, <2>5, <2>6, <2>7, <2>8, <2>9 DEF ExecStep
  <1>3. PICK at \in ExecPc : Moves(at) /\ Locals(at) /\ Others
    BY <1>2
  <1>4. /\ Places' /\ Spare'
        /\ pc'[x] = at /\ \A k \in Tasks \ {x} : pc'[k] = pc[k]
        /\ ssh_recv_task_handle' # None => pc'[ssh_recv_task_handle'] # "dead"
    BY <1>3, OneMoves
  <1>5. /\ attempt' \in [Execs -> {"first", "retry"}] /\ paused_recv' \in [Execs -> BOOLEAN]
        /\ \A y \in Execs \ {x} : paused_recv'[y] = paused_recv[y] /\ attempt'[y] = attempt[y]
        /\ at # "idle" => paused_recv' = paused_recv
    BY <1>1, <1>3
  <1>6. TypeOK'
    BY <1>3, <1>4, <1>5 DEF IInv, TypeOK, Places, flags, libssh, locks
  <1>7. ReceiversOnlyRead'
    BY <1>3 DEF IInv, TypeOK, ReceiversOnlyRead
  <1>8. PausedRetries'
    BY <1>3, <1>4, <1>5 DEF IInv, PausedRetries
  <1>9. Heard'
    BY <1>1, <1>3, <1>4, <1>5 DEF IInv, Heard, Owes, flags, libssh
  <1> QED BY <1>4, <1>6, <1>7, <1>8, <1>9 DEF IInv

(* loop() moves alone, but for the attempt it starts. *)
LEMMA LoopIInv ==
  ASSUME SessionAssumption, IInv,
         KeyTake \/ KeyLock \/ KeyDropped \/ KeyWritten \/ AutoConnect \/ Disconnect \/ LoopDone
  PROVE  IInv'
  <1> USE Kinds
  <1> DEFINE Moves(at) ==
               /\ Goto(Loop, at)
               /\ ssh_io_mutex' \in {ssh_io_mutex, None, Loop}
               /\ state_mutex' \in {state_mutex, None, Loop}
               /\ freeing' = freeing \/ freeing' = [freeing EXCEPT ![Loop] = "delete"]
               /\ starts' = starts \/ (starts' = starts + 1 /\ starts < MaxStarts)
               /\ UNCHANGED <<flags, libssh, ssh_recv_task_handle, locals, failures>>
  <1>1. \E at \in LoopPc : Moves(at)
    <2> USE DEF locks, bounds, FreeNext
    <2>1. KeyTake \/ AutoConnect \/ Disconnect => Moves("key") \/ Moves("connect") \/ Moves("dc")
      BY DEF KeyTake, AutoConnect, Disconnect
    <2>2. KeyLock => Moves("write")
      BY DEF KeyLock
    <2>3. KeyDropped \/ KeyWritten \/ LoopDone => Moves("idle")
      BY DEF KeyDropped, KeyWritten, LoopDone
    <2> QED BY <2>1, <2>2, <2>3 DEF LoopPc
  <1>2. PICK at \in LoopPc : Moves(at)
    BY <1>1
  <1>3. /\ Places' /\ Spare'
        /\ pc'[Loop] = at /\ \A k \in Tasks \ {Loop} : pc'[k] = pc[k]
        /\ ssh_recv_task_handle' # None => pc'[ssh_recv_task_handle'] # "dead"
    BY <1>2, OneMoves
  <1>4. TypeOK'
    BY <1>2, <1>3 DEF IInv, TypeOK, Places, flags, libssh, locals
  <1>5. ReceiversOnlyRead' /\ PausedRetries' /\ Heard'
    BY <1>2, <1>3 DEF IInv, TypeOK, ReceiversOnlyRead, PausedRetries, Heard, Owes, flags, libssh, locals
  <1> QED BY <1>3, <1>4, <1>5 DEF IInv

(* The network changes the session and nothing else. *)
LEMMA DropIInv ==
  ASSUME SessionAssumption, IInv, SessionDrops \/ UNCHANGED vars PROVE IInv'
  <1>1. /\ UNCHANGED <<flags, ssh_chan, ssh_recv_task_handle, locks, pc, freeing, locals, starts>>
        /\ ssh_sess' \in {ssh_sess, "broken"}
        /\ failures' = failures \/ (failures' = failures + 1 /\ failures < MaxFailures)
    BY DEF SessionDrops, vars, flags, libssh, locks, locals, bounds
  <1>2. TypeOK'
    BY <1>1 DEF IInv, TypeOK, SessionAssumption, flags, locks, locals
  <1>3. ReceiversOnlyRead' /\ PausedRetries' /\ Heard' /\ Spare'
    BY <1>1 DEF IInv, ReceiversOnlyRead, PausedRetries, Heard, Owes, Spare, Unused, flags, locals
  <1> QED BY <1>2, <1>3 DEF IInv

(* Nothing is connected at the start, and no receive task runs. *)
LEMMA InitIInv == ASSUME SessionAssumption, Init PROVE IInv
  <1> USE Kinds
  <1>1. TypeOK
    <2>1. ssh_connected \in BOOLEAN /\ ssh_connecting \in BOOLEAN
      BY Zenon DEF Init
    <2>2. paused_recv \in [Execs -> BOOLEAN]
      BY DEF Init
    <2>3. \A t \in Tasks : pc[t] = IF t \in {Loop} \cup Execs THEN "idle" ELSE "dead"
      BY DEF Init
    <2>4. Places
      BY <2>3 DEF Init, Places, LoopPc, ReceivePc, ConnectPc, ExecPc
    <2>5. failures \in 0 .. MaxFailures /\ starts \in 0 .. MaxStarts
      BY DEF Init, SessionAssumption
    <2>6. attempt \in [Execs -> {"first", "retry"}] /\ freeing \in [Tasks -> {"out", "delete", "free"}]
      BY DEF Init
    <2> QED BY <2>1, <2>2, <2>4, <2>5, <2>6 DEF Init, TypeOK, Places
  <1>2. ReceiversOnlyRead /\ PausedRetries /\ Heard
    BY DEF Init, ReceiversOnlyRead, PausedRetries, Heard
  <1>3. Spare
    BY DEF Init, Spare, Unused, SessionAssumption
  <1> QED BY <1>1, <1>2, <1>3 DEF IInv

(* Every step keeps the invariant. *)
LEMMA NextIInv == ASSUME SessionAssumption, IInv, [Next]_vars PROVE IInv'
  <1> USE Kinds
  <1>1. ASSUME NEW x \in Execs, ExecStart(x) \/ ExecStep(x) PROVE IInv'
    <2>1. CASE ExecConnect(x)
      BY <2>1, ConnectAsyncIInv DEF ExecConnect, At
    <2>2. CASE ExecPause(x)
      BY <2>2, PauseIInv
    <2>3. CASE ExecRespawn(x)
      BY <2>3, LaunchIInv DEF ExecRespawn
    <2> QED BY <1>1, <2>1, <2>2, <2>3, ExecIInv
  <1>2. ASSUME NEW c \in Connects, ConnectStep(c) PROVE IInv'
    <2>1. CASE ConnectLaunch(c)
      BY <2>1, LaunchIInv DEF ConnectLaunch, ConnectPc
    <2> QED BY <1>2, <2>1, ConnectIInv
  <1>3. CASE LoopConnect
    BY <1>3, ConnectAsyncIInv DEF LoopConnect
  <1> QED BY <1>1, <1>2, <1>3, LoopIInv, DropIInv, DisconnectIInv, ReceiveIInv
          DEF Next, User, LoopStep

-----------------------------------------------------------------------------
(* The session's inductive invariant. *)
THEOREM Invariance == Spec => []IInv
  <1>1. Init => IInv
    BY SessionAssumption, InitIInv
  <1>2. IInv /\ [Next]_vars => IInv'
    BY SessionAssumption, NextIInv
  <1> QED BY <1>1, <1>2, PTL DEF Spec

(* Type correctness: every task is where its code can be, and the handle   *)
(* names a receive task that was not deleted.                              *)
THEOREM Typing == Spec => []TypeOK
  <1>1. IInv => TypeOK
    BY DEF IInv
  <1> QED BY <1>1, Invariance, PTL

(* A connected shell is read by somebody once transfers and connection     *)
(* attempts are over (sshDisconnect, pauseSshReceiveTaskForExec and         *)
(* resumeSshReceiveTaskForExec, sshConnectTask).                           *)
THEOREM AlwaysHeard == Spec => []ShellIsHeard
  <1>1. IInv => ShellIsHeard
    <2> SUFFICES ASSUME IInv, ssh_connected, ~HalfFreed, ~Busy PROVE ssh_recv_task_handle # None
      BY DEF ShellIsHeard
    <2>1. ssh_chan = "open"
      BY DEF HalfFreed, IInv, TypeOK
    <2>2. ~Owes
      BY DEF Owes, Busy, IInv, PausedRetries
    <2> QED BY <2>1, <2>2 DEF IInv, Heard
  <1> QED BY <1>1, Invariance, PTL
=============================================================================
