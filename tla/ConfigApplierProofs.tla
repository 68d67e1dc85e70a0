------------------------ MODULE ConfigApplierProofs ------------------------
(***************************************************************************)
(* What ConfigApplier promises for every instance of its constants: that   *)
(* acknowledged snapshots were handled, that a row waiting for its mods    *)
(* keeps a timer or a reconcile, and that the phase of the server is final *)
(* once nothing is at work.                                                *)
(*                                                                         *)
(* Tasks are awake only together with those that the same gate has woken:  *)
(* they have the same row and the same verdict of the gate (OneRowAwake,   *)
(* OneVerdict).  This is what makes the stale reads of a reconcile         *)
(* harmless: what Compare reads is changed before Branded uses it only by  *)
(* a task of the same row.                                                 *)
(***************************************************************************)
EXTENDS ConfigApplier, WellFoundedInduction, TLAPS

(* What each step of a task relies on.                                     *)
TaskFits(k) ==
    /\ (k.pc = "idle") <=> (k = NoTask)
    /\ k.kind = "none" => k = NoTask
    /\ k.kind = "http" =>
           k.pc \in {"gate", "respawn"} /\ k.row = "none" /\ k.path = "none"
    /\ k.kind = "reconcile" => k.row \in Rows
    /\ k.kind = "reconcile" /\ k.pc \in {"gate", "respawn"} =>
           k.path \in {"same", "on"} /\ ShouldStart(k.row)
    /\ k.pc = "branding" => k.path # "none"
    /\ k.pc = "branding" /\ k.path = "on" => ShouldStart(k.row)
    /\ k.pc = "branding" /\ k.path \in {"off", "idle"} => ~ShouldStart(k.row)
    /\ k.pc \in {"preflight", "gate"} => k.res # "none"

TasksFit == /\ \A t \in Slots: TaskFits(tasks[t])
            /\ tasks["loop"].kind # "http"
            /\ ~up => \A t \in Slots: tasks[t] = NoTask

(* The loop: what is at hand is delivered and not acknowledged, and each   *)
(* outcome stands for what happened to it.                                 *)
LoopInv ==
    /\ pel \cap acked = {}
    /\ stage # "next" => batch # {}
    /\ (stage = "applying") <=> (tasks["loop"] # NoTask)
    /\ stage = "ok" => Entry \in handled
    /\ stage = "written" => Entry \in dlq
    /\ events = 0 => seen \subseteq dlq \cup IF stage = "claimed" THEN {Entry} ELSE {}
    /\ AckedWereHandled

Verdict(k) == IF k.pc \in {"preflight", "gate"} THEN k.res ELSE "ok"

OneRowAwake == \A t, u \in Slots: Awake(t) /\ Awake(u) => tasks[t].row = tasks[u].row
OneVerdict ==
    \A t, u \in Slots: Awake(t) /\ Awake(u) => Verdict(tasks[t]) = Verdict(tasks[u])
BeginsAlone ==
    \A t, u \in Slots: Awake(t) /\ Awake(u) /\ tasks[t].pc = "begin" => t = u

(* Branded(t) finds the process Compare(t) saw, or it is being restarted.  *)
Respawning == \E u \in Slots: tasks[u].pc = "respawn"
SeesProcess ==
    \A t \in Slots: /\ tasks[t].pc = "branding" /\ tasks[t].running
                    /\ ShouldStart(tasks[t].row) /\ active = NoPid
                    => Respawning
SeesSignature ==
    \A t \in Slots: tasks[t].pc = "branding" /\ tasks[t].path = "same" =>
                        lastSignature = tasks[t].row

(* Who will end a phase that is not final.                                 *)
ConfiguringEnds ==
    phase = "CONFIGURING" =>
        \/ ~RESTART_ON_BOOT
        \/ \E t \in Slots: \/ tasks[t].pc \in {"gate", "respawn"}
                           \/ tasks[t].pc = "branding" /\ tasks[t].path \in {"on", "idle"}
StartingEnds == phase = "STARTING" => Respawning
PreparingEnds ==
    phase = "PREPARING" =>
        \/ pending # NoPending \/ gaveUp
        \/ lastSignature \in {r \in Rows: ~ShouldStart(r)}
        \/ \E t \in Slots: tasks[t] # NoTask
PreparedByOther ==
    phase = "PREPARING" =>
        \A t \in Slots: (tasks[t].pc = "branding" /\ tasks[t].path = "on")
                            => \E u \in Slots: tasks[u].pc = "gate" /\ tasks[u].res = "wait"

PhaseInv == /\ OneRowAwake /\ OneVerdict /\ BeginsAlone /\ SeesProcess /\ SeesSignature
            /\ ConfiguringEnds /\ StartingEnds /\ PreparingEnds /\ PreparedByOther

IInv == TypeOK /\ TasksFit /\ LoopInv /\ PendingHasWaker /\ PhaseInv
-----------------------------------------------------------------------------
(* The choices the operators make.                                         *)

LEMMA MinIn == ASSUME NEW S, S \subseteq Nat, S # {} PROVE Min(S) \in S
<1>1. PICK x \in S: \A y \in S: ~(<<y, x>> \in OpToRel(<, Nat))
  BY NatLessThanWellFounded, WFMin
<1>2. \A y \in S: x <= y
  <2> SUFFICES ASSUME NEW y \in S, y < x PROVE FALSE
    OBVIOUS
  <2>1. <<y, x>> \in Nat \X Nat /\ <<y, x>>[1] = y /\ <<y, x>>[2] = x
    OBVIOUS
  <2> QED BY <1>1, <2>1, Zenon DEF OpToRel
<1> QED BY <1>2 DEF Min

LEMMA EntryAtHand ==
    ASSUME TypeOK, batch # {}
    PROVE  Entry \in batch /\ Entry \in pel /\ Entry \in 1 .. read
<1>1. batch \subseteq Nat /\ batch \subseteq pel /\ pel \subseteq 1 .. read
  BY DEF TypeOK
<1> QED BY <1>1, MinIn DEF Entry

LEMMA NoPendingIsNone ==
    /\ NoPending \notin [row: Rows, attempts: 1 .. PENDING_MAX_ATTEMPTS, armed: BOOLEAN]
    /\ NoTask \in Tasks /\ TaskFits(NoTask) /\ NoTask.pc = "idle" /\ NoTask.kind = "none"
<1>1. "none" \notin Rows
  BY ApplierAssumption
<1>2. NoTask \in Tasks
  BY DEF NoTask, Tasks
<1>3. TaskFits(NoTask)
  BY DEF NoTask, TaskFits
<1> QED BY <1>1, <1>2, <1>3 DEF NoPending, NoTask

Pendings == {NoPending} \cup [row: Rows, attempts: 1 .. PENDING_MAX_ATTEMPTS, armed: BOOLEAN]

(* What schedulePendingReconcile leaves has its timer.                     *)
LEMMA Scheduled ==
    ASSUME NEW pd \in Pendings, NEW r \in Rows
    PROVE  /\ Schedule(pd, r) \in Pendings
           /\ Schedule(pd, r) # NoPending => Schedule(pd, r).armed
<1>1. pd.attempts \in Nat
  BY DEF Pendings, NoPending
<1> QED BY <1>1, ApplierAssumption DEF Schedule, Pendings
-----------------------------------------------------------------------------
(* One task changes.                                                       *)

LEMMA TaskSet ==
    ASSUME TypeOK, TasksFit, NEW t \in Slots, NEW k \in Tasks, TaskFits(k),
           t = "loop" => k.kind # "http", up, UNCHANGED up,
           tasks' = [tasks EXCEPT ![t] = k]
    PROVE  /\ tasks' \in [Slots -> Tasks] /\ TasksFit' /\ tasks'[t] = k
           /\ \A u \in Slots: u # t => tasks'[u] = tasks[u]
<1>1. tasks' \in [Slots -> Tasks] /\ tasks'[t] = k
      /\ \A u \in Slots: u # t => tasks'[u] = tasks[u]
  BY DEF TypeOK
<1>2. \A u \in Slots: TaskFits(tasks'[u])
  BY <1>1 DEF TasksFit
<1>3. tasks'["loop"].kind # "http"
  BY <1>1 DEF TasksFit, Slots
<1> QED BY <1>1, <1>2, <1>3 DEF TasksFit

(* The loop's invariant, when nothing of the loop changes ...              *)
LEMMA LoopKept ==
    ASSUME LoopInv, UNCHANGED <<pel, acked, seen, dlq, batch, stage, handled>>,
           events \in Nat, events' \in Nat, events' = 0 => events = 0,
           (tasks["loop"] = NoTask) <=> (tasks'["loop"] = NoTask)
    PROVE  LoopInv'
BY DEF LoopInv, Entry, AckedWereHandled

(* ... and when a task goes on or ends.                                    *)
LEMMA LoopTask ==
    ASSUME TypeOK, LoopInv, NEW t \in Slots, tasks[t] # NoTask,
           UNCHANGED <<redisVars, batch, events>>,
           \/ EndTask(t)
           \/ /\ \E k \in Tasks \ {NoTask}: tasks' = [tasks EXCEPT ![t] = k]
              /\ UNCHANGED <<stage, handled, isFirstSnapshot>>
    PROVE  /\ LoopInv' /\ isFirstSnapshot' \in BOOLEAN
           /\ stage' \in {"next", "applying", "ok", "failed", "claimed", "written"}
<1>1. CASE t = "loop" /\ EndTask(t)
  <2>1. /\ stage = "applying" /\ stage' = "ok" /\ handled' = handled \cup {Entry}
        /\ tasks'["loop"] = NoTask /\ isFirstSnapshot' = FALSE
    BY <1>1 DEF EndTask, LoopInv, TypeOK
  <2> QED BY <2>1 DEF LoopInv, Entry, AckedWereHandled, redisVars
<1>2. CASE ~(t = "loop" /\ EndTask(t))
  <2>1. /\ UNCHANGED <<stage, handled, isFirstSnapshot>>
        /\ (tasks["loop"] = NoTask) <=> (tasks'["loop"] = NoTask)
    BY <1>2 DEF EndTask, TypeOK, Slots
  <2>2. events \in Nat
    BY ApplierAssumption DEF TypeOK
  <2> QED BY <2>1, <2>2, LoopKept DEF TypeOK, redisVars
<1> QED BY <1>1, <1>2

(* What a task's end leaves pending.                                       *)
LEMMA PendingEnds ==
    ASSUME TypeOK, PendingHasWaker, NEW t \in Slots, tasks[t].row \in Rows,
           EndPending(t) \/ EndCleared(t)
    PROVE  /\ pending' \in Pendings /\ PendingHasWaker'
           /\ EndPending(t) => pending' # NoPending \/ gaveUp'
<1>1. CASE EndCleared(t)
  BY <1>1 DEF EndCleared, PendingHasWaker, Pendings, EndPending
<1>2. CASE EndPending(t)
  <2> DEFINE once == Schedule(pending, tasks[t].row)
             twice == Schedule(once, tasks[t].row)
  <2>1. pending \in Pendings
    BY DEF TypeOK, Pendings
  <2>2. once \in Pendings /\ (once # NoPending => once.armed)
    BY <2>1, Scheduled
  <2>3. twice \in Pendings /\ (twice # NoPending => twice.armed)
    <3> HIDE DEF once
    <3> QED BY <2>2, Scheduled
  <2>4. pending' = (IF t = "loop" THEN once ELSE twice) /\ gaveUp' = (pending' = NoPending)
    BY <1>2 DEF EndPending
  <2> HIDE DEF once, twice
  <2> QED BY <2>2, <2>3, <2>4 DEF PendingHasWaker
<1> QED BY <1>1, <1>2

LEMMA PendingGoesOn ==
    ASSUME TypeOK, PendingHasWaker, NEW t \in Slots, NEW k \in Tasks,
           tasks' = [tasks EXCEPT ![t] = k], k.kind = tasks[t].kind \/ tasks[t].kind = "http",
           UNCHANGED pending
    PROVE  PendingHasWaker'
<1>1. \A u \in Slots: tasks[u].kind = "reconcile" => tasks'[u].kind = "reconcile"
  BY DEF TypeOK
<1> QED BY <1>1 DEF PendingHasWaker, Slots
-----------------------------------------------------------------------------
(* The invariants of the phase.                                            *)

(* Nothing they speak of changes.                                          *)
LEMMA PhaseKept ==
    ASSUME PhaseInv, TasksFit, PendingHasWaker,
           UNCHANGED <<tasks, up, pending, gaveUp, lastSignature, phase, active>>
    PROVE  PhaseInv' /\ TasksFit' /\ PendingHasWaker'
<1>1. TasksFit' /\ PendingHasWaker'
  BY DEF TasksFit, PendingHasWaker
<1>2. OneRowAwake' /\ OneVerdict' /\ BeginsAlone'
  BY DEF PhaseInv, OneRowAwake, OneVerdict, BeginsAlone, Awake
<1>3. SeesProcess' /\ SeesSignature' /\ StartingEnds'
  BY DEF PhaseInv, SeesProcess, SeesSignature, StartingEnds, Respawning
<1>4. ConfiguringEnds' /\ PreparingEnds' /\ PreparedByOther'
  BY DEF PhaseInv, ConfiguringEnds, PreparingEnds, PreparedByOther
<1> QED BY <1>1, <1>2, <1>3, <1>4 DEF PhaseInv

(* While nothing is awake, what reconciles have read may change, and a     *)
(* waiting gate may report that it prepares.                               *)
LEMMA PhaseWhileQuiet ==
    ASSUME PhaseInv, \A t \in Slots: ~Awake(t),
           UNCHANGED <<tasks, pending, gaveUp, lastSignature>>,
           phase' = phase \/ (phase' = "PREPARING" /\ \E t \in Slots: tasks[t] # NoTask)
    PROVE  PhaseInv'
<1>1. \A t \in Slots: tasks[t].pc # "branding" /\ ~Awake(t)'
  BY DEF Awake
<1>2. OneRowAwake' /\ OneVerdict' /\ BeginsAlone'
  BY <1>1 DEF OneRowAwake, OneVerdict, BeginsAlone
<1>3. SeesProcess' /\ SeesSignature' /\ PreparedByOther'
  BY <1>1 DEF SeesProcess, SeesSignature, PreparedByOther
<1>4. StartingEnds' /\ ConfiguringEnds' /\ PreparingEnds'
  BY DEF PhaseInv, StartingEnds, Respawning, ConfiguringEnds, PreparingEnds
<1> QED BY <1>2, <1>3, <1>4 DEF PhaseInv

(* A task begins while nothing is awake.                                   *)
LEMMA PhaseBegins ==
    ASSUME PhaseInv, TypeOK, \A t \in Slots: ~Awake(t),
           NEW t \in Slots, tasks[t] = NoTask, NEW k \in Tasks, k # NoTask,
           tasks' = [tasks EXCEPT ![t] = k],
           k.pc = "begin" \/ (k.pc = "gate" /\ k.res = "wait"),
           UNCHANGED <<gaveUp, lastSignature>>, phase' \in {phase, "PREPARING"}
    PROVE  PhaseInv'
<1>1. /\ tasks'[t] = k /\ tasks[t].pc = "idle"
      /\ \A u \in Slots: u # t => tasks'[u] = tasks[u]
  BY DEF TypeOK, NoTask
<1>2. \A u \in Slots: /\ Awake(u)' => u = t
                      /\ tasks'[u].pc # "branding"
                      /\ tasks[u].pc \in {"gate", "respawn"} => tasks'[u] = tasks[u]
  BY <1>1 DEF Awake
<1>3. OneRowAwake' /\ OneVerdict' /\ BeginsAlone'
  BY <1>2 DEF OneRowAwake, OneVerdict, BeginsAlone
<1>4. SeesProcess' /\ SeesSignature' /\ PreparedByOther'
  BY <1>2 DEF SeesProcess, SeesSignature, PreparedByOther
<1>5. StartingEnds'
  BY <1>2 DEF PhaseInv, StartingEnds, Respawning
<1>6. ConfiguringEnds'
  <2>1. \A u \in Slots: tasks[u].pc # "branding"
    BY DEF Awake
  <2> QED BY <1>2, <2>1 DEF PhaseInv, ConfiguringEnds
<1>7. PreparingEnds'
  BY <1>1 DEF PreparingEnds
<1> QED BY <1>3, <1>4, <1>5, <1>6, <1>7 DEF PhaseInv

(* An awake task goes on or ends: it keeps its row, and its gate, if it had *)
(* one, has let it pass.                                                   *)
LEMMA AwakeGoesOn ==
    ASSUME PhaseInv, TypeOK, NEW t \in Slots, Awake(t), NEW k \in Tasks,
           tasks' = [tasks EXCEPT ![t] = k],
           \/ k.pc \in {"idle", "respawn"}
           \/ k.pc \in {"preflight", "gate"} /\ k.res = "wait"
           \/ /\ k.pc \in {"body", "branding"} /\ k.row = tasks[t].row
              /\ Verdict(tasks[t]) = "ok"
    PROVE  OneRowAwake' /\ OneVerdict' /\ BeginsAlone'
<1>1. tasks'[t] = k /\ \A u \in Slots: u # t => tasks'[u] = tasks[u]
  BY DEF TypeOK
<1>2. \A u \in Slots: Awake(u)' => /\ Awake(u) /\ tasks'[u].row = tasks[u].row
                                   /\ Verdict(tasks'[u]) = Verdict(tasks[u])
                                   /\ tasks'[u].pc = "begin" => tasks[u].pc = "begin"
  BY <1>1 DEF Awake, Verdict
<1>3. OneRowAwake' /\ OneVerdict'
  BY <1>2 DEF PhaseInv, OneRowAwake, OneVerdict
<1>4. BeginsAlone'
  BY <1>2 DEF PhaseInv, BeginsAlone
<1> QED BY <1>3, <1>4

(* What the others have read stays true as long as a process is only       *)
(* stopped for a row not to start, or to be respawned.                     *)
LEMMA AwakeSees ==
    ASSUME PhaseInv, TypeOK, NEW t \in Slots, Awake(t), NEW k \in Tasks,
           tasks' = [tasks EXCEPT ![t] = k],
           \/ active' = active \/ active' # NoPid
           \/ ~ShouldStart(tasks[t].row) \/ k.pc = "respawn",
           lastSignature' \in {lastSignature, tasks[t].row},
           k.pc = "branding" =>
               /\ k.running /\ ShouldStart(k.row) => active' # NoPid
               /\ k.path = "same" => lastSignature' = k.row
    PROVE  SeesProcess' /\ SeesSignature'
<1>1. tasks'[t] = k /\ \A u \in Slots: u # t => tasks'[u] = tasks[u]
  BY DEF TypeOK
<1>2. \A u \in Slots: tasks[u].pc = "branding" => tasks[u].row = tasks[t].row
  BY DEF PhaseInv, OneRowAwake, Awake
<1>3. Respawning => Respawning'
  BY <1>1 DEF Respawning, Awake
<1>4. k.pc = "respawn" => Respawning'
  BY <1>1 DEF Respawning
<1>5. SeesProcess'
  BY <1>1, <1>2, <1>3, <1>4 DEF PhaseInv, SeesProcess
<1>6. SeesSignature'
  BY <1>1, <1>2 DEF PhaseInv, SeesSignature
<1> QED BY <1>5, <1>6

(* The phase is left alone: who is to end it is another task.              *)
LEMMA PhaseLeft ==
    ASSUME PhaseInv, TypeOK, NEW t \in Slots, Awake(t), NEW k \in Tasks,
           tasks' = [tasks EXCEPT ![t] = k], UNCHANGED phase,
           phase = "CONFIGURING" =>
               \/ ~RESTART_ON_BOOT \/ k.pc \in {"gate", "respawn"} \/ Respawning
               \/ /\ tasks[t].pc # "gate"
                  /\ ~(tasks[t].pc = "branding" /\ tasks[t].path \in {"on", "idle"})
    PROVE  StartingEnds' /\ ConfiguringEnds'
<1>1. tasks'[t] = k /\ \A u \in Slots: u # t => tasks'[u] = tasks[u]
  BY DEF TypeOK
<1>2. Respawning => Respawning'
  BY <1>1 DEF Respawning, Awake
<1>3. Respawning' => \E u \in Slots: tasks'[u].pc = "respawn"
  BY DEF Respawning
<1>4. StartingEnds'
  BY <1>2 DEF PhaseInv, StartingEnds
<1>5. ConfiguringEnds'
  BY <1>1, <1>2, <1>3 DEF PhaseInv, ConfiguringEnds, Awake
<1> QED BY <1>4, <1>5
-----------------------------------------------------------------------------
(* The stream and the loop.                                                *)

LEMMA DeliverKeeps ==
    ASSUME IInv, Publish \/ ReadGroup \/ ReclaimPending
    PROVE  IInv'
<1>1. PhaseInv' /\ TasksFit' /\ PendingHasWaker'
  BY PhaseKept DEF IInv, Publish, ReadGroup, ReclaimPending, Deliver, procVars, loopVars
<1>2. CASE Publish
  <2>1. stream' \in Seq(Rows \cup {"foreign", "broken"}) /\ Len(stream') = Len(stream) + 1
    BY <1>2 DEF Publish, IInv, TypeOK
  <2>2. TypeOK'
    BY <1>2, <2>1 DEF Publish, IInv, TypeOK, loopVars, procVars
  <2>3. LoopInv'
    BY <1>2, LoopKept, ApplierAssumption DEF Publish, IInv, TypeOK, loopVars
  <2> QED BY <1>1, <2>2, <2>3 DEF IInv
<1>3. CASE ReadGroup
  <2> DEFINE new == (read + 1) .. Len(stream)
  <2>1. /\ pel' = pel \cup new /\ read' = Len(stream) /\ batch' = new /\ batch = {}
        /\ UNCHANGED <<stream, acked, fails, seen, dlq, stage, handled, isFirstSnapshot, up,
                       tasks, pending, gaveUp, lastSignature, ini, phase, content, procVars,
                       events>>
    BY <1>3 DEF ReadGroup, Deliver
  <2>2. /\ read \in Nat /\ Len(stream) \in Nat /\ read <= Len(stream)
        /\ pel \subseteq 1 .. read /\ acked \subseteq 1 .. read /\ seen \cup dlq \subseteq 1 .. read
    BY DEF IInv, TypeOK
  <2>3. pel' \cup acked' \subseteq 1 .. read' /\ seen' \cup dlq' \subseteq 1 .. read'
        /\ pel' \cap acked' = {} /\ batch' \subseteq pel' /\ read' \in 0 .. Len(stream')
    <3>1. /\ new \subseteq 1 .. Len(stream) /\ 1 .. read \subseteq 1 .. Len(stream)
          /\ new \cap (1 .. read) = {}
      BY <2>2
    <3>2. pel \cap acked = {} /\ Len(stream) \in 0 .. Len(stream)
      BY <2>2 DEF IInv, LoopInv
    <3> HIDE DEF new
    <3> QED BY <2>1, <2>2, <3>1, <3>2
  <2>4. TypeOK'
    BY <2>1, <2>3 DEF IInv, TypeOK, procVars
  <2>5. LoopInv'
    <3>1. stage = "next"
      BY <2>1 DEF IInv, LoopInv, TypeOK
    <3> QED BY <2>1, <2>3, <3>1 DEF IInv, LoopInv, AckedWereHandled
  <2> QED BY <1>1, <2>4, <2>5 DEF IInv
<1>4. CASE ReclaimPending
  <2>1. /\ batch' \subseteq pel /\ batch = {}
        /\ UNCHANGED <<redisVars, stage, handled, isFirstSnapshot, up,
                       tasks, pending, gaveUp, lastSignature, ini, phase, content, procVars,
                       events>>
    BY <1>4 DEF ReclaimPending, Deliver, redisVars
  <2>2. TypeOK'
    BY <2>1 DEF IInv, TypeOK, procVars, redisVars
  <2>3. LoopInv'
    <3>1. stage = "next"
      BY <2>1 DEF IInv, LoopInv, TypeOK
    <3> QED BY <2>1, <3>1 DEF IInv, LoopInv, AckedWereHandled, redisVars
  <2> QED BY <1>1, <2>2, <2>3 DEF IInv
<1> QED BY <1>2, <1>3, <1>4

(* What is recorded of an entry: it is dropped from the batch, and leaves  *)
(* the pending entries only when acknowledged.                             *)
LEMMA OutcomeKeeps ==
    ASSUME IInv, AckApplied \/ CountFailure \/ WriteDeadLetter \/ AckPathFails
    PROVE  IInv'
<1>1. /\ AckUnchanged /\ stage \in {"ok", "failed", "claimed", "written"}
      /\ PhaseInv' /\ TasksFit' /\ PendingHasWaker'
  BY PhaseKept DEF IInv, AckApplied, CountFailure, WriteDeadLetter, AckPathFails,
     AckUnchanged, procVars
<1>2. /\ Entry \in batch /\ Entry \in pel /\ Entry \in 1 .. read /\ Entry \notin acked
      /\ tasks["loop"] = NoTask
  BY <1>1, EntryAtHand DEF IInv, LoopInv
<1>3. /\ events \in Nat /\ events' \in 0 .. MaxEvents /\ events' \in Nat
      /\ events' # events => events' # 0
  BY ApplierAssumption DEF IInv, TypeOK, AckApplied, CountFailure, WriteDeadLetter,
     AckPathFails, Disturbed
<1>4. fails' \in [Ids -> Nat] /\ pel' \subseteq pel
  <2>1. fails \in [Ids -> Nat]
    BY DEF IInv, TypeOK
  <2>2. CASE AckApplied
    BY <2>1, <2>2 DEF AckApplied, XAck
  <2>3. CASE CountFailure
    <3>1. Entry \in Ids => fails[Entry] + 1 \in Nat
      BY <2>1
    <3> QED BY <2>1, <2>3, <3>1 DEF CountFailure, XAck
  <2>4. CASE WriteDeadLetter \/ AckPathFails
    BY <2>1, <2>4 DEF WriteDeadLetter, AckPathFails
  <2> QED BY <2>2, <2>3, <2>4
<1>5. /\ batch' \subseteq pel' /\ pel' \cup acked' \subseteq 1 .. read'
      /\ seen' \cup dlq' \subseteq 1 .. read'
      /\ stage' \in {"next", "applying", "ok", "failed", "claimed", "written"}
  <2>1. /\ batch \subseteq pel /\ pel \cup acked \subseteq 1 .. read
        /\ seen \cup dlq \subseteq 1 .. read /\ read' = read
    BY <1>1 DEF IInv, TypeOK, AckUnchanged
  <2>2. CASE AckApplied
    BY <1>2, <2>1, <2>2 DEF AckApplied, XAck, Leave
  <2>3. CASE CountFailure
    BY <1>1, <1>2, <2>1, <2>3 DEF CountFailure, XAck, Leave
  <2>4. CASE WriteDeadLetter
    BY <1>2, <2>1, <2>4 DEF WriteDeadLetter, Leave
  <2>5. CASE AckPathFails
    BY <2>1, <2>5 DEF AckPathFails, Leave
  <2> QED BY <2>2, <2>3, <2>4, <2>5
<1>6. TypeOK'
  BY <1>1, <1>3, <1>4, <1>5 DEF IInv, TypeOK, AckUnchanged, procVars
<1>7. pel' \cap acked' = {} /\ (stage' # "next" => batch' # {})
      /\ ((stage' = "applying") <=> (tasks'["loop"] # NoTask))
      /\ (stage' # "next" => Entry' = Entry)
  <2>1. pel \cap acked = {} /\ tasks'["loop"] = NoTask
    BY <1>1, <1>2 DEF IInv, LoopInv, AckUnchanged
  <2>2. CASE AckApplied
    BY <1>2, <2>1, <2>2 DEF AckApplied, XAck, Leave
  <2>3. CASE CountFailure
    BY <1>2, <2>1, <2>3 DEF CountFailure, XAck, Leave, Entry
  <2>4. CASE WriteDeadLetter
    BY <1>2, <2>1, <2>4 DEF WriteDeadLetter, Leave, Entry
  <2>5. CASE AckPathFails
    BY <2>1, <2>5 DEF AckPathFails, Leave
  <2> QED BY <2>2, <2>3, <2>4, <2>5
<1>8. /\ stage' # "ok" /\ (stage' = "written" => Entry \in dlq') /\ handled' = handled
      /\ stage' = "claimed" => stage = "failed"
  BY <1>1 DEF AckApplied, CountFailure, WriteDeadLetter, AckPathFails, AckUnchanged, Leave
<1>9. events' = 0 => seen' \subseteq dlq' \cup IF stage' = "claimed" THEN {Entry'} ELSE {}
  <2> SUFFICES ASSUME events' = 0
               PROVE  seen' \subseteq dlq' \cup IF stage' = "claimed" THEN {Entry'} ELSE {}
    OBVIOUS
  <2>1. events = 0 /\ seen \subseteq dlq \cup IF stage = "claimed" THEN {Entry} ELSE {}
    BY <1>3 DEF IInv, LoopInv
  <2>2. CASE AckApplied
    BY <2>1, <2>2 DEF AckApplied, Leave
  <2>3. CASE CountFailure
    BY <1>7, <2>1, <2>3 DEF CountFailure, Leave
  <2>4. CASE WriteDeadLetter
    BY <1>3, <2>1, <2>4 DEF WriteDeadLetter, Disturbed
  <2>5. CASE AckPathFails
    BY <1>3, <2>1, <2>5 DEF AckPathFails, Disturbed
  <2> QED BY <2>2, <2>3, <2>4, <2>5
<1>10. AckedWereHandled'
  <2> SUFFICES ASSUME NEW m \in acked'
               PROVE  m \in handled' \cup dlq' \/ (m \in seen' /\ events' > 0)
    BY DEF AckedWereHandled
  <2>0. dlq \subseteq dlq' /\ events' >= events
    BY <1>3 DEF AckApplied, CountFailure, WriteDeadLetter, AckPathFails, Disturbed
  <2>1. CASE m \in acked
    <3>1. m \in handled \cup dlq \/ (m \in seen /\ events > 0)
      BY <2>1 DEF IInv, LoopInv, AckedWereHandled
    <3>2. m \in seen => m \in seen'
      BY <1>2, <2>1 DEF AckApplied, CountFailure, WriteDeadLetter, AckPathFails
    <3> QED BY <1>3, <1>8, <2>0, <3>1, <3>2
  <2>2. CASE m \notin acked
    <3>1. m = Entry /\ UNCHANGED <<dlq, events>>
          /\ (stage \in {"ok", "written"} \/ (stage = "failed" /\ m \in seen /\ seen' = seen))
      BY <2>2 DEF AckApplied, CountFailure, WriteDeadLetter, AckPathFails, XAck
    <3>2. CASE stage \in {"ok", "written"}
      BY <1>8, <3>1, <3>2 DEF IInv, LoopInv
    <3>3. CASE stage = "failed" /\ m \in seen /\ seen' = seen
      BY <1>3, <3>1, <3>3 DEF IInv, LoopInv
    <3> QED BY <3>1, <3>2, <3>3
  <2> QED BY <2>1, <2>2
<1> QED BY <1>1, <1>6, <1>7, <1>8, <1>9, <1>10 DEF IInv, LoopInv
-----------------------------------------------------------------------------
(* What happens while nothing is awake.                                    *)

LEMMA HandleSnapshotKeeps == ASSUME IInv, HandleSnapshot PROVE IInv'
<1> DEFINE m == stream[Entry]
           k == [NoTask EXCEPT !.pc = "begin", !.kind = "reconcile", !.row = m]
<1>1. /\ up /\ (\A t \in Slots: ~Awake(t)) /\ stage = "next" /\ batch # {}
      /\ UNCHANGED <<redisVars, batch, up, pending, gaveUp, lastSignature, ini, phase,
                     content, procVars, events>>
      /\ "loop" \in Slots
  BY DEF HandleSnapshot, Quiet, Slots
<1>2. tasks["loop"] = NoTask
  BY <1>1 DEF IInv, LoopInv
<1>3. CASE m \in Rows
  <2>1. /\ stage' = "applying" /\ tasks' = [tasks EXCEPT !["loop"] = k]
        /\ UNCHANGED <<handled, isFirstSnapshot>>
    BY <1>3 DEF HandleSnapshot
  <2>2. k \in Tasks /\ k # NoTask /\ TaskFits(k) /\ k.kind = "reconcile" /\ k.pc = "begin"
    BY <1>3 DEF NoTask, Tasks, TaskFits
  <2> HIDE DEF k
  <2>3. /\ tasks' \in [Slots -> Tasks] /\ TasksFit' /\ tasks'["loop"] = k
        /\ \A u \in Slots: u # "loop" => tasks'[u] = tasks[u]
    BY <1>1, <2>1, <2>2, TaskSet DEF IInv
  <2>4. PhaseInv'
    BY <1>1, <1>2, <2>1, <2>2, PhaseBegins DEF IInv
  <2>5. PendingHasWaker'
    BY <1>1, <2>3, ApplierAssumption DEF IInv, PendingHasWaker, Slots
  <2>6. TypeOK'
    BY <1>1, <2>1, <2>3 DEF IInv, TypeOK, redisVars, procVars
  <2>7. LoopInv'
    BY <1>1, <2>1, <2>2, <2>3 DEF IInv, LoopInv, AckedWereHandled, redisVars
  <2> QED BY <2>3, <2>4, <2>5, <2>6, <2>7 DEF IInv
<1>4. CASE m \notin Rows
  <2>1. /\ stage' = IF m = "broken" THEN "failed" ELSE "ok"
        /\ handled' = IF m = "broken" THEN handled ELSE handled \cup {Entry}
        /\ isFirstSnapshot' \in BOOLEAN /\ UNCHANGED tasks
    BY <1>4 DEF HandleSnapshot
  <2>2. PhaseInv' /\ TasksFit' /\ PendingHasWaker'
    BY <1>1, <2>1, PhaseKept DEF IInv, procVars
  <2>3. TypeOK'
    BY <1>1, <2>1 DEF IInv, TypeOK, redisVars, procVars
  <2>4. LoopInv'
    BY <1>1, <1>2, <2>1 DEF IInv, LoopInv, AckedWereHandled, Entry, redisVars
  <2> QED BY <2>2, <2>3, <2>4 DEF IInv
<1> QED BY <1>3, <1>4

(* A task begins in a free slot.                                           *)
LEMMA BeginKeeps ==
    ASSUME IInv, NEW kind \in {"reconcile", "http"}, NEW r, NEW restart \in BOOLEAN,
           kind = "reconcile" => r \in Rows, kind = "http" => r = "none",
           \A t \in Slots: ~Awake(t), up, UNCHANGED up, Begin(kind, r, restart),
           UNCHANGED <<redisVars, loopVars, gaveUp, lastSignature>>,
           events \in Nat, events' \in Nat, events' = 0 => events = 0,
           phase' \in {phase, "PREPARING"},
           pending' = pending \/ kind = "reconcile"
    PROVE  /\ tasks' \in [Slots -> Tasks] /\ TasksFit' /\ PhaseInv' /\ PendingHasWaker' /\ LoopInv'
<1> DEFINE k(t) == [NoTask EXCEPT !.pc = IF kind = "http" THEN "gate" ELSE "begin",
                                  !.kind = kind, !.row = r, !.changed = restart,
                                  !.res = IF kind = "http" THEN "wait" ELSE "none"]
<1>1. PICK t \in Retries: tasks[t] = NoTask /\ tasks' = [tasks EXCEPT ![t] = k(t)]
  BY DEF Begin
<1>2. t \in Slots /\ t # "loop"
  BY ApplierAssumption DEF Slots
<1>3. /\ k(t) \in Tasks /\ k(t) # NoTask /\ TaskFits(k(t)) /\ k(t).kind = kind
      /\ k(t).pc = "begin" \/ (k(t).pc = "gate" /\ k(t).res = "wait")
  BY DEF NoTask, Tasks, TaskFits
<1> HIDE DEF k
<1>4. /\ tasks' \in [Slots -> Tasks] /\ TasksFit' /\ tasks'[t] = k(t)
      /\ \A u \in Slots: u # t => tasks'[u] = tasks[u]
  BY <1>1, <1>2, <1>3, TaskSet DEF IInv
<1>5. PhaseInv'
  BY <1>1, <1>2, <1>3, PhaseBegins DEF IInv
<1>6. PendingHasWaker'
  <2>1. CASE kind = "reconcile"
    BY <1>3, <1>4, <2>1 DEF PendingHasWaker
  <2>2. CASE kind = "http"
    <3>1. \A u \in Slots: tasks[u].kind = "reconcile" => tasks'[u].kind = "reconcile"
      BY <1>1, <1>4 DEF NoTask
    <3> QED BY <2>2, <3>1 DEF IInv, PendingHasWaker, Slots
  <2> QED BY <2>1, <2>2
<1>7. tasks'["loop"] = tasks["loop"] /\ "loop" \in Slots
  BY <1>2, <1>4 DEF Slots
<1>8. LoopInv'
  BY <1>7, LoopKept DEF IInv, redisVars, loopVars
<1> QED BY <1>4, <1>5, <1>6, <1>8

LEMMA StartKeeps ==
    ASSUME IInv, RetryFires \/ HttpStart \/ \E r \in Rows: InstallEnds(r)
    PROVE  IInv'
<1>1. up /\ \A t \in Slots: ~Awake(t)
  BY DEF RetryFires, HttpStart, InstallEnds, Quiet
<1>2. /\ UNCHANGED <<redisVars, loopVars, up, gaveUp, lastSignature, ini, procVars>>
      /\ events' \in 0 .. MaxEvents /\ events \in Nat /\ events' \in Nat
      /\ events' = 0 => events = 0
      /\ phase' \in {phase, "PREPARING"}
      /\ content' \in [Rows -> {"absent", "extracting", "ready"}]
  <2>1. /\ events \in 0 .. MaxEvents /\ events \in Nat /\ MaxEvents \in Nat
        /\ content \in [Rows -> {"absent", "extracting", "ready"}]
    BY ApplierAssumption DEF IInv, TypeOK
  <2>2. UNCHANGED <<redisVars, loopVars, up, gaveUp, lastSignature, ini, procVars>>
    BY DEF RetryFires, HttpStart, InstallEnds
  <2>3. events' = events \/ (events < MaxEvents /\ events' = events + 1)
    BY DEF RetryFires, HttpStart, InstallEnds, Disturbed
  <2>4. phase' \in {phase, "PREPARING"}
    BY DEF RetryFires, HttpStart, InstallEnds
  <2>5. content' = content \/ \E r \in Rows: content' = [content EXCEPT ![r] = "ready"]
    BY DEF RetryFires, HttpStart, InstallEnds
  <2> QED BY <2>1, <2>2, <2>3, <2>4, <2>5
<1>3. pending' = NoPending \/ pending' \in [row: Rows, attempts: 1 .. PENDING_MAX_ATTEMPTS,
                                            armed: BOOLEAN]
  <2>1. pending \in Pendings
    BY DEF IInv, TypeOK, Pendings
  <2>2. NoPending.armed = FALSE /\ NoPending.row \notin Rows
    BY ApplierAssumption DEF NoPending
  <2>3. CASE HttpStart
    BY <2>1, <2>3 DEF HttpStart, Pendings
  <2>4. CASE RetryFires
    BY <2>1, <2>2, <2>4 DEF RetryFires, Pendings
  <2>5. CASE \E r \in Rows: InstallEnds(r)
    BY <2>1, <2>2, <2>5 DEF InstallEnds, Pendings
  <2> QED BY <2>3, <2>4, <2>5
<1>4. CASE UNCHANGED tasks
  <2>1. PICK r \in Rows: InstallEnds(r) /\ pending.row # r
    <3>1. ASSUME NEW kind, NEW r, NEW restart, Begin(kind, r, restart), kind # "none"
          PROVE  FALSE
      <4> DEFINE k == [NoTask EXCEPT !.pc = IF kind = "http" THEN "gate" ELSE "begin",
                                     !.kind = kind, !.row = r, !.changed = restart,
                                     !.res = IF kind = "http" THEN "wait" ELSE "none"]
      <4>1. PICK t \in Retries: tasks[t] = NoTask /\ tasks' = [tasks EXCEPT ![t] = k]
        BY <3>1 DEF Begin
      <4>2. k # NoTask
        BY DEF NoTask
      <4> HIDE DEF k
      <4>3. tasks'[t] = k
        BY <4>1 DEF IInv, TypeOK, Slots
      <4> QED BY <1>4, <4>1, <4>2, <4>3
    <3> QED BY <3>1 DEF RetryFires, HttpStart, InstallEnds
  <2>2. UNCHANGED <<pending, phase>>
    BY <2>1 DEF InstallEnds
  <2>3. PhaseInv' /\ TasksFit' /\ PendingHasWaker'
    BY <1>2, <1>4, <2>2, PhaseKept DEF IInv, procVars
  <2>4. LoopInv'
    BY <1>2, <1>4, LoopKept DEF IInv, redisVars, loopVars
  <2>5. TypeOK'
    BY <1>2, <1>3, <1>4, <2>2 DEF IInv, TypeOK, redisVars, loopVars, procVars
  <2> QED BY <2>3, <2>4, <2>5 DEF IInv
<1>5. CASE ~UNCHANGED tasks
  <2>1. \E kind \in {"reconcile", "http"}, r \in Rows \cup {"none"}, restart \in BOOLEAN:
          /\ kind = "reconcile" => r \in Rows
          /\ kind = "http" => r = "none"
          /\ Begin(kind, r, restart)
          /\ pending' = pending \/ kind = "reconcile"
    <3>1. CASE HttpStart
      BY <3>1 DEF HttpStart
    <3>2. CASE RetryFires
      <4>1. pending.row \in Rows
        BY <3>2 DEF RetryFires, IInv, TypeOK, NoPending
      <4> QED BY <3>2, <4>1 DEF RetryFires
    <3>3. CASE \E r \in Rows: InstallEnds(r)
      BY <1>5, <3>3 DEF InstallEnds
    <3> QED BY <3>1, <3>2, <3>3
  <2>2. /\ tasks' \in [Slots -> Tasks] /\ TasksFit' /\ PhaseInv' /\ PendingHasWaker' /\ LoopInv'
    BY <1>1, <1>2, <2>1, BeginKeeps
  <2>3. TypeOK'
    BY <1>2, <1>3, <2>2 DEF IInv, TypeOK, redisVars, loopVars, procVars
  <2> QED BY <2>2, <2>3 DEF IInv
<1> QED BY <1>4, <1>5

(* The process comes and goes, and content arrives, while nothing is awake; *)
(* a process may die at any time, which changes no entry.                  *)
LEMMA ProcessTypes ==
    ASSUME TypeOK, Kill
    PROVE  /\ active' \in 0 .. MaxPids /\ active' = NoPid
           /\ procs' \cup children' \cup exits' \subseteq 1 .. MaxPids
BY ApplierAssumption DEF TypeOK, Kill, NoPid

LEMMA SurroundingsKeep ==
    ASSUME IInv,
           \/ GatePolls \/ HttpStop \/ IdleShutdown
           \/ \E r \in Rows: InstallBegins(r)
           \/ \E p \in 1 .. MaxPids: ProcessDies(p) \/ ExitHandler(p)
    PROVE  IInv'
<1>1. /\ UNCHANGED <<redisVars, loopVars, up, tasks, pending, gaveUp, lastSignature, ini>>
      /\ phase' = phase \/ (phase' = "PREPARING" /\ \E t \in Slots: tasks[t] # NoTask)
      /\ content' = content \/ \E r \in Rows: content' = [content EXCEPT ![r] = "extracting"]
      /\ events' = events \/ (events < MaxEvents /\ events' = events + 1)
  <2>1. CASE GatePolls
    <3>1. \E t \in Slots: tasks[t].pc \in {"preflight", "gate"}
      BY <2>1 DEF GatePolls, Waiting
    <3>2. \E t \in Slots: tasks[t] # NoTask
      BY <3>1 DEF NoTask
    <3> QED BY <2>1, <3>2 DEF GatePolls, GateUnchanged
  <2>2. CASE HttpStop \/ IdleShutdown \/ \E p \in 1 .. MaxPids: ProcessDies(p) \/ ExitHandler(p)
    BY <2>2 DEF HttpStop, IdleShutdown, ProcessDies, ExitHandler, KillUnchanged, Disturbed
  <2>3. CASE \E r \in Rows: InstallBegins(r)
    BY <2>3 DEF InstallBegins
  <2> QED BY <2>1, <2>2, <2>3
<1>2. /\ active' \in 0 .. MaxPids
      /\ procs' \cup children' \cup exits' \subseteq 1 .. MaxPids
  <2>1. active \in 0 .. MaxPids /\ procs \cup children \cup exits \subseteq 1 .. MaxPids
        /\ MaxPids \in Nat
    BY ApplierAssumption DEF IInv, TypeOK
  <2>2. CASE HttpStop \/ IdleShutdown
    BY <2>2, ProcessTypes DEF HttpStop, IdleShutdown, IInv
  <2>3. CASE \E p \in 1 .. MaxPids: ProcessDies(p) \/ ExitHandler(p)
    BY <2>1, <2>3 DEF ProcessDies, ExitHandler, NoPid
  <2>4. CASE UNCHANGED procVars
    BY <2>1, <2>4 DEF procVars
  <2> QED BY <2>2, <2>3, <2>4 DEF GatePolls, GateUnchanged, InstallBegins
<1>3. events \in Nat /\ events' \in 0 .. MaxEvents /\ events' \in Nat /\ (events' = 0 => events = 0)
  BY <1>1, ApplierAssumption DEF IInv, TypeOK
<1>4. TypeOK'
  <2>1. content' \in [Rows -> {"absent", "extracting", "ready"}]
    BY <1>1 DEF IInv, TypeOK
  <2>2. phase' \in {"none", "PREPARING", "CONFIGURING", "STARTING", "ONLINE", "FAILED"}
    BY <1>1 DEF IInv, TypeOK
  <2> QED BY <1>1, <1>2, <1>3, <2>1, <2>2 DEF IInv, TypeOK, redisVars, loopVars
<1>5. LoopInv'
  BY <1>1, <1>3, LoopKept DEF IInv, redisVars, loopVars
<1>6. TasksFit' /\ PendingHasWaker'
  BY <1>1 DEF IInv, TasksFit, PendingHasWaker
<1>7. PhaseInv'
  <2>1. CASE \A t \in Slots: ~Awake(t)
    BY <1>1, <2>1, PhaseWhileQuiet DEF IInv
  <2>2. CASE \E p \in 1 .. MaxPids: ProcessDies(p)
    <3>1. UNCHANGED <<active, phase>>
      BY <2>2 DEF ProcessDies, KillUnchanged
    <3> QED BY <1>1, <3>1, PhaseKept DEF IInv
  <2> QED BY <2>1, <2>2 DEF GatePolls, HttpStop, IdleShutdown, InstallBegins, ExitHandler, Quiet
<1> QED BY <1>4, <1>5, <1>6, <1>7 DEF IInv

(* The gate wakes all that wait for the same server and content.           *)
LEMMA GateEndsKeeps ==
    ASSUME IInv, NEW key \in Rows \cup {"none"}, GateEnds(key) PROVE IInv'
<1>1. PICK res \in {"ok", "unrecoverable", "timeout"}:
        /\ tasks' = [t \in Slots |-> IF t \in Waiting(key)
                                     THEN [tasks[t] EXCEPT !.res = res] ELSE tasks[t]]
        /\ phase' = IF res = "ok" THEN phase ELSE "FAILED"
  BY DEF GateEnds
<1>2. /\ up /\ (\A t \in Slots: ~Awake(t))
      /\ UNCHANGED <<redisVars, loopVars, up, pending, gaveUp, lastSignature, ini,
                     content, procVars, events>>
  BY DEF GateEnds, GateUnchanged, Quiet
<1>3. \A t \in Slots: t \in Waiting(key) =>
        /\ tasks[t].pc \in {"preflight", "gate"} /\ tasks[t].row = key
        /\ tasks[t] \in Tasks /\ TaskFits(tasks[t])
  BY DEF Waiting, GateKey, IInv, TypeOK, TasksFit, TaskFits, Tasks
<1>4. \A t \in Slots: t \in Waiting(key) =>
        /\ tasks'[t] \in Tasks /\ TaskFits(tasks'[t]) /\ tasks'[t] # NoTask
        /\ tasks'[t].pc = tasks[t].pc /\ tasks'[t].kind = tasks[t].kind
        /\ tasks'[t].row = key /\ Verdict(tasks'[t]) = res
  <2> SUFFICES ASSUME NEW t \in Slots, t \in Waiting(key)
               PROVE  /\ tasks'[t] \in Tasks /\ TaskFits(tasks'[t]) /\ tasks'[t] # NoTask
                      /\ tasks'[t].pc = tasks[t].pc /\ tasks'[t].kind = tasks[t].kind
                      /\ tasks'[t].row = key /\ Verdict(tasks'[t]) = res
    OBVIOUS
  <2>1. tasks'[t] = [tasks[t] EXCEPT !.res = res]
    BY <1>1
  <2>2. tasks'[t] \in Tasks /\ tasks'[t].pc = tasks[t].pc /\ tasks'[t].kind = tasks[t].kind
        /\ tasks'[t].row = key /\ tasks'[t].res = res /\ tasks'[t].path = tasks[t].path
    BY <1>3, <2>1 DEF Tasks
  <2>3. tasks'[t] # NoTask /\ tasks[t] # NoTask /\ Verdict(tasks'[t]) = res
    BY <1>3, <2>2 DEF NoTask, Verdict
  <2>4. TaskFits(tasks'[t])
    BY <1>3, <2>2, <2>3 DEF TaskFits
  <2> QED BY <2>2, <2>3, <2>4
<1>5. \A t \in Slots: t \notin Waiting(key) => tasks'[t] = tasks[t]
  BY <1>1
<1>6. \A t \in Slots: Awake(t)' => t \in Waiting(key)
  BY <1>2, <1>5 DEF Awake
<1>7. tasks' \in [Slots -> Tasks] /\ TasksFit'
  <2>1. tasks' \in [Slots -> Tasks]
    BY <1>1, <1>4, <1>5 DEF IInv, TypeOK
  <2>2. "loop" \in Slots
    BY DEF Slots
  <2> QED BY <1>2, <1>4, <1>5, <2>1, <2>2 DEF IInv, TasksFit
<1>8. TypeOK'
  BY <1>1, <1>2, <1>7 DEF IInv, TypeOK, redisVars, loopVars, procVars
<1>9. LoopInv'
  <2>1. (tasks["loop"] = NoTask) <=> (tasks'["loop"] = NoTask)
    BY <1>3, <1>4, <1>5 DEF Slots, NoTask
  <2>2. events \in Nat /\ events' = events
    BY <1>2, ApplierAssumption DEF IInv, TypeOK
  <2> QED BY <1>2, <2>1, <2>2, LoopKept DEF IInv, redisVars, loopVars
<1>10. PendingHasWaker'
  BY <1>2, <1>4, <1>5 DEF IInv, PendingHasWaker, Slots
<1>11. PhaseInv'
  <2>1. OneRowAwake' /\ OneVerdict' /\ BeginsAlone'
    BY <1>3, <1>4, <1>6 DEF OneRowAwake, OneVerdict, BeginsAlone
  <2>2. \A t \in Slots: tasks'[t].pc = tasks[t].pc /\ tasks[t].pc # "branding"
    BY <1>2, <1>4, <1>5 DEF Awake
  <2>3. SeesProcess' /\ SeesSignature' /\ PreparedByOther'
    BY <2>2 DEF SeesProcess, SeesSignature, PreparedByOther
  <2>4. StartingEnds' /\ ConfiguringEnds'
    BY <1>1, <2>2 DEF IInv, PhaseInv, StartingEnds, Respawning, ConfiguringEnds
  <2>5. PreparingEnds'
    BY <1>1, <1>2, <1>4, <1>5 DEF IInv, PhaseInv, PreparingEnds
  <2> QED BY <2>1, <2>3, <2>4, <2>5 DEF PhaseInv
<1> QED BY <1>7, <1>8, <1>9, <1>10, <1>11 DEF IInv

LEMMA RestartKeeps == ASSUME IInv, Crash \/ Boot PROVE IInv'
<1>1. NoTask \in Tasks /\ TaskFits(NoTask) /\ NoTask.pc = "idle" /\ NoTask.kind = "none"
  BY NoPendingIsNone
<1>2. \A t \in Slots: tasks'[t] = NoTask
  BY DEF Crash, Boot, IInv, TasksFit
<1>3. tasks' \in [Slots -> Tasks] /\ TasksFit'
  BY <1>1, <1>2 DEF Crash, Boot, IInv, TypeOK, TasksFit, Slots
<1>4. events \in Nat /\ events' \in 0 .. MaxEvents /\ events' \in Nat /\ (events' = 0 => events = 0)
  BY ApplierAssumption DEF IInv, TypeOK, Crash, Boot, Disturbed
<1>5. TypeOK'
  <2>1. active' \in 0 .. MaxPids
    BY ApplierAssumption DEF IInv, TypeOK, Crash, Boot, NoPid
  <2>2. CASE Crash
    BY <1>3, <1>4, <2>1, <2>2 DEF Crash, IInv, TypeOK, redisVars
  <2>3. CASE Boot
    BY <1>3, <1>4, <2>1, <2>3 DEF Boot, IInv, TypeOK, redisVars, loopVars
  <2> QED BY <2>2, <2>3
<1>6. LoopInv'
  <2>1. CASE Crash
    <3>1. "loop" \in Slots /\ events' # 0
      BY <1>4, <2>1 DEF Slots, Crash, Disturbed
    <3>2. AckedWereHandled'
      BY <1>4, <2>1, <3>1 DEF Crash, Disturbed, IInv, LoopInv, AckedWereHandled, redisVars
    <3> QED BY <1>2, <2>1, <3>1, <3>2 DEF Crash, IInv, LoopInv, redisVars
  <2>2. CASE Boot
    BY <1>4, <2>2, LoopKept DEF Boot, IInv, redisVars, loopVars
  <2> QED BY <2>1, <2>2
<1>7. PendingHasWaker'
  BY DEF Crash, Boot, IInv, PendingHasWaker
<1>8. PhaseInv'
  <2>1. \A t \in Slots: ~Awake(t)' /\ tasks'[t].pc # "branding"
    BY <1>1, <1>2 DEF Awake
  <2>2. OneRowAwake' /\ OneVerdict' /\ BeginsAlone' /\ SeesProcess' /\ SeesSignature'
        /\ PreparedByOther'
    BY <2>1 DEF OneRowAwake, OneVerdict, BeginsAlone, SeesProcess, SeesSignature, PreparedByOther
  <2>3. StartingEnds' /\ ConfiguringEnds' /\ PreparingEnds'
    <3>1. CASE Crash
      BY <3>1 DEF Crash, StartingEnds, ConfiguringEnds, PreparingEnds
    <3>2. CASE Boot
      BY <3>2 DEF Boot, IInv, PhaseInv, StartingEnds, ConfiguringEnds, PreparingEnds, Respawning
    <3> QED BY <3>1, <3>2
  <2> QED BY <2>2, <2>3 DEF PhaseInv
<1> QED BY <1>3, <1>5, <1>6, <1>7, <1>8 DEF IInv
-----------------------------------------------------------------------------
(* The steps of a task.  What all of them have in common first.            *)

StepTyped ==
    /\ lastSignature' \in Rows \cup {"none"} /\ ini' \in Rows \cup {"none"}
    /\ phase' \in {"none", "PREPARING", "CONFIGURING", "STARTING", "ONLINE", "FAILED"}
    /\ active' \in 0 .. MaxPids /\ procs' \cup children' \cup exits' \subseteq 1 .. MaxPids

LEMMA StepTypes ==
    ASSUME TypeOK, StepUnchanged, StepTyped, tasks' \in [Slots -> Tasks],
           pending' \in Pendings, isFirstSnapshot' \in BOOLEAN,
           stage' \in {"next", "applying", "ok", "failed", "claimed", "written"}
    PROVE  TypeOK'
BY DEF TypeOK, StepUnchanged, StepTyped, redisVars, Pendings

LEMMA TaskGoes ==
    ASSUME IInv, NEW t \in Slots, up, tasks[t] # NoTask, StepUnchanged, StepTyped,
           NEW k \in Tasks, TaskFits(k), k # NoTask, k.kind = tasks[t].kind, Goto(t, k)
    PROVE  TypeOK' /\ TasksFit' /\ LoopInv' /\ PendingHasWaker'
<1>1. /\ tasks' = [tasks EXCEPT ![t] = k] /\ UNCHANGED <<redisVars, batch, events, up>>
      /\ UNCHANGED <<stage, handled, isFirstSnapshot, pending, gaveUp>>
  BY DEF Goto, StepUnchanged
<1>2. t = "loop" => k.kind # "http"
  BY DEF IInv, TasksFit
<1>3. tasks' \in [Slots -> Tasks] /\ TasksFit'
  BY <1>1, <1>2, TaskSet DEF IInv
<1>4. LoopInv' /\ isFirstSnapshot' \in BOOLEAN
      /\ stage' \in {"next", "applying", "ok", "failed", "claimed", "written"}
  BY <1>1, LoopTask DEF IInv
<1>5. PendingHasWaker' /\ pending' \in Pendings
  BY <1>1, PendingGoesOn DEF IInv, TypeOK, Pendings
<1> QED BY <1>3, <1>4, <1>5, StepTypes DEF IInv

LEMMA TaskEnds ==
    ASSUME IInv, NEW t \in Slots, up, tasks[t] # NoTask, StepUnchanged, StepTyped, EndTask(t),
           \/ (EndPending(t) \/ EndCleared(t)) /\ tasks[t].row \in Rows
           \/ tasks[t].kind = "http" /\ UNCHANGED <<pending, gaveUp>>
    PROVE  TypeOK' /\ TasksFit' /\ LoopInv' /\ PendingHasWaker'
<1>1. tasks' = [tasks EXCEPT ![t] = NoTask] /\ UNCHANGED <<redisVars, batch, events, up>>
  BY DEF EndTask, StepUnchanged
<1>2. NoTask \in Tasks /\ TaskFits(NoTask) /\ NoTask.kind # "http"
  BY NoPendingIsNone
<1>3. tasks' \in [Slots -> Tasks] /\ TasksFit'
  BY <1>1, <1>2, TaskSet DEF IInv
<1>4. LoopInv' /\ isFirstSnapshot' \in BOOLEAN
      /\ stage' \in {"next", "applying", "ok", "failed", "claimed", "written"}
  BY <1>1, LoopTask DEF IInv
<1>5. PendingHasWaker' /\ pending' \in Pendings
  <2>1. CASE (EndPending(t) \/ EndCleared(t)) /\ tasks[t].row \in Rows
    BY <2>1, PendingEnds DEF IInv
  <2>2. CASE tasks[t].kind = "http" /\ UNCHANGED <<pending, gaveUp>>
    BY <1>1, <1>2, <2>2, PendingGoesOn DEF IInv, TypeOK, Pendings
  <2> QED BY <2>1, <2>2
<1> QED BY <1>3, <1>4, <1>5, StepTypes DEF IInv

(* What a reconcile at work looks like, and what an ending one leaves.     *)
LEMMA TaskAtWork ==
    ASSUME IInv, NEW t \in Slots, tasks[t].pc # "idle"
    PROVE  /\ tasks[t] # NoTask /\ tasks[t] \in Tasks /\ TaskFits(tasks[t])
           /\ tasks[t].kind = "http" \/ (tasks[t].kind = "reconcile" /\ tasks[t].row \in Rows)
           /\ tasks[t].pc \notin {"gate", "respawn"} => tasks[t].kind = "reconcile"
BY DEF IInv, TypeOK, TasksFit, TaskFits, Tasks, NoTask

LEMMA OthersStay ==
    ASSUME TypeOK, NEW t \in Slots, NEW k, tasks' = [tasks EXCEPT ![t] = k]
    PROVE  tasks'[t] = k /\ \A u \in Slots: u # t => tasks'[u] = tasks[u]
BY DEF TypeOK

(* With a phase that is final there is nothing to end.                     *)
LEMMA FinalPhase ==
    ASSUME phase' \in {"none", "ONLINE", "FAILED"}
    PROVE  StartingEnds' /\ ConfiguringEnds' /\ PreparingEnds' /\ PreparedByOther'
BY DEF StartingEnds, ConfiguringEnds, PreparingEnds, PreparedByOther

LEMMA PreparedStays ==
    ASSUME PhaseInv, TypeOK, NEW t \in Slots, NEW k, tasks' = [tasks EXCEPT ![t] = k],
           UNCHANGED phase, Awake(t),
           ~(k.pc = "branding" /\ k.path = "on")
    PROVE  PreparedByOther'
<1>1. tasks'[t] = k /\ \A u \in Slots: u # t => tasks'[u] = tasks[u]
  BY OthersStay
<1> QED BY <1>1 DEF PhaseInv, PreparedByOther, Awake
-----------------------------------------------------------------------------
LEMMA PreflightKeeps ==
    ASSUME IInv, NEW t \in Slots, up, Preflight(t) PROVE IInv'
<1> DEFINE task == tasks[t]
           body == [task EXCEPT !.pc = "body"]
           waits == [task EXCEPT !.pc = "preflight", !.res = "wait"]
<1>1. /\ task.pc = "begin" /\ Awake(t) /\ StepUnchanged /\ UNCHANGED <<lastSignature, active>>
      /\ phase' \in {phase, "PREPARING"}
  BY DEF Preflight, Awake, procVars
<1>2. /\ task # NoTask /\ task \in Tasks /\ TaskFits(task) /\ task.kind = "reconcile"
      /\ task.row \in Rows
  BY <1>1, TaskAtWork
<1>3. StepTyped
  BY DEF Preflight, StepTyped, IInv, TypeOK, procVars
<1>4. \A u \in Slots: tasks[u].pc = "branding" => FALSE
  BY <1>1 DEF IInv, PhaseInv, BeginsAlone, Awake
<1>5. CASE Goto(t, body) /\ UNCHANGED phase
  <2>1. body \in Tasks /\ body # NoTask /\ body.kind = task.kind /\ body.row = task.row
        /\ body.pc = "body" /\ TaskFits(body)
    BY <1>1, <1>2 DEF Tasks, TaskFits, NoTask
  <2>2. tasks' = [tasks EXCEPT ![t] = body] /\ Verdict(task) = "ok"
    BY <1>1, <1>5 DEF Goto, Verdict
  <2> HIDE DEF body
  <2>3. TypeOK' /\ TasksFit' /\ LoopInv' /\ PendingHasWaker'
    BY <1>1, <1>2, <1>3, <1>5, <2>1, TaskGoes
  <2>4. OneRowAwake' /\ OneVerdict' /\ BeginsAlone'
    BY <1>1, <2>1, <2>2, AwakeGoesOn DEF IInv
  <2>5. SeesProcess' /\ SeesSignature'
    BY <1>1, <2>1, <2>2, AwakeSees DEF IInv
  <2>6. StartingEnds' /\ ConfiguringEnds'
    BY <1>1, <1>5, <2>1, <2>2, PhaseLeft DEF IInv
  <2>7. PreparedByOther'
    BY <1>1, <1>5, <2>1, <2>2, PreparedStays DEF IInv
  <2>8. PreparingEnds'
    BY <2>1, <2>2, OthersStay DEF IInv, PreparingEnds
  <2> QED BY <2>3, <2>4, <2>5, <2>6, <2>7, <2>8 DEF IInv, PhaseInv
<1>6. ASSUME phase' = "PREPARING", NEW k \in Tasks, tasks' = [tasks EXCEPT ![t] = k],
             k.pc = "idle" \/ (k.pc = "preflight" /\ k.res = "wait"),
             k # NoTask \/ pending' # NoPending \/ gaveUp'
      PROVE  PhaseInv'
  <2>1. tasks'[t] = k /\ \A u \in Slots: u # t => tasks'[u] = tasks[u]
    BY <1>6, OthersStay DEF IInv
  <2>2. OneRowAwake' /\ OneVerdict' /\ BeginsAlone'
    BY <1>1, <1>6, AwakeGoesOn DEF IInv
  <2>3. SeesProcess' /\ SeesSignature'
    BY <1>1, <1>6, AwakeSees DEF IInv
  <2>4. PreparedByOther'
    BY <1>4, <1>6, <2>1 DEF PreparedByOther
  <2>5. PreparingEnds' /\ StartingEnds' /\ ConfiguringEnds'
    BY <1>6, <2>1 DEF PreparingEnds, StartingEnds, ConfiguringEnds
  <2> QED BY <2>2, <2>3, <2>4, <2>5 DEF PhaseInv
<1>7. CASE phase' = "PREPARING" /\ EndPending(t)
  <2>1. EndTask(t) /\ tasks' = [tasks EXCEPT ![t] = NoTask]
    BY <1>7 DEF EndPending, EndTask
  <2>2. TypeOK' /\ TasksFit' /\ LoopInv' /\ PendingHasWaker'
    BY <1>1, <1>2, <1>3, <1>7, <2>1, TaskEnds
  <2>3. pending' # NoPending \/ gaveUp'
    BY <1>2, <1>7, PendingEnds DEF IInv
  <2>4. PhaseInv'
    BY <1>6, <1>7, <2>1, <2>3, NoPendingIsNone
  <2> QED BY <2>2, <2>4 DEF IInv
<1>8. CASE phase' = "PREPARING" /\ Goto(t, waits)
  <2>1. waits \in Tasks /\ waits # NoTask /\ waits.kind = task.kind
        /\ waits.pc = "preflight" /\ waits.res = "wait" /\ TaskFits(waits)
    BY <1>1, <1>2 DEF Tasks, TaskFits, NoTask
  <2>2. tasks' = [tasks EXCEPT ![t] = waits]
    BY <1>8 DEF Goto
  <2> HIDE DEF waits
  <2>3. TypeOK' /\ TasksFit' /\ LoopInv' /\ PendingHasWaker'
    BY <1>1, <1>2, <1>3, <1>8, <2>1, TaskGoes
  <2>4. PhaseInv'
    BY <1>6, <1>8, <2>1, <2>2
  <2> QED BY <2>3, <2>4 DEF IInv
<1> QED BY <1>5, <1>7, <1>8 DEF Preflight

LEMMA PreflightEndsKeeps ==
    ASSUME IInv, NEW t \in Slots, up, PreflightEnds(t) PROVE IInv'
<1> DEFINE task == tasks[t]
           body == [task EXCEPT !.pc = "body"]
<1>1. /\ task.pc = "preflight" /\ task.res # "wait" /\ Awake(t) /\ StepUnchanged
      /\ UNCHANGED <<lastSignature, active>>
  BY DEF PreflightEnds, Awake, procVars
<1>2. /\ task # NoTask /\ task \in Tasks /\ TaskFits(task) /\ task.kind = "reconcile"
      /\ task.row \in Rows /\ task.res \in {"ok", "unrecoverable", "timeout"}
      /\ Verdict(task) = task.res
  <2>1. task # NoTask /\ task \in Tasks /\ TaskFits(task) /\ task.kind = "reconcile"
        /\ task.row \in Rows
    BY <1>1, TaskAtWork
  <2> QED BY <1>1, <2>1 DEF TaskFits, Tasks, Verdict
<1>3. /\ task.res = "ok" => Goto(t, body) /\ UNCHANGED phase
      /\ task.res = "unrecoverable" => EndCleared(t) /\ phase' = "FAILED"
      /\ task.res = "timeout" => EndPending(t) /\ phase' = "PREPARING"
  BY DEF PreflightEnds
<1>4. StepTyped
  <2>1. phase' \in {phase, "FAILED", "PREPARING"}
    BY <1>2, <1>3
  <2> QED BY <2>1 DEF PreflightEnds, StepTyped, IInv, TypeOK, procVars
<1>5. CASE task.res = "ok"
  <2>1. body \in Tasks /\ body # NoTask /\ body.kind = task.kind /\ body.row = task.row
        /\ body.pc = "body" /\ TaskFits(body)
    BY <1>1, <1>2 DEF Tasks, TaskFits, NoTask
  <2>2. tasks' = [tasks EXCEPT ![t] = body] /\ UNCHANGED phase /\ Goto(t, body)
    BY <1>3, <1>5 DEF Goto
  <2> HIDE DEF body
  <2>3. TypeOK' /\ TasksFit' /\ LoopInv' /\ PendingHasWaker'
    BY <1>1, <1>2, <1>4, <2>1, <2>2, TaskGoes
  <2>4. OneRowAwake' /\ OneVerdict' /\ BeginsAlone'
    BY <1>1, <1>2, <1>5, <2>1, <2>2, AwakeGoesOn DEF IInv
  <2>5. SeesProcess' /\ SeesSignature'
    BY <1>1, <2>1, <2>2, AwakeSees DEF IInv
  <2>6. StartingEnds' /\ ConfiguringEnds'
    BY <1>1, <2>1, <2>2, PhaseLeft DEF IInv
  <2>7. PreparedByOther'
    BY <1>1, <2>1, <2>2, PreparedStays DEF IInv
  <2>8. PreparingEnds'
    <3>1. tasks'[t] # NoTask
      BY <2>1, <2>2, OthersStay DEF IInv
    <3> QED BY <3>1 DEF PreparingEnds
  <2> QED BY <2>3, <2>4, <2>5, <2>6, <2>7, <2>8 DEF IInv, PhaseInv
<1>6. CASE task.res # "ok"
  <2>1. EndTask(t) /\ (EndPending(t) \/ EndCleared(t)) /\ tasks' = [tasks EXCEPT ![t] = NoTask]
    BY <1>2, <1>3, <1>6 DEF EndPending, EndCleared, EndTask
  <2>2. TypeOK' /\ TasksFit' /\ LoopInv' /\ PendingHasWaker'
    BY <1>1, <1>2, <1>4, <2>1, TaskEnds
  <2>3. NoTask \in Tasks /\ NoTask.pc = "idle"
    BY NoPendingIsNone
  <2>4. OneRowAwake' /\ OneVerdict' /\ BeginsAlone'
    BY <1>1, <2>1, <2>3, AwakeGoesOn DEF IInv
  <2>5. SeesProcess' /\ SeesSignature'
    BY <1>1, <2>1, <2>3, AwakeSees DEF IInv
  <2>6. StartingEnds' /\ ConfiguringEnds' /\ PreparingEnds' /\ PreparedByOther'
    <3>1. CASE task.res = "unrecoverable"
      BY <1>3, <3>1, FinalPhase
    <3>2. CASE task.res = "timeout"
      <4>1. EndPending(t) /\ phase' = "PREPARING"
        BY <1>3, <3>2
      <4>2. pending' # NoPending \/ gaveUp'
        BY <1>2, <4>1, PendingEnds DEF IInv
      <4>3. \A u \in Slots: tasks[u].pc = "branding" => FALSE
        BY <1>1, <1>2, <1>6 DEF IInv, PhaseInv, OneVerdict, Awake, Verdict
      <4>4. \A u \in Slots: tasks'[u].pc # "branding"
        BY <2>1, <2>3, <4>3, OthersStay DEF IInv
      <4> QED BY <4>1, <4>2, <4>4 DEF PreparedByOther, PreparingEnds, StartingEnds, ConfiguringEnds
    <3> QED BY <1>2, <1>6, <3>1, <3>2
  <2> QED BY <2>2, <2>4, <2>5, <2>6 DEF IInv, PhaseInv
<1> QED BY <1>5, <1>6

LEMMA CompareKeeps ==
    ASSUME IInv, NEW t \in Slots, up, Compare(t) PROVE IInv'
<1> DEFINE task == tasks[t]
           running == active # NoPid
           changed == lastSignature # task.row
           same == ~changed /\ ~(t = "loop" /\ isFirstSnapshot)
           path == IF same THEN "same"
                   ELSE IF IsActive[task.row] = "off" THEN "off"
                   ELSE IF ShouldStart(task.row) THEN "on" ELSE "idle"
           next == [task EXCEPT !.pc = "branding", !.path = path,
                                !.running = running, !.changed = changed]
<1>1. /\ task.pc = "body" /\ Awake(t) /\ StepUnchanged /\ UNCHANGED lastSignature
      /\ Verdict(task) = "ok"
  BY DEF Compare, Awake, Verdict
<1>2. /\ task # NoTask /\ task \in Tasks /\ TaskFits(task) /\ task.kind = "reconcile"
      /\ task.row \in Rows
  BY <1>1, TaskAtWork
<1>3. \/ EndPending(t) /\ UNCHANGED <<ini, phase, procVars>>
      \/ /\ Goto(t, next)
         /\ \/ path = "same" /\ UNCHANGED <<ini, phase, procVars>>
            \/ path = "off" /\ phase' = "none" /\ UNCHANGED ini /\ (Kill \/ UNCHANGED procVars)
            \/ path \in {"on", "idle"} /\ UNCHANGED procVars /\ WriteConfig(task.row)
  BY Zenon DEF Compare
<1>4. StepTyped
  <2>1. \/ ini' = ini /\ phase' \in {phase, "none", "FAILED"}
        \/ ini' = task.row /\ phase' = "CONFIGURING"
    BY <1>3 DEF WriteConfig
  <2>2. lastSignature' \in Rows \cup {"none"} /\ ini' \in Rows \cup {"none"}
        /\ phase' \in {"none", "PREPARING", "CONFIGURING", "STARTING", "ONLINE", "FAILED"}
    BY <1>1, <1>2, <2>1 DEF IInv, TypeOK
  <2>3. active' \in 0 .. MaxPids /\ procs' \cup children' \cup exits' \subseteq 1 .. MaxPids
    BY <1>3, ProcessTypes DEF IInv, TypeOK, procVars
  <2> QED BY <2>2, <2>3 DEF StepTyped
<1>5. CASE EndPending(t) /\ UNCHANGED <<ini, phase, procVars>>
  <2>1. EndTask(t) /\ tasks' = [tasks EXCEPT ![t] = NoTask] /\ UNCHANGED <<phase, active>>
    BY <1>5 DEF EndPending, EndTask, procVars
  <2>2. TypeOK' /\ TasksFit' /\ LoopInv' /\ PendingHasWaker'
    BY <1>1, <1>2, <1>4, <1>5, <2>1, TaskEnds
  <2>3. NoTask \in Tasks /\ NoTask.pc = "idle"
    BY NoPendingIsNone
  <2>4. OneRowAwake' /\ OneVerdict' /\ BeginsAlone'
    BY <1>1, <2>1, <2>3, AwakeGoesOn DEF IInv
  <2>5. SeesProcess' /\ SeesSignature'
    BY <1>1, <2>1, <2>3, AwakeSees DEF IInv
  <2>6. StartingEnds' /\ ConfiguringEnds'
    BY <1>1, <2>1, <2>3, PhaseLeft DEF IInv
  <2>7. PreparedByOther'
    BY <1>1, <2>1, <2>3, PreparedStays DEF IInv
  <2>8. PreparingEnds'
    BY <1>2, <1>5, PendingEnds DEF IInv, PreparingEnds
  <2> QED BY <2>2, <2>4, <2>5, <2>6, <2>7, <2>8 DEF IInv, PhaseInv
<1>6. CASE /\ Goto(t, next)
           /\ \/ path = "same" /\ UNCHANGED <<ini, phase, procVars>>
              \/ path = "off" /\ phase' = "none" /\ UNCHANGED ini /\ (Kill \/ UNCHANGED procVars)
              \/ path \in {"on", "idle"} /\ UNCHANGED procVars /\ WriteConfig(task.row)
  <2>1. path \in {"same", "off", "on", "idle"}
    OBVIOUS
  <2>2. /\ path = "same" => lastSignature = task.row
        /\ path = "on" => ShouldStart(task.row)
        /\ path \in {"off", "idle"} => ~ShouldStart(task.row)
    BY DEF ShouldStart
  <2> HIDE DEF path, running, changed
  <2>3. running \in BOOLEAN /\ changed \in BOOLEAN /\ (running => active # NoPid)
    BY DEF running, changed
  <2>4. /\ next \in Tasks /\ next # NoTask /\ next.kind = task.kind /\ next.row = task.row
        /\ next.pc = "branding" /\ next.path = path /\ next.running = running
    BY <1>1, <1>2, <2>1, <2>3 DEF Tasks, NoTask
  <2>5. TaskFits(next)
    BY <1>1, <1>2, <2>1, <2>2, <2>4 DEF TaskFits
  <2>6. tasks' = [tasks EXCEPT ![t] = next]
    BY <1>6 DEF Goto
  <2>7. Goto(t, next)
    BY <1>6
  <2>8. \/ path = "same" /\ UNCHANGED <<phase, active>>
        \/ path = "off" /\ phase' = "none"
        \/ path \in {"on", "idle"} /\ UNCHANGED active /\ phase' \in {"CONFIGURING", "FAILED"}
    BY <1>6 DEF WriteConfig, procVars
  <2> HIDE DEF next
  <2>9. TypeOK' /\ TasksFit' /\ LoopInv' /\ PendingHasWaker'
    BY <1>1, <1>2, <1>4, <2>4, <2>5, <2>7, TaskGoes
  <2>10. OneRowAwake' /\ OneVerdict' /\ BeginsAlone'
    BY <1>1, <2>4, <2>6, AwakeGoesOn DEF IInv
  <2>11. SeesProcess' /\ SeesSignature'
    <3>1. active' = active \/ ~ShouldStart(task.row)
      BY <2>2, <2>8
    <3>2. next.running /\ ShouldStart(next.row) => active' # NoPid
      BY <2>3, <2>4, <3>1
    <3>3. next.path = "same" => lastSignature' = next.row
      BY <1>1, <2>2, <2>4
    <3> QED BY <1>1, <2>4, <2>6, <3>1, <3>2, <3>3, AwakeSees DEF IInv
  <2>12. tasks'[t] = next
    BY <2>6, OthersStay DEF IInv
  <2>13. StartingEnds' /\ ConfiguringEnds' /\ PreparingEnds' /\ PreparedByOther'
    <3>1. CASE path = "same" /\ UNCHANGED phase
      <4>1. StartingEnds' /\ ConfiguringEnds'
        BY <1>1, <2>4, <2>6, <3>1, PhaseLeft DEF IInv
      <4>2. PreparedByOther'
        BY <1>1, <2>4, <2>6, <3>1, PreparedStays DEF IInv
      <4>3. PreparingEnds'
        BY <2>4, <2>12 DEF PreparingEnds
      <4> QED BY <4>1, <4>2, <4>3
    <3>2. CASE phase' = "CONFIGURING" /\ path \in {"on", "idle"}
      <4>1. ConfiguringEnds'
        BY <2>4, <2>12, <3>2 DEF ConfiguringEnds
      <4> QED BY <3>2, <4>1 DEF StartingEnds, PreparingEnds, PreparedByOther
    <3>3. CASE phase' \in {"none", "FAILED"}
      BY <3>3, FinalPhase
    <3> QED BY <2>8, <3>1, <3>2, <3>3
  <2> QED BY <2>9, <2>10, <2>11, <2>13 DEF IInv, PhaseInv
<1> QED BY <1>3, <1>5, <1>6

(* A reconcile ends after its branding.                                    *)
LEMMA BrandedEnds ==
    ASSUME IInv, NEW t \in Slots, up, tasks[t].pc = "branding", StepUnchanged, StepTyped,
           EndCleared(t), lastSignature' \in {lastSignature, tasks[t].row},
           active' = active \/ ~ShouldStart(tasks[t].row),
           \/ phase' \in {"none", "ONLINE"}
           \/ /\ phase' = phase
              /\ \/ tasks[t].path = "same" /\ ~ShouldStart(tasks[t].row)
                    /\ UNCHANGED lastSignature
                 \/ tasks[t].path = "off" /\ lastSignature' = tasks[t].row
                 \/ tasks[t].path = "on" /\ ~RESTART_ON_BOOT
                 \/ Respawning
    PROVE  IInv'
<1>1. /\ Awake(t) /\ EndTask(t) /\ tasks' = [tasks EXCEPT ![t] = NoTask]
      /\ NoTask \in Tasks /\ NoTask.pc = "idle"
  BY NoPendingIsNone DEF Awake, EndCleared, EndTask
<1>2. tasks[t] # NoTask /\ tasks[t] \in Tasks /\ TaskFits(tasks[t]) /\ tasks[t].row \in Rows
  BY TaskAtWork
<1>3. TypeOK' /\ TasksFit' /\ LoopInv' /\ PendingHasWaker'
  BY <1>1, <1>2, TaskEnds
<1>4. OneRowAwake' /\ OneVerdict' /\ BeginsAlone'
  BY <1>1, AwakeGoesOn DEF IInv
<1>5. SeesProcess' /\ SeesSignature'
  BY <1>1, AwakeSees DEF IInv
<1>6. StartingEnds' /\ ConfiguringEnds' /\ PreparingEnds' /\ PreparedByOther'
  <2>1. CASE phase' \in {"none", "ONLINE"}
    BY <2>1, FinalPhase
  <2>2. CASE phase' = phase /\ phase' \notin {"none", "ONLINE"}
    <3>1. \/ tasks[t].path = "same" /\ ~ShouldStart(tasks[t].row) /\ UNCHANGED lastSignature
          \/ tasks[t].path = "off" /\ lastSignature' = tasks[t].row
          \/ tasks[t].path = "on" /\ ~RESTART_ON_BOOT
          \/ Respawning
      BY <2>2
    <3>2. StartingEnds' /\ ConfiguringEnds'
      BY <1>1, <2>2, <3>1, PhaseLeft DEF IInv
    <3>3. PreparedByOther'
      BY <1>1, <2>2, PreparedStays DEF IInv
    <3>4. \A u \in Slots: u # t => tasks'[u] = tasks[u]
      BY <1>1, OthersStay DEF IInv
    <3>5. PreparingEnds'
      <4>1. CASE lastSignature' = tasks[t].row /\ ~ShouldStart(tasks[t].row)
        BY <1>2, <4>1 DEF PreparingEnds
      <4>2. CASE tasks[t].path = "on" /\ phase = "PREPARING"
        <5>1. PICK u \in Slots: tasks[u].pc = "gate"
          BY <4>2 DEF IInv, PhaseInv, PreparedByOther
        <5>2. tasks'[u] # NoTask
          BY <3>4, <5>1, NoPendingIsNone
        <5> QED BY <5>2 DEF PreparingEnds
      <4>3. CASE Respawning
        <5>1. PICK u \in Slots: tasks[u].pc = "respawn"
          BY <4>3 DEF Respawning
        <5>2. tasks'[u] # NoTask
          BY <3>4, <5>1, NoPendingIsNone
        <5> QED BY <5>2 DEF PreparingEnds
      <4>4. CASE phase # "PREPARING"
        BY <2>2, <4>4 DEF PreparingEnds
      <4>5. tasks[t].path = "same" => lastSignature = tasks[t].row
        BY DEF IInv, PhaseInv, SeesSignature
      <4>6. tasks[t].path = "off" => ~ShouldStart(tasks[t].row)
        BY <1>2 DEF TaskFits
      <4> QED BY <3>1, <4>1, <4>2, <4>3, <4>4, <4>5, <4>6
    <3> QED BY <3>2, <3>3, <3>5
  <2> QED BY <2>1, <2>2
<1> QED BY <1>3, <1>4, <1>5, <1>6 DEF IInv, PhaseInv

(* A reconcile goes to the gate after its branding.                        *)
LEMMA EnterGateKeeps ==
    ASSUME IInv, NEW t \in Slots, up, tasks[t].pc = "branding", StepUnchanged,
           NEW b \in BOOLEAN, EnterGate(t, [tasks[t] EXCEPT !.changed = b]),
           tasks[t].path \in {"same", "on"}, ShouldStart(tasks[t].row),
           UNCHANGED <<lastSignature, ini, procVars>>
    PROVE  IInv'
<1> DEFINE k == [[tasks[t] EXCEPT !.changed = b] EXCEPT !.pc = "gate", !.res = "wait"]
<1>1. tasks[t] # NoTask /\ tasks[t] \in Tasks /\ TaskFits(tasks[t]) /\ tasks[t].row \in Rows
      /\ tasks[t].kind = "reconcile"
  BY TaskAtWork
<1>2. /\ k \in Tasks /\ k # NoTask /\ k.kind = tasks[t].kind /\ k.row = tasks[t].row
      /\ k.pc = "gate" /\ k.res = "wait" /\ k.path = tasks[t].path
  BY <1>1 DEF Tasks, NoTask
<1>3. TaskFits(k)
  BY <1>1, <1>2 DEF TaskFits
<1>4. Goto(t, k) /\ tasks' = [tasks EXCEPT ![t] = k] /\ phase' \in {phase, "PREPARING"}
      /\ Awake(t) /\ UNCHANGED active
  BY DEF EnterGate, Goto, Awake, procVars
<1> HIDE DEF k
<1>5. StepTyped
  BY <1>4 DEF StepTyped, IInv, TypeOK, procVars
<1>6. TypeOK' /\ TasksFit' /\ LoopInv' /\ PendingHasWaker'
  BY <1>1, <1>2, <1>3, <1>4, <1>5, TaskGoes
<1>7. OneRowAwake' /\ OneVerdict' /\ BeginsAlone'
  BY <1>2, <1>4, AwakeGoesOn DEF IInv
<1>8. SeesProcess' /\ SeesSignature'
  BY <1>2, <1>4, AwakeSees DEF IInv
<1>9. tasks'[t] = k
  BY <1>4, OthersStay DEF IInv
<1>10. PreparingEnds' /\ PreparedByOther'
  BY <1>2, <1>9 DEF PreparingEnds, PreparedByOther
<1>11. StartingEnds' /\ ConfiguringEnds'
  <2>1. CASE phase' = "PREPARING"
    BY <2>1 DEF StartingEnds, ConfiguringEnds
  <2>2. CASE UNCHANGED phase
    BY <1>2, <1>4, <2>2, PhaseLeft DEF IInv
  <2> QED BY <1>4, <2>1, <2>2
<1> QED BY <1>6, <1>7, <1>8, <1>10, <1>11 DEF IInv, PhaseInv

LEMMA BrandedKeeps ==
    ASSUME IInv, NEW t \in Slots, up, Branded(t) PROVE IInv'
<1> DEFINE task == tasks[t]
           skip == t = "loop" /\ isFirstSnapshot /\ ~RESTART_ON_BOOT
           start == [task EXCEPT !.changed = FALSE]
<1>1. task.pc = "branding" /\ StepUnchanged /\ UNCHANGED ini
  BY DEF Branded
<1>2. /\ task # NoTask /\ task \in Tasks /\ TaskFits(task) /\ task.kind = "reconcile"
      /\ task.row \in Rows /\ task.running \in BOOLEAN /\ task.changed \in BOOLEAN
      /\ task.path = "on" => ShouldStart(task.row)
      /\ task.path \in {"off", "idle"} => ~ShouldStart(task.row)
  BY <1>1, TaskAtWork DEF Tasks, TaskFits
<1>3. task.running /\ ShouldStart(task.row) /\ active = NoPid => Respawning
  BY <1>1 DEF IInv, PhaseInv, SeesProcess
<1>4. task = [task EXCEPT !.changed = task.changed]
  BY <1>2 DEF Tasks
<1>5. CASE task.path = "same"
  <2>1. UNCHANGED <<lastSignature, procVars>> /\ active' = active
    BY <1>5 DEF Branded, procVars
  <2>2. CASE ~task.running /\ ShouldStart(task.row)
    <3>1. EnterGate(t, start)
      BY <1>5, <2>2 DEF Branded
    <3> QED BY <1>1, <1>2, <1>5, <2>1, <2>2, <3>1, EnterGateKeeps
  <2>3. CASE ~(~task.running /\ ShouldStart(task.row))
    <3>1. EndCleared(t) /\ \/ task.running /\ ShouldStart(task.row) /\ MarkOnlineIfRunning
                           \/ ~ShouldStart(task.row) /\ UNCHANGED phase
      BY <1>2, <1>5, <2>3 DEF Branded
    <3>2. \/ phase' = "ONLINE"
          \/ phase' = phase /\ (~ShouldStart(task.row) \/ Respawning)
      BY <1>3, <3>1 DEF MarkOnlineIfRunning
    <3>3. StepTyped
      BY <1>1, <2>1, <3>2 DEF StepTyped, IInv, TypeOK, procVars
    <3> QED BY <1>1, <1>5, <2>1, <3>1, <3>2, <3>3, BrandedEnds
  <2> QED BY <2>2, <2>3
<1>6. CASE task.path = "off"
  <2>1. Applied(t) /\ UNCHANGED <<phase, procVars>>
    BY <1>6 DEF Branded
  <2>2. EndCleared(t) /\ lastSignature' = task.row /\ active' = active /\ phase' = phase
    BY <2>1 DEF Applied, procVars
  <2>3. StepTyped
    BY <1>1, <1>2, <2>1, <2>2 DEF StepTyped, IInv, TypeOK, procVars
  <2> QED BY <1>1, <1>6, <2>2, <2>3, BrandedEnds
<1>7. CASE task.path = "idle"
  <2>1. Applied(t) /\ phase' = "none" /\ (Kill \/ UNCHANGED procVars)
    BY <1>7 DEF Branded
  <2>2. EndCleared(t) /\ lastSignature' = task.row
    BY <2>1 DEF Applied
  <2>3. active' \in 0 .. MaxPids /\ procs' \cup children' \cup exits' \subseteq 1 .. MaxPids
    BY <2>1, ProcessTypes DEF IInv, TypeOK, procVars
  <2>4. StepTyped
    BY <1>1, <1>2, <2>1, <2>2, <2>3 DEF StepTyped, IInv, TypeOK
  <2> QED BY <1>1, <1>2, <1>7, <2>1, <2>2, <2>4, BrandedEnds
<1>8. CASE task.path = "on"
  <2>1. UNCHANGED procVars /\ active' = active
    BY <1>8 DEF Branded, procVars
  <2>2. CASE task.running /\ task.changed
    <3>1. EnterGate(t, task) /\ UNCHANGED lastSignature
      BY <1>8, <2>2 DEF Branded
    <3> QED BY <1>1, <1>2, <1>4, <1>8, <2>1, <3>1, EnterGateKeeps
  <2>3. CASE ~task.running /\ ~skip
    <3>1. EnterGate(t, start) /\ UNCHANGED lastSignature
      BY <1>8, <2>3 DEF Branded
    <3> QED BY <1>1, <1>2, <1>8, <2>1, <3>1, EnterGateKeeps
  <2>4. CASE ~task.running /\ skip
    <3>1. Applied(t) /\ UNCHANGED phase /\ ~RESTART_ON_BOOT
      BY <1>8, <2>4 DEF Branded
    <3>2. EndCleared(t) /\ lastSignature' = task.row /\ phase' = phase
      BY <3>1 DEF Applied
    <3>3. StepTyped
      BY <1>1, <1>2, <2>1, <3>2 DEF StepTyped, IInv, TypeOK, procVars
    <3> QED BY <1>1, <1>8, <2>1, <3>1, <3>2, <3>3, BrandedEnds
  <2>5. CASE task.running /\ ~task.changed
    <3>1. Applied(t) /\ MarkOnlineIfRunning
      BY <1>8, <2>5 DEF Branded
    <3>2. EndCleared(t) /\ lastSignature' = task.row
          /\ (phase' = "ONLINE" \/ (phase' = phase /\ Respawning))
      BY <1>2, <1>3, <1>8, <2>5, <3>1 DEF Applied, MarkOnlineIfRunning
    <3>3. StepTyped
      BY <1>1, <1>2, <2>1, <3>2 DEF StepTyped, IInv, TypeOK, procVars
    <3> QED BY <1>1, <1>8, <2>1, <3>2, <3>3, BrandedEnds
  <2> QED BY <1>2, <2>2, <2>3, <2>4, <2>5
<1> QED BY <1>5, <1>6, <1>7, <1>8 DEF Branded

(* A start comes to its end: it spawned a process, or failed.              *)
LEMMA SpawnTypes ==
    ASSUME TypeOK, Spawn
    PROVE  /\ active' \in 0 .. MaxPids /\ procs' \cup children' \cup exits' \subseteq 1 .. MaxPids
           /\ phase' \in {"ONLINE", "FAILED"} /\ (active' = active \/ active' # NoPid)
<1> DEFINE free == (1 .. MaxPids) \ (procs \cup exits)
<1>1. CASE phase' = "FAILED" /\ UNCHANGED procVars
  BY <1>1 DEF TypeOK, procVars
<1>2. CASE /\ active = NoPid /\ free # {} /\ active' = Min(free)
           /\ procs' = procs \cup {Min(free)} /\ children' = children \cup {Min(free)}
           /\ phase' = "ONLINE" /\ UNCHANGED exits
  <2>1. free \subseteq 1 .. MaxPids /\ free \subseteq Nat
    BY ApplierAssumption
  <2> HIDE DEF free
  <2>2. Min(free) \in 1 .. MaxPids
    BY <1>2, <2>1, MinIn
  <2> QED BY <1>2, <2>2, ApplierAssumption DEF TypeOK, NoPid
<1> QED BY <1>1, <1>2 DEF Spawn

LEMMA StartedEnds ==
    ASSUME IInv, NEW t \in Slots, tasks[t].pc \in {"gate", "respawn"}, Started(t)
    PROVE  /\ EndTask(t) /\ lastSignature' \in {lastSignature, tasks[t].row}
           /\ lastSignature' \in Rows \cup {"none"}
           /\ \/ EndCleared(t) /\ tasks[t].row \in Rows
              \/ tasks[t].kind = "http" /\ UNCHANGED <<pending, gaveUp>>
<1>1. /\ tasks[t] # NoTask /\ TaskFits(tasks[t])
      /\ tasks[t].kind = "http" \/ (tasks[t].kind = "reconcile" /\ tasks[t].row \in Rows)
  BY TaskAtWork
<1>2. lastSignature \in Rows \cup {"none"}
  BY DEF IInv, TypeOK
<1>3. CASE tasks[t].kind = "http"
  <2>1. tasks[t].path = "none"
    BY <1>1, <1>3 DEF TaskFits
  <2> QED BY <1>2, <1>3, <2>1 DEF Started
<1>4. CASE tasks[t].kind = "reconcile" /\ tasks[t].row \in Rows
  <2>1. tasks[t].path \in {"same", "on"}
    BY <1>1, <1>4 DEF TaskFits
  <2>2. CASE tasks[t].path = "same"
    BY <1>2, <1>4, <2>2 DEF Started, EndCleared
  <2>3. CASE tasks[t].path = "on"
    BY <1>4, <2>3 DEF Started, Applied, EndCleared
  <2> QED BY <2>1, <2>2, <2>3
<1> QED BY <1>1, <1>3, <1>4

LEMMA GatePassedKeeps ==
    ASSUME IInv, NEW t \in Slots, up, GatePassed(t) PROVE IInv'
<1> DEFINE task == tasks[t]
           respawn == [task EXCEPT !.pc = "respawn"]
<1>1. /\ task.pc = "gate" /\ task.res # "wait" /\ Awake(t) /\ StepUnchanged /\ UNCHANGED ini
  BY DEF GatePassed, Awake
<1>2. /\ task # NoTask /\ task \in Tasks /\ TaskFits(task)
      /\ task.kind = "http" \/ (task.kind = "reconcile" /\ task.row \in Rows)
  BY <1>1, TaskAtWork
<1>3. NoTask \in Tasks /\ NoTask.pc = "idle"
  BY NoPendingIsNone
<1>4. ASSUME StepTyped, EndTask(t), phase' \in {"ONLINE", "FAILED"},
             lastSignature' \in {lastSignature, task.row},
             active' = active \/ active' # NoPid,
             \/ (EndPending(t) \/ EndCleared(t)) /\ task.row \in Rows
             \/ task.kind = "http" /\ UNCHANGED <<pending, gaveUp>>
      PROVE  IInv'
  <2>1. TypeOK' /\ TasksFit' /\ LoopInv' /\ PendingHasWaker'
    BY <1>1, <1>2, <1>4, TaskEnds
  <2>2. tasks' = [tasks EXCEPT ![t] = NoTask]
    BY <1>4 DEF EndTask
  <2>3. OneRowAwake' /\ OneVerdict' /\ BeginsAlone'
    BY <1>1, <1>3, <2>2, AwakeGoesOn DEF IInv
  <2>4. SeesProcess' /\ SeesSignature'
    BY <1>1, <1>3, <1>4, <2>2, AwakeSees DEF IInv
  <2>5. StartingEnds' /\ ConfiguringEnds' /\ PreparingEnds' /\ PreparedByOther'
    BY <1>4, FinalPhase
  <2> QED BY <2>1, <2>3, <2>4, <2>5 DEF IInv, PhaseInv
<1>5. CASE Spawn /\ Started(t)
  <2>1. /\ active' \in 0 .. MaxPids /\ procs' \cup children' \cup exits' \subseteq 1 .. MaxPids
        /\ phase' \in {"ONLINE", "FAILED"} /\ (active' = active \/ active' # NoPid)
    BY <1>5, SpawnTypes DEF IInv
  <2>2. /\ EndTask(t) /\ lastSignature' \in {lastSignature, task.row}
        /\ lastSignature' \in Rows \cup {"none"}
        /\ \/ EndCleared(t) /\ tasks[t].row \in Rows
           \/ tasks[t].kind = "http" /\ UNCHANGED <<pending, gaveUp>>
    BY <1>1, <1>5, StartedEnds
  <2>3. StepTyped
    BY <1>1, <2>1, <2>2 DEF StepTyped, IInv, TypeOK
  <2> QED BY <1>4, <2>1, <2>2, <2>3
<1>6. CASE /\ phase' = "STARTING" /\ Goto(t, respawn) /\ (Kill \/ UNCHANGED procVars)
           /\ UNCHANGED lastSignature
  <2>1. respawn \in Tasks /\ respawn # NoTask /\ respawn.kind = task.kind
        /\ respawn.pc = "respawn" /\ TaskFits(respawn)
    BY <1>1, <1>2 DEF Tasks, TaskFits, NoTask
  <2>2. tasks' = [tasks EXCEPT ![t] = respawn] /\ Goto(t, respawn)
    BY <1>6 DEF Goto
  <2>3. active' \in 0 .. MaxPids /\ procs' \cup children' \cup exits' \subseteq 1 .. MaxPids
    BY <1>6, ProcessTypes DEF IInv, TypeOK, procVars
  <2>4. StepTyped
    BY <1>1, <1>6, <2>3 DEF StepTyped, IInv, TypeOK
  <2> HIDE DEF respawn
  <2>5. TypeOK' /\ TasksFit' /\ LoopInv' /\ PendingHasWaker'
    BY <1>1, <1>2, <2>1, <2>2, <2>4, TaskGoes
  <2>6. OneRowAwake' /\ OneVerdict' /\ BeginsAlone'
    BY <1>1, <2>1, <2>2, AwakeGoesOn DEF IInv
  <2>7. SeesProcess' /\ SeesSignature'
    BY <1>1, <1>6, <2>1, <2>2, AwakeSees DEF IInv
  <2>8. tasks'[t].pc = "respawn"
    BY <2>1, <2>2, OthersStay DEF IInv
  <2>9. StartingEnds' /\ ConfiguringEnds' /\ PreparingEnds' /\ PreparedByOther'
    BY <1>6, <2>8 DEF StartingEnds, Respawning, ConfiguringEnds, PreparingEnds, PreparedByOther
  <2> QED BY <2>5, <2>6, <2>7, <2>9 DEF IInv, PhaseInv
<1>7. CASE /\ phase' = "FAILED" /\ UNCHANGED <<procVars, lastSignature>>
           /\ \/ task.kind = "http" /\ EndTask(t) /\ UNCHANGED <<pending, gaveUp>>
              \/ task.kind # "http" /\ EndPending(t)
  <2>1. EndTask(t) /\ active' = active
    BY <1>7 DEF EndPending, procVars
  <2>2. StepTyped
    BY <1>1, <1>7 DEF StepTyped, IInv, TypeOK, procVars
  <2> QED BY <1>2, <1>4, <1>7, <2>1, <2>2
<1> QED BY <1>5, <1>6, <1>7 DEF GatePassed

LEMMA RespawnKeeps ==
    ASSUME IInv, NEW t \in Slots, up, Respawn(t) PROVE IInv'
<1>1. /\ tasks[t].pc = "respawn" /\ (\A u \in Slots: ~Awake(u)) /\ Spawn /\ Started(t)
      /\ StepUnchanged /\ UNCHANGED ini
  BY DEF Respawn, Quiet
<1>2. /\ active' \in 0 .. MaxPids /\ procs' \cup children' \cup exits' \subseteq 1 .. MaxPids
      /\ phase' \in {"ONLINE", "FAILED"}
  BY <1>1, SpawnTypes DEF IInv
<1>3. /\ EndTask(t) /\ lastSignature' \in Rows \cup {"none"}
      /\ \/ EndCleared(t) /\ tasks[t].row \in Rows
         \/ tasks[t].kind = "http" /\ UNCHANGED <<pending, gaveUp>>
  BY <1>1, StartedEnds
<1>4. StepTyped
  BY <1>1, <1>2, <1>3 DEF StepTyped, IInv, TypeOK
<1>5. tasks[t] # NoTask /\ NoTask.pc = "idle"
  BY <1>1, NoPendingIsNone
<1>6. TypeOK' /\ TasksFit' /\ LoopInv' /\ PendingHasWaker'
  BY <1>1, <1>3, <1>4, <1>5, TaskEnds
<1>7. \A u \in Slots: ~Awake(u)' /\ tasks'[u].pc # "branding"
  <2>1. \A u \in Slots: tasks'[u] = NoTask \/ tasks'[u] = tasks[u]
    BY <1>3 DEF EndTask, IInv, TypeOK
  <2> QED BY <1>1, <1>5, <2>1 DEF Awake
<1>8. PhaseInv'
  BY <1>2, <1>7, FinalPhase DEF PhaseInv, OneRowAwake, OneVerdict, BeginsAlone, SeesProcess,
                                SeesSignature
<1> QED BY <1>6, <1>8 DEF IInv
-----------------------------------------------------------------------------
LEMMA InitHolds == ASSUME Init PROVE IInv
<1>1. NoTask \in Tasks /\ TaskFits(NoTask) /\ NoTask.pc = "idle" /\ NoTask.kind = "none"
  BY NoPendingIsNone
<1>2. tasks = [s \in Slots |-> NoTask] /\ (\A t \in Slots: tasks[t] = NoTask) /\ "loop" \in Slots
  BY DEF Init, Slots
<1>3. stream \in Seq(Rows \cup {"foreign", "broken"}) /\ Len(stream) = 0
  BY DEF Init
<1>4. TypeOK
  BY <1>1, <1>2, <1>3, ApplierAssumption DEF Init, TypeOK, NoPid
<1>5. TasksFit
  BY <1>1, <1>2 DEF TasksFit
<1>6. LoopInv /\ PendingHasWaker
  BY <1>2 DEF Init, LoopInv, AckedWereHandled, PendingHasWaker
<1>7. \A t \in Slots: ~Awake(t) /\ tasks[t].pc # "branding"
  BY <1>1, <1>2 DEF Awake
<1>8. PhaseInv
  BY <1>7 DEF Init, PhaseInv, OneRowAwake, OneVerdict, BeginsAlone, SeesProcess, SeesSignature,
              ConfiguringEnds, StartingEnds, PreparingEnds, PreparedByOther
<1> QED BY <1>4, <1>5, <1>6, <1>8 DEF IInv

LEMMA StepKeeps == ASSUME IInv, [Next]_vars PROVE IInv'
<1>1. CASE UNCHANGED vars
  <2>1. /\ UNCHANGED <<redisVars, loopVars, up, tasks, pending, gaveUp, lastSignature, ini, phase,
                       content, procVars, events>>
    BY <1>1 DEF vars
  <2>2. TypeOK'
    BY <2>1 DEF IInv, TypeOK, redisVars, loopVars, procVars
  <2>3. LoopInv'
    BY <2>1 DEF IInv, LoopInv, Entry, AckedWereHandled, redisVars, loopVars
  <2>4. PhaseInv' /\ TasksFit' /\ PendingHasWaker'
    BY <2>1, PhaseKept DEF IInv, procVars
  <2> QED BY <2>2, <2>3, <2>4 DEF IInv
<1>2. CASE Publish \/ Loop \/ AckPathFails
  <2>1. CASE HandleSnapshot
    BY <2>1, HandleSnapshotKeeps
  <2>2. CASE ~HandleSnapshot
    BY <1>2, <2>2, DeliverKeeps, OutcomeKeeps DEF Loop
  <2> QED BY <2>1, <2>2
<1>3. ASSUME NEW t \in Slots, TaskStep(t) PROVE IInv'
  BY <1>3, PreflightKeeps, PreflightEndsKeeps, CompareKeeps, BrandedKeeps, GatePassedKeeps,
     RespawnKeeps DEF TaskStep
<1>4. ASSUME NEW key \in Rows \cup {"none"}, GateEnds(key) PROVE IInv'
  BY <1>4, GateEndsKeeps
<1>5. CASE RetryFires \/ HttpStart \/ \E r \in Rows: InstallEnds(r)
  BY <1>5, StartKeeps
<1>6. CASE \/ GatePolls \/ HttpStop \/ IdleShutdown
           \/ \E r \in Rows: InstallBegins(r)
           \/ \E p \in 1 .. MaxPids: ProcessDies(p) \/ ExitHandler(p)
  BY <1>6, SurroundingsKeep
<1>7. CASE Crash \/ Boot
  BY <1>7, RestartKeeps
<1> QED BY <1>1, <1>2, <1>3, <1>4, <1>5, <1>6, <1>7 DEF Next

LEMMA SettlesFromInv == ASSUME IInv PROVE PhaseSettles
<1> SUFFICES ASSUME \A t \in Slots: tasks[t] = NoTask, pending = NoPending
             PROVE  \/ phase \in {"none", "ONLINE", "FAILED"}
                    \/ /\ phase = "PREPARING"
                       /\ gaveUp \/ lastSignature \in {r \in Rows: ~ShouldStart(r)}
                    \/ phase = "CONFIGURING" /\ ~RESTART_ON_BOOT
  BY DEF PhaseSettles
<1>1. \A t \in Slots: tasks[t].pc = "idle"
  BY NoPendingIsNone
<1>2. phase # "STARTING"
  BY <1>1 DEF IInv, PhaseInv, StartingEnds, Respawning
<1>3. phase = "CONFIGURING" => ~RESTART_ON_BOOT
  BY <1>1 DEF IInv, PhaseInv, ConfiguringEnds
<1>4. phase = "PREPARING" => gaveUp \/ lastSignature \in {r \in Rows: ~ShouldStart(r)}
  BY DEF IInv, PhaseInv, PreparingEnds
<1> QED BY <1>2, <1>3, <1>4 DEF IInv, TypeOK

LEMMA Invariance == Spec => []IInv
<1>1. Init => IInv
  BY InitHolds
<1>2. IInv /\ [Next]_vars => IInv'
  BY StepKeeps
<1> QED BY <1>1, <1>2, PTL DEF Spec

(* Every variable of the applier keeps its type.                           *)
THEOREM ApplierTypes == Spec => []TypeOK
<1>1. IInv => TypeOK
  BY DEF IInv
<1> QED BY <1>1, Invariance, PTL

(* A snapshot is acknowledged (configApplierAck.ts) only when its handler  *)
(* came to its end, or as a dead letter, or claimed as one and then cut    *)
(* off by a failure: however deliveries, failures and restarts interleave. *)
THEOREM AcknowledgedWereHandled == Spec => []AckedWereHandled
<1>1. IInv => AckedWereHandled
  BY DEF IInv, LoopInv
<1> QED BY <1>1, Invariance, PTL

(* A row of pendingReconcileByServer is never left without its timer while *)
(* no reconcile is at work that would clear or reschedule it.              *)
THEOREM PendingIsWoken == Spec => []PendingHasWaker
<1>1. IInv => PendingHasWaker
  BY DEF IInv
<1> QED BY <1>1, Invariance, PTL

(* Once no reconcile or start is at work and no row waits, the phase shown *)
(* to the host is a final one, but for the exceptions PhaseSettles names.  *)
THEOREM PhaseIsFinal == Spec => []PhaseSettles
<1>1. IInv => PhaseSettles
  BY SettlesFromInv
<1> QED BY <1>1, Invariance, PTL
(* A step leaves the process alone, kills it, starts one where none is     *)
(* listed, loses it, handles an exit, or restarts the edge.                *)
LEMMA ProcessSteps ==
    ASSUME [Next]_vars
    PROVE  \/ UNCHANGED procVars
           \/ Kill
           \/ active' \in procs' /\ exits' = exits
           \/ \E p \in procs : /\ exits' = IF p \in children THEN exits \cup {p} ELSE exits
                             /\ procs' = procs \ {p} /\ UNCHANGED <<active, children>>
           \/ active' = NoPid /\ children' = children
           \/ children' = {}
           \/ children' = children /\ active' \in {NoPid} \cup procs /\ procs' = procs
<1>1. CASE UNCHANGED vars
  BY <1>1 DEF vars
<1>2. CASE Publish \/ Loop \/ AckPathFails
  BY <1>2 DEF Publish, Loop, ReadGroup, ReclaimPending, Deliver, HandleSnapshot, AckApplied,
              CountFailure, WriteDeadLetter, AckPathFails, AckUnchanged
<1>3. ASSUME NEW t \in Slots, TaskStep(t)
      PROVE  \/ UNCHANGED procVars
             \/ Kill
             \/ active' \in procs' /\ exits' = exits
  BY <1>3 DEF TaskStep, Preflight, PreflightEnds, Compare, Branded, GatePassed, Respawn, Spawn
<1>4. CASE \/ GatePolls \/ RetryFires \/ HttpStart
           \/ \E key \in Rows \cup {"none"}: GateEnds(key)
           \/ \E r \in Rows: InstallBegins(r) \/ InstallEnds(r)
  BY <1>4 DEF GatePolls, RetryFires, HttpStart, GateEnds, InstallBegins, InstallEnds,
              GateUnchanged
<1>5. CASE HttpStop \/ IdleShutdown
  BY <1>5 DEF HttpStop, IdleShutdown
<1>6. CASE \E p \in 1 .. MaxPids: ProcessDies(p) \/ ExitHandler(p)
  BY <1>6 DEF ProcessDies, ExitHandler
<1>7. CASE Crash \/ Boot
  BY <1>7 DEF Crash, Boot
<1> QED BY <1>1, <1>2, <1>3, <1>4, <1>5, <1>6, <1>7 DEF Next

(* A process of the edge's own that died is not listed as running without   *)
(* its exit event on the way, which clears the entry (serverRuntime.ts).   *)
THEOREM DeadChildIsNoticed == Spec => []DeathIsNoticed
<1>1. Init => DeathIsNoticed
  BY DEF Init, DeathIsNoticed
<1>2. IInv /\ DeathIsNoticed /\ [Next]_vars => DeathIsNoticed'
  <2> SUFFICES ASSUME IInv, DeathIsNoticed, [Next]_vars
               PROVE  DeathIsNoticed'
    OBVIOUS
  <2>1. NoPid \notin children /\ NoPid \notin children \cup procs
    BY ApplierAssumption DEF IInv, TypeOK, NoPid
  <2> QED BY <2>1, ProcessSteps DEF DeathIsNoticed, Kill, procVars
<1> QED BY <1>1, <1>2, Invariance, PTL DEF Spec
=============================================================================
