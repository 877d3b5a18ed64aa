----------------------------- MODULE TaskProofs -----------------------------
(***************************************************************************)
(* Proofs about tasks, for every set of threads, every choice of           *)
(* operations and every bound.                                             *)
(***************************************************************************)
EXTENDS Task, SequenceTheorems, TLAPS

Executing == {"sleep", "enter", "lock", "body", "joinable", "join", "leave"}

Cancelling == {"store", "still_joinable", "detach"}

PastLock == {"body", "joinable", "join", "leave"}

TaskObject ==
  [id : Nat, state : {"CREATED", "RUNNING", "SUSPENDED", "CANCELLED"},
   execu : Managed \cup {"function", NULL}, by : Operations, runs : Nat, moved : BOOLEAN]

Frame == [obj : Nat \ {0}, pc : Executing \cup Cancelling, locked : BOOLEAN]

\* The type of frames: every frame works on an object that exists.
FramesTyped ==
  /\ frames \in [Threads -> Seq(Frame)]
  /\ \A t \in Threads : \A k \in 1 .. Len(frames[t]) : frames[t][k].obj <= Len(tasks)

\* The type of the other variables.
PlainTyped ==
  /\ serial \in BOOLEAN
  /\ mutex \in Threads \cup {NULL}
  /\ next_id \in Nat
  /\ tasks \in Seq(TaskObject)
  /\ handle \in [Managed -> {"joinable", "joined", "detached"}]
  /\ alive \subseteq Threads
  /\ fault \in {NULL, "join", "null_thread", "detach"}

TypeOK == PlainTyped /\ FramesTyped

\* Only the innermost call of a thread is elsewhere than in its function, and only
\* a call past the lock holds it.
StackShape ==
  \A t \in Threads : \A k \in 1 .. Len(frames[t]) :
    /\ k < Len(frames[t]) => frames[t][k].pc = "body"
    /\ frames[t][k].locked => frames[t][k].pc \in PastLock

\* A call of execute has its object for itself.
SoleCall ==
  \A t, u \in Threads :
    \A k \in 1 .. Len(frames[t]), j \in 1 .. Len(frames[u]) :
      frames[t][k].pc \in Executing /\ frames[u][j].obj = frames[t][k].obj
      => u = t /\ j = k

\* The thread has ended, or nobody waits for it.
Over(m) == m \notin alive \/ handle[m] = "detached"

\* What is known of the task o at the point at of the call that executes it.
Progress(o, at) ==
  \/ /\ o.execu = "function"
     /\ o.by \in {"spawn", "delay"}
     /\ at \in {"enter", "lock", "body", "leave"}
     /\ o.runs = IF at = "leave" THEN 1 ELSE 0
  \/ /\ o.execu \in Managed
     /\ o.by \in {"spawn_thread", "delay_thread"}
     /\ at # "body"
     /\ at = "leave" => Over(o.execu)

\* A task is executed from its first state on: nobody has cancelled it.
CallOK(f) ==
  f.pc \in Executing =>
    /\ tasks[f.obj].state # "CANCELLED"
    /\ Progress(tasks[f.obj], f.pc)

CallProgress == \A t \in Threads : \A k \in 1 .. Len(frames[t]) : CallOK(frames[t][k])

\* A thread is joined once it has ended.
JoinedEnded == \A m \in Managed : handle[m] = "joined" => m \notin alive

\* The constructor has not yet given out the ids to come.
IdsGiven == \A x \in Objects : ~tasks[x].moved => tasks[x].id < next_id

FramesOK == FramesTyped /\ StackShape /\ SoleCall

FramesInv == TypeOK /\ StackShape /\ SoleCall

\* What RunsOnce and WaitsForThread say of a task that was returned.
Settled(o) ==
  /\ o.execu = "function" /\ ~o.moved =>
       o.runs = IF o.by \in {"spawn", "delay"} THEN 1 ELSE 0
  /\ o.by \in {"spawn_thread", "delay_thread"} /\ o.execu \in Managed => Over(o.execu)

ReturnedSettled == \A x \in Objects : Returned(x) => Settled(tasks[x])

ProgressInv == CallProgress /\ JoinedEnded /\ ReturnedSettled

-----------------------------------------------------------------------------
(* What pushing, popping and moving on do to the frames.                   *)

\* The innermost frame of a thread.
LEMMA TopType ==
  ASSUME TypeOK, NEW t \in Threads, frames[t] # <<>>
  PROVE  /\ frames[t] \in Seq(Frame)
         /\ Len(frames[t]) \in Nat \ {0}
         /\ Top(t) = frames[t][Len(frames[t])]
         /\ Top(t) \in Frame
         /\ Top(t).obj \in Objects
<1>1. frames[t] \in Seq(Frame) /\ Len(frames[t]) \in Nat \ {0}
  BY EmptySeq DEF TypeOK, PlainTyped, FramesTyped
<1>2. Top(t) = frames[t][Len(frames[t])]
  BY DEF Top, Last
<1>3. Top(t) \in Frame /\ Top(t).obj <= Len(tasks)
  BY <1>1, <1>2 DEF TypeOK, PlainTyped, FramesTyped
<1>4. Len(tasks) \in Nat
  BY LenProperties DEF TypeOK, PlainTyped, FramesTyped
<1>5. Top(t).obj \in Objects
  BY <1>3, <1>4 DEF Objects, Frame
<1>6. QED BY <1>1, <1>2, <1>3, <1>5

\* Every frame has an object.
LEMMA TaskOfFrame ==
  ASSUME TypeOK
  PROVE  \A t \in Threads : \A k \in 1 .. Len(frames[t]) :
           /\ frames[t][k] \in Frame
           /\ frames[t][k].obj \in Nat \ {0}
           /\ frames[t][k].obj <= Len(tasks)
           /\ frames[t][k].obj \in Objects
<1>1. SUFFICES ASSUME NEW t \in Threads, NEW k \in 1 .. Len(frames[t])
               PROVE  /\ frames[t][k] \in Frame
                      /\ frames[t][k].obj \in Nat \ {0}
                      /\ frames[t][k].obj <= Len(tasks)
                      /\ frames[t][k].obj \in Objects
  OBVIOUS
<1>2. frames[t][k] \in Frame /\ frames[t][k].obj <= Len(tasks)
  BY DEF TypeOK, PlainTyped, FramesTyped
<1>3. frames[t][k].obj \in Nat \ {0}
  BY <1>2 DEF Frame
<1>4. Len(tasks) \in Nat
  BY LenProperties DEF TypeOK, PlainTyped
<1>5. QED BY <1>2, <1>3, <1>4 DEF Objects

\* A call moves on, or takes the lock: its frame is replaced.
LEMMA ReplaceEffect ==
  ASSUME NEW F \in [Threads -> Seq(Frame)], NEW t \in Threads, F[t] # <<>>,
         NEW f \in Frame,
         NEW G, G = [F EXCEPT ![t] = [@ EXCEPT ![Len(F[t])] = f]]
  PROVE  /\ G \in [Threads -> Seq(Frame)]
         /\ \A u \in Threads : Len(G[u]) = Len(F[u])
         /\ \A u \in Threads : \A k \in 1 .. Len(F[u]) :
              G[u][k] = IF u = t /\ k = Len(F[t]) THEN f ELSE F[u][k]
<1>1. F[t] \in Seq(Frame) /\ Len(F[t]) \in 1 .. Len(F[t])
  BY EmptySeq
<1>2. PICK s : s = [F[t] EXCEPT ![Len(F[t])] = f]
  OBVIOUS
<1>3. /\ s \in Seq(Frame)
      /\ Len(s) = Len(F[t])
      /\ \A k \in 1 .. Len(F[t]) : s[k] = IF k = Len(F[t]) THEN f ELSE F[t][k]
  BY <1>1, <1>2, ExceptSeq
<1>4. G = [F EXCEPT ![t] = s]
  BY <1>2
<1>5. QED BY <1>3, <1>4

\* A call moves on.
LEMMA GotoEffect ==
  ASSUME TypeOK, NEW t \in Threads, frames[t] # <<>>,
         NEW p \in Executing \cup Cancelling, Goto(t, p)
  PROVE  /\ frames' \in [Threads -> Seq(Frame)]
         /\ \A u \in Threads : Len(frames'[u]) = Len(frames[u])
         /\ \A u \in Threads : \A k \in 1 .. Len(frames[u]) :
              /\ frames'[u][k].obj = frames[u][k].obj
              /\ frames'[u][k].locked = frames[u][k].locked
              /\ frames'[u][k].pc = IF u = t /\ k = Len(frames[t]) THEN p ELSE frames[u][k].pc
<1>1. /\ Top(t) \in Frame
      /\ Top(t) = frames[t][Len(frames[t])]
  BY TopType
<1> DEFINE f == [Top(t) EXCEPT !.pc = p]
<1>2. f \in Frame /\ f.obj = Top(t).obj /\ f.locked = Top(t).locked /\ f.pc = p
  BY <1>1 DEF Frame
<1>3. frames' = [frames EXCEPT ![t] = [@ EXCEPT ![Len(frames[t])] = f]]
  BY <1>1, <1>2 DEF Goto
<1>4. /\ frames' \in [Threads -> Seq(Frame)]
      /\ \A u \in Threads : Len(frames'[u]) = Len(frames[u])
      /\ \A u \in Threads : \A k \in 1 .. Len(frames[u]) :
           frames'[u][k] = IF u = t /\ k = Len(frames[t]) THEN f ELSE frames[u][k]
  <2> HIDE DEF f
  <2>1. frames \in [Threads -> Seq(Frame)] /\ f \in Frame
    BY <1>2 DEF TypeOK, PlainTyped, FramesTyped
  <2>2. QED BY <1>3, <2>1, ReplaceEffect
<1>5. QED
  <2> HIDE DEF f
  <2>1. QED BY <1>1, <1>2, <1>4

\* A call takes the lock and moves on.
LEMMA LockEffect ==
  ASSUME TypeOK, NEW t \in Threads, frames[t] # <<>>, Lock(t)
  PROVE  /\ frames' \in [Threads -> Seq(Frame)]
         /\ \A u \in Threads : Len(frames'[u]) = Len(frames[u])
         /\ \A u \in Threads : \A k \in 1 .. Len(frames[u]) :
              IF u = t /\ k = Len(frames[t])
              THEN /\ frames'[u][k].obj = Top(t).obj
                   /\ frames'[u][k].locked
                   /\ frames'[u][k].pc = Start(Top(t).obj)
              ELSE frames'[u][k] = frames[u][k]
<1>1. /\ Top(t) \in Frame
      /\ Top(t) = frames[t][Len(frames[t])]
  BY TopType
<1> DEFINE f == [Top(t) EXCEPT !.pc = Start(Top(t).obj), !.locked = TRUE]
<1>2. f \in Frame /\ f.obj = Top(t).obj /\ f.locked = TRUE /\ f.pc = Start(Top(t).obj)
  BY <1>1 DEF Frame, Start, Executing
<1>3. frames' = [frames EXCEPT ![t] = [@ EXCEPT ![Len(frames[t])] = f]]
  BY <1>1, <1>2 DEF Lock
<1>4. /\ frames' \in [Threads -> Seq(Frame)]
      /\ \A u \in Threads : Len(frames'[u]) = Len(frames[u])
      /\ \A u \in Threads : \A k \in 1 .. Len(frames[u]) :
           frames'[u][k] = IF u = t /\ k = Len(frames[t]) THEN f ELSE frames[u][k]
  <2> HIDE DEF f
  <2>1. frames \in [Threads -> Seq(Frame)] /\ f \in Frame
    BY <1>2 DEF TypeOK, PlainTyped, FramesTyped
  <2>2. QED BY <1>3, <2>1, ReplaceEffect
<1>5. QED
  <2> HIDE DEF f
  <2>1. QED BY <1>1, <1>2, <1>4

\* A call returns.
LEMMA PopEffect ==
  ASSUME TypeOK, NEW t \in Threads, frames[t] # <<>>, Pop(t)
  PROVE  /\ frames' \in [Threads -> Seq(Frame)]
         /\ \A u \in Threads :
              Len(frames'[u]) = IF u = t THEN Len(frames[u]) - 1 ELSE Len(frames[u])
         /\ \A u \in Threads : \A k \in 1 .. Len(frames'[u]) :
              k \in 1 .. Len(frames[u]) /\ frames'[u][k] = frames[u][k]
<1>1. frames[t] \in Seq(Frame) /\ Len(frames[t]) \in Nat \ {0}
  BY TopType
<1>2. /\ Front(frames[t]) \in Seq(Frame)
      /\ Len(Front(frames[t])) = Len(frames[t]) - 1
      /\ \A k \in 1 .. Len(frames[t]) - 1 : Front(frames[t])[k] = frames[t][k]
  <2>1. Front(frames[t]) = [k \in 1 .. Len(frames[t]) - 1 |-> frames[t][k]]
    BY <1>1 DEF Front
  <2>2. \A k \in 1 .. Len(frames[t]) - 1 : frames[t][k] \in Frame
    BY <1>1
  <2>3. QED BY <1>1, <2>1, <2>2
<1>3. frames \in [Threads -> Seq(Frame)]
  BY DEF TypeOK, PlainTyped, FramesTyped
<1>4. frames' = [frames EXCEPT ![t] = Front(frames[t])]
  BY DEF Pop
<1>5. \A u \in Threads : Len(frames[u]) \in Nat
  BY <1>3, LenProperties
<1>6. QED BY <1>1, <1>2, <1>3, <1>4, <1>5

\* A call begins.
LEMMA PushEffect ==
  ASSUME TypeOK, NEW t \in Threads, NEW f \in Frame, Push(t, f)
  PROVE  /\ frames' \in [Threads -> Seq(Frame)]
         /\ \A u \in Threads :
              Len(frames'[u]) = IF u = t THEN Len(frames[u]) + 1 ELSE Len(frames[u])
         /\ \A u \in Threads : \A k \in 1 .. Len(frames[u]) : frames'[u][k] = frames[u][k]
         /\ frames'[t][Len(frames[t]) + 1] = f
<1>1. frames \in [Threads -> Seq(Frame)]
  BY DEF TypeOK, PlainTyped, FramesTyped
<1>2. /\ Append(frames[t], f) \in Seq(Frame)
      /\ Len(Append(frames[t], f)) = Len(frames[t]) + 1
      /\ \A k \in 1 .. Len(frames[t]) : Append(frames[t], f)[k] = frames[t][k]
      /\ Append(frames[t], f)[Len(frames[t]) + 1] = f
  BY <1>1, AppendProperties
<1>3. QED BY <1>1, <1>2 DEF Push

-----------------------------------------------------------------------------
(* The frames stay well formed.                                            *)

\* When a call moves on.
LEMMA GotoFrames ==
  ASSUME FramesInv, NEW t \in Threads, frames[t] # <<>>,
         NEW p \in Executing \cup Cancelling, Goto(t, p),
         Top(t).locked => p \in PastLock,
         p \in Executing => Top(t).pc \in Executing,
         Len(tasks') \in Nat, Len(tasks') >= Len(tasks)
  PROVE  FramesOK'
<1>0. TypeOK /\ Len(tasks) \in Nat /\ \A u \in Threads : Len(frames[u]) \in Nat
  BY LenProperties DEF FramesInv, TypeOK, PlainTyped, FramesTyped
<1>1. Top(t) = frames[t][Len(frames[t])] /\ Len(frames[t]) \in Nat \ {0}
  BY <1>0, TopType
<1>2. /\ frames' \in [Threads -> Seq(Frame)]
      /\ \A u \in Threads : Len(frames'[u]) = Len(frames[u])
      /\ \A u \in Threads : \A k \in 1 .. Len(frames[u]) :
           /\ frames'[u][k].obj = frames[u][k].obj
           /\ frames'[u][k].locked = frames[u][k].locked
           /\ frames'[u][k].pc = IF u = t /\ k = Len(frames[t]) THEN p ELSE frames[u][k].pc
  BY <1>0, GotoEffect
<1>3. FramesTyped'
  <2>1. \A u \in Threads : \A k \in 1 .. Len(frames[u]) :
          frames[u][k].obj \in Nat /\ frames[u][k].obj <= Len(tasks')
    BY <1>0, TaskOfFrame
  <2>2. QED BY <1>0, <1>2, <2>1 DEF FramesTyped
<1>4. StackShape'
  BY <1>0, <1>1, <1>2 DEF FramesInv, StackShape
<1>5. SoleCall'
  BY <1>1, <1>2 DEF FramesInv, SoleCall
<1>6. QED BY <1>3, <1>4, <1>5 DEF FramesOK

\* When a call takes the lock.
LEMMA LockFrames ==
  ASSUME FramesInv, NEW t \in Threads, Lock(t)
  PROVE  FramesOK'
<1>0. TypeOK /\ Len(tasks) \in Nat /\ \A u \in Threads : Len(frames[u]) \in Nat
  BY LenProperties DEF FramesInv, TypeOK, PlainTyped, FramesTyped
<1>1. /\ Top(t) = frames[t][Len(frames[t])] /\ Len(frames[t]) \in Nat \ {0}
      /\ frames[t] # <<>> /\ Top(t).pc = "lock" /\ tasks' = tasks
  BY <1>0, TopType DEF Lock, At
<1>2. /\ frames' \in [Threads -> Seq(Frame)]
      /\ \A u \in Threads : Len(frames'[u]) = Len(frames[u])
      /\ \A u \in Threads : \A k \in 1 .. Len(frames[u]) :
           IF u = t /\ k = Len(frames[t])
           THEN /\ frames'[u][k].obj = Top(t).obj
                /\ frames'[u][k].locked
                /\ frames'[u][k].pc = Start(Top(t).obj)
           ELSE frames'[u][k] = frames[u][k]
  BY <1>0, <1>1, LockEffect
<1>3. FramesTyped'
  BY <1>0, <1>1, <1>2 DEF TypeOK, PlainTyped, FramesTyped
<1>4. StackShape'
  <2>1. Start(Top(t).obj) \in PastLock
    BY DEF Start, PastLock
  <2>2. SUFFICES ASSUME NEW u \in Threads, NEW k \in 1 .. Len(frames'[u])
                 PROVE  /\ k < Len(frames'[u]) => frames'[u][k].pc = "body"
                        /\ frames'[u][k].locked => frames'[u][k].pc \in PastLock
    BY DEF StackShape
  <2>3. Len(frames'[u]) = Len(frames[u]) /\ k \in 1 .. Len(frames[u])
    BY <1>2
  <2>4. CASE u = t /\ k = Len(frames[t])
    BY <1>2, <2>1, <2>3, <2>4
  <2>5. CASE ~(u = t /\ k = Len(frames[t]))
    <3>1. frames'[u][k] = frames[u][k]
      BY <1>2, <2>3, <2>5
    <3>2. QED BY <2>3, <3>1 DEF FramesInv, StackShape
  <2>6. QED BY <2>4, <2>5
<1>5. SoleCall'
  <2>1. "lock" \in Executing
    BY DEF Executing
  <2>2. QED BY <1>1, <1>2, <2>1 DEF FramesInv, SoleCall
<1>6. QED BY <1>3, <1>4, <1>5 DEF FramesOK

\* When a call returns.
LEMMA PopFrames ==
  ASSUME FramesInv, NEW t \in Threads, frames[t] # <<>>, Pop(t),
         Len(tasks') \in Nat, Len(tasks') >= Len(tasks)
  PROVE  FramesOK'
<1>0. TypeOK /\ Len(tasks) \in Nat /\ \A u \in Threads : Len(frames[u]) \in Nat
  BY LenProperties DEF FramesInv, TypeOK, PlainTyped, FramesTyped
<1>1. Top(t) = frames[t][Len(frames[t])] /\ Len(frames[t]) \in Nat \ {0}
  BY <1>0, TopType
<1>2. /\ frames' \in [Threads -> Seq(Frame)]
      /\ \A u \in Threads :
           Len(frames'[u]) = IF u = t THEN Len(frames[u]) - 1 ELSE Len(frames[u])
      /\ \A u \in Threads : \A k \in 1 .. Len(frames'[u]) :
           k \in 1 .. Len(frames[u]) /\ frames'[u][k] = frames[u][k]
  BY <1>0, PopEffect
<1>3. FramesTyped'
  <2>1. \A u \in Threads : \A k \in 1 .. Len(frames[u]) :
          frames[u][k].obj \in Nat /\ frames[u][k].obj <= Len(tasks')
    BY <1>0, TaskOfFrame
  <2>2. QED BY <1>0, <1>2, <2>1 DEF FramesTyped
<1>4. StackShape'
  <2>1. SUFFICES ASSUME NEW u \in Threads, NEW k \in 1 .. Len(frames'[u])
                 PROVE  /\ k < Len(frames'[u]) => frames'[u][k].pc = "body"
                        /\ frames'[u][k].locked => frames'[u][k].pc \in PastLock
    BY DEF StackShape
  <2>2. k \in 1 .. Len(frames[u]) /\ frames'[u][k] = frames[u][k]
    BY <1>2
  <2>3. k < Len(frames'[u]) => k < Len(frames[u])
    BY <1>0, <1>2
  <2>4. QED BY <2>2, <2>3 DEF FramesInv, StackShape
<1>5. SoleCall'
  <2>1. SUFFICES ASSUME NEW v \in Threads, NEW u \in Threads,
                        NEW k \in 1 .. Len(frames'[v]), NEW j \in 1 .. Len(frames'[u]),
                        frames'[v][k].pc \in Executing, frames'[u][j].obj = frames'[v][k].obj
                 PROVE  u = v /\ j = k
    BY DEF SoleCall
  <2>2. /\ k \in 1 .. Len(frames[v]) /\ frames'[v][k] = frames[v][k]
        /\ j \in 1 .. Len(frames[u]) /\ frames'[u][j] = frames[u][j]
    BY <1>2
  <2>3. QED BY <2>1, <2>2 DEF FramesInv, SoleCall
<1>6. QED BY <1>3, <1>4, <1>5 DEF FramesOK

\* When a call begins: of execute, on an object no call works on, or of cancel, on
\* one that no execute works on.
LEMMA PushFrames ==
  ASSUME FramesInv, NEW t \in Threads, NEW f \in Frame, Push(t, f),
         frames[t] # <<>> => Top(t).pc = "body",
         f.locked = FALSE, f.obj <= Len(tasks'),
         \A u \in Threads : \A k \in 1 .. Len(frames[u]) :
           frames[u][k].obj = f.obj =>
             frames[u][k].pc \notin Executing /\ f.pc \notin Executing,
         Len(tasks') \in Nat, Len(tasks') >= Len(tasks)
  PROVE  FramesOK'
<1>0. TypeOK /\ Len(tasks) \in Nat /\ \A u \in Threads : Len(frames[u]) \in Nat
  BY LenProperties DEF FramesInv, TypeOK, PlainTyped, FramesTyped
<1>1. frames[t] # <<>> => Top(t) = frames[t][Len(frames[t])]
  BY <1>0, TopType
<1>2. /\ frames' \in [Threads -> Seq(Frame)]
      /\ \A u \in Threads :
           Len(frames'[u]) = IF u = t THEN Len(frames[u]) + 1 ELSE Len(frames[u])
      /\ \A u \in Threads : \A k \in 1 .. Len(frames[u]) : frames'[u][k] = frames[u][k]
      /\ frames'[t][Len(frames[t]) + 1] = f
  BY <1>0, PushEffect
<1>3. FramesTyped'
  <2>1. \A u \in Threads : \A k \in 1 .. Len(frames[u]) :
          frames[u][k].obj \in Nat /\ frames[u][k].obj <= Len(tasks')
    BY <1>0, TaskOfFrame
  <2>2. ASSUME NEW u \in Threads, NEW k \in 1 .. Len(frames'[u])
        PROVE  frames'[u][k].obj <= Len(tasks')
    <3>1. CASE k \in 1 .. Len(frames[u])
      BY <1>2, <2>1, <3>1
    <3>2. CASE k \notin 1 .. Len(frames[u])
      <4>1. u = t /\ k = Len(frames[t]) + 1
        BY <1>0, <1>2, <3>2
      <4>2. QED BY <1>2, <4>1
    <3>3. QED BY <3>1, <3>2
  <2>3. QED BY <1>2, <2>2 DEF FramesTyped
<1>4. StackShape'
  <2>1. \A k \in 1 .. Len(frames[t]) : frames[t][k].pc = "body"
    <3>1. SUFFICES ASSUME NEW k \in 1 .. Len(frames[t]) PROVE frames[t][k].pc = "body"
      OBVIOUS
    <3>2. CASE k = Len(frames[t])
      BY <1>0, <1>1, <3>2, EmptySeq
    <3>3. CASE k < Len(frames[t])
      BY <3>3 DEF FramesInv, StackShape
    <3>4. QED BY <1>0, <3>2, <3>3
  <2>2. QED BY <1>0, <1>2, <2>1 DEF FramesInv, StackShape
<1>5. SoleCall'
  <2>1. SUFFICES ASSUME NEW v \in Threads, NEW u \in Threads,
                        NEW k \in 1 .. Len(frames'[v]), NEW j \in 1 .. Len(frames'[u]),
                        frames'[v][k].pc \in Executing, frames'[u][j].obj = frames'[v][k].obj
                 PROVE  u = v /\ j = k
    BY DEF SoleCall
  <2>2. /\ \/ k \in 1 .. Len(frames[v]) /\ frames'[v][k] = frames[v][k]
           \/ v = t /\ k = Len(frames[t]) + 1 /\ frames'[v][k] = f
        /\ \/ j \in 1 .. Len(frames[u]) /\ frames'[u][j] = frames[u][j]
           \/ u = t /\ j = Len(frames[t]) + 1 /\ frames'[u][j] = f
    BY <1>0, <1>2
  <2>3. CASE frames'[v][k] = frames[v][k] /\ frames'[u][j] = frames[u][j]
             /\ k \in 1 .. Len(frames[v]) /\ j \in 1 .. Len(frames[u])
    BY <2>1, <2>3 DEF FramesInv, SoleCall
  <2>4. CASE frames'[v][k] = frames[v][k] /\ k \in 1 .. Len(frames[v]) /\ frames'[u][j] = f
    BY <2>1, <2>4
  <2>5. CASE frames'[v][k] = f /\ frames'[u][j] = frames[u][j] /\ j \in 1 .. Len(frames[u])
    BY <2>1, <2>5
  <2>6. QED BY <2>2, <2>3, <2>4, <2>5
<1>6. QED BY <1>3, <1>4, <1>5 DEF FramesOK

-----------------------------------------------------------------------------
(* What the operations do to the task objects.                             *)

\* The constructor.
LEMMA NewTaskEffect ==
  ASSUME TypeOK, NEW op, NEW state \in {"RUNNING", "SUSPENDED"},
         NEW execu \in Managed \cup {"function"}, NewTask(op, state, execu)
  PROVE  /\ op \in Ops
         /\ tasks' \in Seq(TaskObject)
         /\ Len(tasks') = Len(tasks) + 1
         /\ \A x \in Objects : tasks'[x] = tasks[x]
         /\ tasks'[Len(tasks) + 1] = [id |-> next_id, state |-> state, execu |-> execu,
                                      by |-> op, runs |-> 0, moved |-> FALSE]
         /\ next_id' = next_id + 1
         /\ Len(tasks) \in Nat
<1> DEFINE o == [id |-> next_id, state |-> state, execu |-> execu,
                 by |-> op, runs |-> 0, moved |-> FALSE]
<1>1. op \in Ops /\ tasks' = Append(tasks, o) /\ next_id' = next_id + 1
  BY DEF NewTask
<1>2. o \in TaskObject
  BY <1>1, TaskAssumption DEF TypeOK, PlainTyped, TaskObject
<1>3. tasks \in Seq(TaskObject)
  BY DEF TypeOK, PlainTyped
<1> HIDE DEF o
<1>4. /\ tasks' \in Seq(TaskObject)
      /\ Len(tasks') = Len(tasks) + 1
      /\ \A x \in 1 .. Len(tasks) : tasks'[x] = tasks[x]
      /\ tasks'[Len(tasks) + 1] = o
  BY <1>1, <1>2, <1>3, AppendProperties
<1>5. QED BY <1>1, <1>3, <1>4, LenProperties DEF Objects, o

\* An assignment to fields of one object.
LEMMA ReplaceTask ==
  ASSUME NEW T \in Seq(TaskObject), NEW x \in 1 .. Len(T), NEW o \in TaskObject,
         NEW U, U = [T EXCEPT ![x] = o]
  PROVE  /\ U \in Seq(TaskObject)
         /\ Len(U) = Len(T)
         /\ \A y \in 1 .. Len(T) : U[y] = IF y = x THEN o ELSE T[y]
  BY ExceptSeq

\* What stays of a task that is moved from.
LEMMA MovedFromType ==
  ASSUME NEW o \in TaskObject
  PROVE  /\ MovedFrom(o) \in TaskObject
         /\ MovedFrom(o).moved = TRUE
         /\ MovedFrom(o).by = o.by
         /\ MovedFrom(o).execu \in {"function", NULL}
  BY DEF MovedFrom, TaskObject

\* The function of a task returns.
LEMMA ReturnsEffect ==
  ASSUME TypeOK, NEW t \in Threads, FunctionReturns(t)
  PROVE  /\ tasks' \in Seq(TaskObject)
         /\ Len(tasks') = Len(tasks)
         /\ \A y \in Objects : y # Top(t).obj => tasks'[y] = tasks[y]
         /\ tasks'[Top(t).obj] = [tasks[Top(t).obj] EXCEPT !.runs = @ + 1]
<1> DEFINE o == [tasks[Top(t).obj] EXCEPT !.runs = @ + 1]
<1>1. tasks \in Seq(TaskObject) /\ Top(t).obj \in 1 .. Len(tasks)
  BY TopType DEF FunctionReturns, At, TypeOK, PlainTyped, Objects
<1>2. tasks[Top(t).obj] \in TaskObject
  BY <1>1
<1>3. o \in TaskObject
  BY <1>2 DEF TaskObject
<1>4. tasks' = [tasks EXCEPT ![Top(t).obj] = o]
  BY DEF FunctionReturns
<1> HIDE DEF o
<1>5. /\ tasks' \in Seq(TaskObject)
      /\ Len(tasks') = Len(tasks)
      /\ \A y \in 1 .. Len(tasks) : tasks'[y] = IF y = Top(t).obj THEN o ELSE tasks[y]
  BY <1>1, <1>3, <1>4, ReplaceTask
<1>6. QED BY <1>1, <1>5 DEF o, Objects

\* cancel stores the state.
LEMMA StoreEffect ==
  ASSUME TypeOK, NEW t \in Threads, CancelStore(t)
  PROVE  /\ tasks' \in Seq(TaskObject)
         /\ Len(tasks') = Len(tasks)
         /\ \A y \in Objects : y # Top(t).obj => tasks'[y] = tasks[y]
         /\ tasks'[Top(t).obj] = [tasks[Top(t).obj] EXCEPT !.state = "CANCELLED"]
<1> DEFINE o == [tasks[Top(t).obj] EXCEPT !.state = "CANCELLED"]
<1>1. tasks \in Seq(TaskObject) /\ Top(t).obj \in 1 .. Len(tasks)
  BY TopType DEF CancelStore, At, TypeOK, PlainTyped, Objects
<1>2. tasks[Top(t).obj] \in TaskObject
  BY <1>1
<1>3. o \in TaskObject
  BY <1>2 DEF TaskObject
<1>4. tasks' = [tasks EXCEPT ![Top(t).obj] = o]
  BY DEF CancelStore
<1> HIDE DEF o
<1>5. /\ tasks' \in Seq(TaskObject)
      /\ Len(tasks') = Len(tasks)
      /\ \A y \in 1 .. Len(tasks) : tasks'[y] = IF y = Top(t).obj THEN o ELSE tasks[y]
  BY <1>1, <1>3, <1>4, ReplaceTask
<1>6. QED BY <1>1, <1>5 DEF o, Objects

\* The move constructor.
LEMMA MoveEffect ==
  ASSUME TypeOK, NEW t \in Threads, NEW x \in Objects, Move(t, x)
  PROVE  /\ tasks' \in Seq(TaskObject)
         /\ Len(tasks') = Len(tasks) + 1
         /\ \A y \in Objects : y # x => tasks'[y] = tasks[y]
         /\ tasks'[x] = MovedFrom(tasks[x])
         /\ tasks'[Len(tasks) + 1] = tasks[x]
         /\ Len(tasks) \in Nat
<1>1. tasks \in Seq(TaskObject) /\ x \in 1 .. Len(tasks) /\ Len(tasks) \in Nat
  BY LenProperties DEF TypeOK, PlainTyped, Objects
<1>2. tasks[x] \in TaskObject
  BY <1>1
<1>3. MovedFrom(tasks[x]) \in TaskObject
  BY <1>2, MovedFromType
<1>4. PICK U : U = [tasks EXCEPT ![x] = MovedFrom(tasks[x])]
  OBVIOUS
<1>5. /\ U \in Seq(TaskObject)
      /\ Len(U) = Len(tasks)
      /\ \A y \in 1 .. Len(tasks) : U[y] = IF y = x THEN MovedFrom(tasks[x]) ELSE tasks[y]
  BY <1>1, <1>3, <1>4, ReplaceTask
<1>6. tasks' = Append(U, tasks[x])
  BY <1>4 DEF Move
<1>7. /\ tasks' \in Seq(TaskObject)
      /\ Len(tasks') = Len(tasks) + 1
      /\ \A y \in 1 .. Len(tasks) : tasks'[y] = U[y]
      /\ tasks'[Len(tasks) + 1] = tasks[x]
  BY <1>2, <1>5, <1>6, AppendProperties
<1>8. QED BY <1>1, <1>5, <1>7 DEF Objects

\* Move assignment.
LEMMA MoveAssignEffect ==
  ASSUME TypeOK, NEW t \in Threads, NEW x \in Objects, NEW y \in Objects, MoveAssign(t, x, y)
  PROVE  /\ tasks' \in Seq(TaskObject)
         /\ Len(tasks') = Len(tasks)
         /\ \A z \in Objects : z # x /\ z # y => tasks'[z] = tasks[z]
         /\ tasks'[x] = MovedFrom(tasks[x])
         /\ tasks'[y] = tasks[x]
<1>1. tasks \in Seq(TaskObject) /\ x \in 1 .. Len(tasks) /\ y \in 1 .. Len(tasks) /\ x # y
  BY DEF TypeOK, PlainTyped, Objects, MoveAssign
<1>2. tasks[x] \in TaskObject
  BY <1>1
<1>3. MovedFrom(tasks[x]) \in TaskObject
  BY <1>2, MovedFromType
<1>4. PICK U : U = [tasks EXCEPT ![x] = MovedFrom(tasks[x])]
  OBVIOUS
<1>5. /\ U \in Seq(TaskObject)
      /\ Len(U) = Len(tasks)
      /\ \A z \in 1 .. Len(tasks) : U[z] = IF z = x THEN MovedFrom(tasks[x]) ELSE tasks[z]
  BY <1>1, <1>3, <1>4, ReplaceTask
<1>6. tasks' = [U EXCEPT ![y] = tasks[x]]
  BY <1>4 DEF MoveAssign
<1>7. /\ tasks' \in Seq(TaskObject)
      /\ Len(tasks') = Len(U)
      /\ \A z \in 1 .. Len(U) : tasks'[z] = IF z = y THEN tasks[x] ELSE U[z]
  BY <1>1, <1>2, <1>5, <1>6, ReplaceTask
<1>8. QED BY <1>1, <1>5, <1>7 DEF Objects

-----------------------------------------------------------------------------
(* Types and frames, step by step.                                         *)

\* A program that starts.
LEMMA FramesInit == Init => FramesInv
<1> SUFFICES ASSUME Init PROVE FramesInv
  OBVIOUS
<1>1. tasks \in Seq(TaskObject) /\ frames \in [Threads -> Seq(Frame)]
  BY DEF Init
<1>2. \A t \in Threads : Len(frames[t]) = 0
  BY DEF Init
<1>3. PlainTyped
  BY <1>1 DEF Init, PlainTyped
<1>4. FramesTyped /\ StackShape /\ SoleCall
  BY <1>1, <1>2 DEF FramesTyped, StackShape, SoleCall
<1>5. QED BY <1>3, <1>4 DEF FramesInv, TypeOK

\* A task that a call executes next.
LEMMA SpawnFrames ==
  ASSUME FramesInv, NEW t \in Threads, InUserCode(t), NEW op,
         NEW state \in {"RUNNING", "SUSPENDED"}, NEW execu \in Managed \cup {"function"},
         NewTask(op, state, execu), NEW p \in Executing, Push(t, NewFrame(p))
  PROVE  FramesOK'
<1>1. /\ tasks' \in Seq(TaskObject)
      /\ Len(tasks') = Len(tasks) + 1
      /\ Len(tasks) \in Nat
  BY NewTaskEffect DEF FramesInv
<1>2. PICK f : f = NewFrame(p)
  OBVIOUS
<1>3. f \in Frame /\ f.obj = Len(tasks) + 1 /\ f.pc = p /\ f.locked = FALSE
  BY <1>1, <1>2 DEF NewFrame, Frame
<1>4. \A u \in Threads : \A k \in 1 .. Len(frames[u]) : frames[u][k].obj # f.obj
  BY <1>1, <1>3, TaskOfFrame DEF FramesInv
<1>5. frames[t] # <<>> => Top(t).pc = "body"
  BY DEF InUserCode
<1>6. Push(t, f) /\ f.obj <= Len(tasks') /\ Len(tasks') \in Nat /\ Len(tasks') >= Len(tasks)
  BY <1>1, <1>2, <1>3
<1>7. QED BY <1>3, <1>4, <1>5, <1>6, PushFrames

\* The steps of user code.
LEMMA FramesUser ==
  ASSUME FramesInv, NEW t \in Threads, UserStep(t)
  PROVE  FramesInv'
<1>0. TypeOK /\ PlainTyped /\ FramesOK /\ Len(tasks) \in Nat
  BY LenProperties DEF FramesInv, FramesOK, TypeOK, PlainTyped
<1>1. ASSUME UNCHANGED frames, Len(tasks') \in Nat, Len(tasks') >= Len(tasks)
      PROVE  FramesOK'
  <2>1. FramesTyped'
    BY <1>0, <1>1, TaskOfFrame DEF FramesOK, FramesTyped
  <2>2. StackShape'
    BY <1>0, <1>1 DEF FramesOK, StackShape
  <2>3. SoleCall'
    BY <1>0, <1>1 DEF FramesOK, SoleCall
  <2>4. QED BY <2>1, <2>2, <2>3 DEF FramesOK
<1>2. CASE SpawnFunction(t)
  <2>1. PICK op \in {"spawn", "delay"}, state \in {"RUNNING", "SUSPENDED"} :
          NewTask(op, state, "function")
    BY <1>2 DEF SpawnFunction
  <2>2. FramesOK'
    <3>1. InUserCode(t) /\ Push(t, NewFrame("enter"))
      BY <1>2 DEF SpawnFunction
    <3>2. QED BY <2>1, <3>1, SpawnFrames DEF Executing
  <2>3. PlainTyped'
    <3>1. tasks' \in Seq(TaskObject) /\ next_id' = next_id + 1
      BY <1>0, <2>1, NewTaskEffect
    <3>2. QED BY <1>0, <1>2, <3>1 DEF SpawnFunction, PlainTyped
  <2>4. QED BY <2>2, <2>3 DEF FramesInv, TypeOK, FramesOK
<1>3. ASSUME NEW m \in Managed, SpawnThread(t, m) PROVE FramesInv'
  <2>1. FramesOK'
    <3>1. InUserCode(t) /\ NewTask("spawn_thread", "RUNNING", m) /\ Push(t, NewFrame("enter"))
      BY <1>3 DEF SpawnThread
    <3>2. QED BY <3>1, SpawnFrames DEF Executing
  <2>2. PlainTyped'
    <3>1. tasks' \in Seq(TaskObject) /\ next_id' = next_id + 1
      BY <1>0, <1>3, NewTaskEffect DEF SpawnThread
    <3>2. QED BY <1>0, <1>3, <3>1 DEF SpawnThread, PlainTyped
  <2>3. QED BY <2>1, <2>2 DEF FramesInv, TypeOK, FramesOK
<1>4. ASSUME NEW m \in Managed, DelayThread(t, m) PROVE FramesInv'
  <2>1. FramesOK'
    <3>1. InUserCode(t) /\ NewTask("delay_thread", "SUSPENDED", m) /\ Push(t, NewFrame("sleep"))
      BY <1>4 DEF DelayThread
    <3>2. QED BY <3>1, SpawnFrames DEF Executing
  <2>2. PlainTyped'
    <3>1. tasks' \in Seq(TaskObject) /\ next_id' = next_id + 1
      BY <1>0, <1>4, NewTaskEffect DEF DelayThread
    <3>2. QED BY <1>0, <1>4, <3>1 DEF DelayThread, PlainTyped
  <2>3. QED BY <2>1, <2>2 DEF FramesInv, TypeOK, FramesOK
<1>5. ASSUME NEW execu \in Managed \cup {"function"}, Defer(t, execu) PROVE FramesInv'
  <2>1. /\ tasks' \in Seq(TaskObject) /\ Len(tasks') = Len(tasks) + 1
        /\ next_id' = next_id + 1 /\ UNCHANGED frames
    BY <1>0, <1>5, NewTaskEffect DEF Defer
  <2>2. PlainTyped'
    BY <1>0, <1>5, <2>1 DEF Defer, PlainTyped
  <2>3. FramesOK'
    BY <1>0, <1>1, <2>1
  <2>4. QED BY <2>2, <2>3 DEF FramesInv, TypeOK, FramesOK
<1>6. ASSUME NEW x \in 1 .. Len(tasks), Cancel(t, x) PROVE FramesInv'
  <2>1. PICK f : f = [obj |-> x, pc |-> "store", locked |-> FALSE]
    OBVIOUS
  <2>2. /\ f \in Frame /\ f.obj = x /\ f.pc = "store" /\ f.locked = FALSE
        /\ f.pc \notin Executing
    BY <1>0, <2>1 DEF Frame, Executing, Cancelling
  <2>3. Push(t, f) /\ tasks' = tasks /\ (frames[t] # <<>> => Top(t).pc = "body")
    BY <1>6, <2>1 DEF Cancel, InUserCode
  <2>4. \A u \in Threads : \A k \in 1 .. Len(frames[u]) :
          frames[u][k].obj = f.obj =>
            frames[u][k].pc \notin Executing /\ f.pc \notin Executing
    BY <1>6, <2>2 DEF Cancel, Returned, Executing
  <2>5. FramesOK'
    <3>1. f.obj <= Len(tasks') /\ Len(tasks') \in Nat /\ Len(tasks') >= Len(tasks)
      BY <1>0, <2>2, <2>3
    <3>2. QED BY <2>2, <2>3, <2>4, <3>1, PushFrames
  <2>6. PlainTyped'
    BY <1>0, <1>6 DEF Cancel, PlainTyped
  <2>7. QED BY <2>5, <2>6 DEF FramesInv, TypeOK, FramesOK
<1>7. ASSUME NEW x \in 1 .. Len(tasks), Move(t, x) PROVE FramesInv'
  <2>1. tasks' \in Seq(TaskObject) /\ Len(tasks') = Len(tasks) + 1 /\ UNCHANGED frames
    BY <1>0, <1>7, MoveEffect DEF Move, Objects
  <2>2. PlainTyped'
    BY <1>0, <1>7, <2>1 DEF Move, PlainTyped
  <2>3. FramesOK'
    BY <1>0, <1>1, <2>1
  <2>4. QED BY <2>2, <2>3 DEF FramesInv, TypeOK, FramesOK
<1>8. ASSUME NEW x \in 1 .. Len(tasks), NEW y \in 1 .. Len(tasks), MoveAssign(t, x, y)
      PROVE  FramesInv'
  <2>1. tasks' \in Seq(TaskObject) /\ Len(tasks') = Len(tasks) /\ UNCHANGED frames
    BY <1>0, <1>8, MoveAssignEffect DEF MoveAssign, Objects
  <2>2. PlainTyped'
    BY <1>0, <1>8, <2>1 DEF MoveAssign, PlainTyped
  <2>3. FramesOK'
    BY <1>0, <1>1, <2>1
  <2>4. QED BY <2>2, <2>3 DEF FramesInv, TypeOK, FramesOK
<1>9. ASSUME NEW value \in BOOLEAN, Synchronize(t, value) PROVE FramesInv'
  <2>1. PlainTyped' /\ UNCHANGED <<frames, tasks>>
    BY <1>0, <1>9 DEF Synchronize, PlainTyped
  <2>2. QED BY <1>0, <1>1, <2>1 DEF FramesInv, TypeOK, FramesOK
<1>10. CASE ThreadEnds(t)
  <2>1. PlainTyped' /\ UNCHANGED <<frames, tasks>>
    BY <1>0, <1>10 DEF ThreadEnds, PlainTyped
  <2>2. QED BY <1>0, <1>1, <2>1 DEF FramesInv, TypeOK, FramesOK
<1>11. QED
  BY <1>2, <1>3, <1>4, <1>5, <1>6, <1>7, <1>8, <1>9, <1>10 DEF UserStep

\* The steps of the library.
LEMMA FramesLibrary ==
  ASSUME FramesInv, NEW t \in Threads, LibraryStep(t)
  PROVE  FramesInv'
<1>0. TypeOK /\ PlainTyped /\ FramesOK /\ Len(tasks) \in Nat /\ Len(tasks) >= Len(tasks)
  BY LenProperties DEF FramesInv, FramesOK, TypeOK, PlainTyped
<1>1. frames[t] # <<>>
  BY DEF LibraryStep, WakeUp, Enter, Lock, FunctionReturns, Joinable, Join, JoinFails,
         Leave, CancelStore, CancelJoinable, Detach, At
<1>2. Top(t).locked => Top(t).pc \in PastLock
  BY <1>0, <1>1, TopType DEF FramesOK, StackShape
<1>3. ASSUME UNCHANGED <<frames, tasks>> PROVE FramesOK'
  <2>1. FramesTyped'
    BY <1>0, <1>3 DEF FramesOK, FramesTyped
  <2>2. StackShape'
    BY <1>0, <1>3 DEF FramesOK, StackShape
  <2>3. SoleCall'
    BY <1>0, <1>3 DEF FramesOK, SoleCall
  <2>4. QED BY <2>1, <2>2, <2>3 DEF FramesOK
<1>4. ASSUME NEW p \in Executing, Goto(t, p), Top(t).pc \in Executing,
             Top(t).locked => p \in PastLock,
             Len(tasks') \in Nat, Len(tasks') >= Len(tasks)
      PROVE  FramesOK'
  BY <1>1, <1>4, GotoFrames
<1>5. ASSUME NEW p \in Cancelling, Goto(t, p), Top(t).pc \in Cancelling,
             Len(tasks') \in Nat, Len(tasks') >= Len(tasks)
      PROVE  FramesOK'
  <2>1. ~Top(t).locked /\ p \notin Executing
    BY <1>2, <1>5 DEF PastLock, Cancelling, Executing
  <2>2. QED BY <1>1, <1>5, <2>1, GotoFrames
<1>6. CASE WakeUp(t)
  <2>1. Goto(t, "enter") /\ Top(t).pc = "sleep" /\ tasks' = tasks /\ ~Top(t).locked
    BY <1>2, <1>6 DEF WakeUp, At, PastLock
  <2>2. FramesOK'
    BY <1>0, <1>4, <2>1 DEF Executing
  <2>3. PlainTyped'
    BY <1>0, <1>6 DEF WakeUp, PlainTyped
  <2>4. QED BY <2>2, <2>3 DEF FramesInv, TypeOK, FramesOK
<1>7. CASE Enter(t)
  <2>1. PICK p : p = IF tasks[Top(t).obj].state = "CANCELLED" THEN "leave"
                     ELSE IF serial THEN "lock" ELSE Start(Top(t).obj)
    OBVIOUS
  <2>2. Goto(t, p) /\ Top(t).pc = "enter" /\ tasks' = tasks /\ ~Top(t).locked
    BY <1>2, <1>7, <2>1 DEF Enter, At, PastLock
  <2>3. p \in Executing
    BY <2>1 DEF Start, Executing
  <2>4. FramesOK'
    BY <1>0, <1>4, <2>2, <2>3 DEF Executing
  <2>5. PlainTyped'
    BY <1>0, <1>7 DEF Enter, PlainTyped
  <2>6. QED BY <2>4, <2>5 DEF FramesInv, TypeOK, FramesOK
<1>8. CASE Lock(t)
  <2>1. FramesOK'
    BY <1>8, LockFrames
  <2>2. PlainTyped'
    BY <1>0, <1>8 DEF Lock, PlainTyped
  <2>3. QED BY <2>1, <2>2 DEF FramesInv, TypeOK, FramesOK
<1>9. CASE FunctionReturns(t)
  <2>1. Goto(t, "leave") /\ Top(t).pc = "body"
    BY <1>9 DEF FunctionReturns, At
  <2>2. tasks' \in Seq(TaskObject) /\ Len(tasks') = Len(tasks)
    BY <1>0, <1>9, ReturnsEffect
  <2>3. FramesOK'
    BY <1>0, <1>4, <2>1, <2>2 DEF Executing, PastLock
  <2>4. PlainTyped'
    BY <1>0, <1>9, <2>2 DEF FunctionReturns, PlainTyped
  <2>5. QED BY <2>3, <2>4 DEF FramesInv, TypeOK, FramesOK
<1>10. CASE Joinable(t)
  <2>1. PICK p : p = IF handle[tasks[Top(t).obj].execu] = "joinable" THEN "join" ELSE "leave"
    OBVIOUS
  <2>2. Goto(t, p) /\ Top(t).pc = "joinable" /\ tasks' = tasks
    BY <1>10, <2>1 DEF Joinable, At
  <2>3. p \in Executing /\ p \in PastLock
    BY <2>1 DEF Executing, PastLock
  <2>4. FramesOK'
    BY <1>0, <1>4, <2>2, <2>3 DEF Executing
  <2>5. PlainTyped'
    BY <1>0, <1>10 DEF Joinable, PlainTyped
  <2>6. QED BY <2>4, <2>5 DEF FramesInv, TypeOK, FramesOK
<1>11. CASE Join(t)
  <2>1. Goto(t, "leave") /\ Top(t).pc = "join" /\ tasks' = tasks
    BY <1>11 DEF Join, At
  <2>2. FramesOK'
    BY <1>0, <1>4, <2>1 DEF Executing, PastLock
  <2>3. PlainTyped'
    BY <1>0, <1>11 DEF Join, PlainTyped
  <2>4. QED BY <2>2, <2>3 DEF FramesInv, TypeOK, FramesOK
<1>12. CASE JoinFails(t)
  <2>1. PlainTyped' /\ UNCHANGED <<frames, tasks>>
    BY <1>0, <1>12 DEF JoinFails, PlainTyped
  <2>2. QED BY <1>3, <2>1 DEF FramesInv, TypeOK, FramesOK
<1>13. CASE Leave(t)
  <2>1. Pop(t) /\ tasks' = tasks
    BY <1>13 DEF Leave
  <2>2. FramesOK'
    BY <1>0, <1>1, <2>1, PopFrames
  <2>3. PlainTyped'
    BY <1>0, <1>13 DEF Leave, PlainTyped
  <2>4. QED BY <2>2, <2>3 DEF FramesInv, TypeOK, FramesOK
<1>14. CASE CancelStore(t)
  <2>1. tasks' \in Seq(TaskObject) /\ Len(tasks') = Len(tasks)
    BY <1>0, <1>14, StoreEffect
  <2>2. Top(t).pc = "store" /\ (Pop(t) \/ Goto(t, "still_joinable"))
    BY <1>14 DEF CancelStore, At
  <2>3. FramesOK'
    <3>1. CASE Pop(t)
      BY <1>0, <1>1, <2>1, <3>1, PopFrames
    <3>2. CASE Goto(t, "still_joinable")
      BY <1>0, <1>5, <2>1, <2>2, <3>2 DEF Cancelling
    <3>3. QED BY <2>2, <3>1, <3>2
  <2>4. PlainTyped'
    BY <1>0, <1>14, <2>1 DEF CancelStore, PlainTyped
  <2>5. QED BY <2>3, <2>4 DEF FramesInv, TypeOK, FramesOK
<1>15. CASE CancelJoinable(t)
  <2>1. /\ Top(t).pc = "still_joinable" /\ tasks' = tasks
        /\ UNCHANGED frames \/ Goto(t, "detach") \/ Pop(t)
    BY <1>15 DEF CancelJoinable, At
  <2>2. FramesOK'
    <3>1. CASE Pop(t)
      BY <1>0, <1>1, <2>1, <3>1, PopFrames
    <3>2. CASE Goto(t, "detach")
      BY <1>0, <1>5, <2>1, <3>2 DEF Cancelling
    <3>3. CASE UNCHANGED frames
      BY <1>3, <2>1, <3>3
    <3>4. QED BY <2>1, <3>1, <3>2, <3>3
  <2>3. PlainTyped'
    BY <1>0, <1>15 DEF CancelJoinable, PlainTyped
  <2>4. QED BY <2>2, <2>3 DEF FramesInv, TypeOK, FramesOK
<1>16. CASE Detach(t)
  <2>1. tasks' = tasks /\ (UNCHANGED frames \/ Pop(t))
    BY <1>16 DEF Detach
  <2>2. FramesOK'
    <3>1. CASE Pop(t)
      BY <1>0, <1>1, <2>1, <3>1, PopFrames
    <3>2. CASE UNCHANGED frames
      BY <1>3, <2>1, <3>2
    <3>3. QED BY <2>1, <3>1, <3>2
  <2>3. PlainTyped'
    BY <1>0, <1>16 DEF Detach, PlainTyped
  <2>4. QED BY <2>2, <2>3 DEF FramesInv, TypeOK, FramesOK
<1>17. QED
  BY <1>6, <1>7, <1>8, <1>9, <1>10, <1>11, <1>12, <1>13, <1>14, <1>15, <1>16 DEF LibraryStep

\* Types and frames in every reachable state.
LEMMA FramesAlways == Spec => []FramesInv
<1>1. ASSUME FramesInv, [Next]_vars PROVE FramesInv'
  <2>1. CASE UNCHANGED vars
    BY <1>1, <2>1 DEF vars, FramesInv, TypeOK, PlainTyped, FramesTyped, StackShape, SoleCall
  <2>2. CASE Finished
    BY <1>1, <2>2
    DEF Finished, vars, FramesInv, TypeOK, PlainTyped, FramesTyped, StackShape, SoleCall
  <2>3. QED BY <1>1, <2>1, <2>2, FramesUser, FramesLibrary DEF Next
<1>2. QED BY <1>1, FramesInit, PTL DEF Spec

\* Every call works on a task object that exists and is somewhere in execute or
\* cancel, and the mutex belongs to a thread or to nobody.
THEOREM TaskTypeCorrect == Spec => []TypeOK
<1>1. FramesInv => TypeOK
  BY DEF FramesInv
<1>2. QED BY <1>1, FramesAlways, PTL

-----------------------------------------------------------------------------
(* The lock.                                                               *)

\* The lock through a call that takes or leaves it, and through all others.
LEMMA ExclusionNext ==
  ASSUME FramesInv, SerialExclusion, NEW t \in Threads, LibraryStep(t) \/ UserStep(t)
  PROVE  SerialExclusion'
<1>0. /\ TypeOK /\ mutex \in Threads \cup {NULL} /\ NULL \notin Threads
      /\ \A u \in Threads : Len(frames[u]) \in Nat
  BY LenProperties, TaskAssumption DEF FramesInv, TypeOK, PlainTyped, FramesTyped
<1>1. frames[t] # <<>> => /\ Top(t) = frames[t][Len(frames[t])]
                          /\ Len(frames[t]) \in 1 .. Len(frames[t])
                          /\ Top(t).locked => Top(t).pc \in PastLock
  BY <1>0, TopType DEF FramesInv, StackShape
<1>2. ASSUME UNCHANGED <<mutex, frames>> PROVE SerialExclusion'
  BY <1>2 DEF SerialExclusion
<1>3. ASSUME UNCHANGED mutex, frames[t] # <<>>,
             NEW p \in Executing \cup Cancelling, Goto(t, p)
      PROVE  SerialExclusion'
  <2>1. /\ \A u \in Threads : Len(frames'[u]) = Len(frames[u])
        /\ \A u \in Threads : \A k \in 1 .. Len(frames[u]) :
             frames'[u][k].locked = frames[u][k].locked
    BY <1>0, <1>3, GotoEffect
  <2>2. \A u \in Threads : \A k \in 1 .. Len(frames'[u]) :
          frames'[u][k].locked => k \in 1 .. Len(frames[u]) /\ frames[u][k].locked
    BY <2>1
  <2>3. \A u \in Threads : \A k \in 1 .. Len(frames[u]) :
          frames[u][k].locked => k \in 1 .. Len(frames'[u]) /\ frames'[u][k].locked
    BY <2>1
  <2>4. QED BY <1>0, <1>3, <2>2, <2>3 DEF SerialExclusion
<1>4. ASSUME frames[t] # <<>>, Pop(t),
             mutex' = IF Top(t).locked THEN NULL ELSE mutex
      PROVE  SerialExclusion'
  <2>1. /\ \A u \in Threads :
             Len(frames'[u]) = IF u = t THEN Len(frames[u]) - 1 ELSE Len(frames[u])
        /\ \A u \in Threads : \A k \in 1 .. Len(frames'[u]) :
             k \in 1 .. Len(frames[u]) /\ frames'[u][k] = frames[u][k]
    BY <1>0, <1>4, PopEffect
  <2>2. CASE Top(t).locked
    <3>1. mutex = t
      BY <1>1, <1>4, <2>2 DEF SerialExclusion
    <3>2. ASSUME NEW u \in Threads, NEW k \in 1 .. Len(frames'[u]), frames'[u][k].locked
          PROVE  FALSE
      <4>1. k \in 1 .. Len(frames[u]) /\ frames[u][k].locked
        BY <2>1, <3>2
      <4>2. u = t
        BY <3>1, <4>1 DEF SerialExclusion
      <4>3. k = Len(frames[t])
        BY <1>1, <1>4, <2>2, <4>1, <4>2 DEF SerialExclusion
      <4>4. QED BY <1>0, <2>1, <4>2, <4>3
    <3>3. QED BY <1>4, <2>2, <3>2 DEF SerialExclusion
  <2>3. CASE ~Top(t).locked
    <3>1. \A u \in Threads : \A k \in 1 .. Len(frames[u]) :
            frames[u][k].locked => k \in 1 .. Len(frames'[u]) /\ frames'[u][k].locked
      BY <1>0, <1>1, <1>4, <2>1, <2>3
    <3>2. \A u \in Threads : \A k \in 1 .. Len(frames'[u]) :
            frames'[u][k].locked => k \in 1 .. Len(frames[u]) /\ frames[u][k].locked
      BY <2>1
    <3>3. QED BY <1>0, <1>4, <2>3, <3>1, <3>2 DEF SerialExclusion
  <2>4. QED BY <2>2, <2>3
<1>5. ASSUME UNCHANGED mutex, NEW f \in Frame, f.locked = FALSE, Push(t, f)
      PROVE  SerialExclusion'
  <2>1. /\ \A u \in Threads :
             Len(frames'[u]) = IF u = t THEN Len(frames[u]) + 1 ELSE Len(frames[u])
        /\ \A u \in Threads : \A k \in 1 .. Len(frames[u]) : frames'[u][k] = frames[u][k]
        /\ frames'[t][Len(frames[t]) + 1] = f
    BY <1>0, <1>5, PushEffect
  <2>2. \A u \in Threads : \A k \in 1 .. Len(frames'[u]) :
          frames'[u][k].locked => k \in 1 .. Len(frames[u]) /\ frames[u][k].locked
    BY <1>0, <1>5, <2>1
  <2>3. \A u \in Threads : \A k \in 1 .. Len(frames[u]) :
          frames[u][k].locked => k \in 1 .. Len(frames'[u]) /\ frames'[u][k].locked
    BY <1>0, <2>1
  <2>4. QED BY <1>0, <1>5, <2>2, <2>3 DEF SerialExclusion
<1>6. CASE Lock(t)
  <2>1. frames[t] # <<>> /\ mutex = NULL /\ mutex' = t
    BY <1>6 DEF Lock, At
  <2>2. \A u \in Threads : \A k \in 1 .. Len(frames[u]) : ~frames[u][k].locked
    BY <1>0, <2>1 DEF SerialExclusion
  <2>3. /\ \A u \in Threads : Len(frames'[u]) = Len(frames[u])
        /\ \A u \in Threads : \A k \in 1 .. Len(frames[u]) :
             frames'[u][k].locked <=> (u = t /\ k = Len(frames[t]))
    BY <1>0, <1>6, <2>1, <2>2, LockEffect
  <2>4. QED BY <1>1, <2>1, <2>3 DEF SerialExclusion
<1>7. CASE WakeUp(t) \/ Enter(t) \/ FunctionReturns(t) \/ Joinable(t) \/ Join(t)
  <2>1. frames[t] # <<>> /\ UNCHANGED mutex
    BY <1>7 DEF WakeUp, Enter, FunctionReturns, Joinable, Join, At
  <2>2. \E p \in Executing : Goto(t, p)
    BY <1>7 DEF WakeUp, Enter, FunctionReturns, Joinable, Join, Start, Executing
  <2>3. QED BY <1>3, <2>1, <2>2
<1>8. CASE Leave(t)
  BY <1>4, <1>8 DEF Leave, At
<1>9. CASE CancelStore(t) \/ CancelJoinable(t) \/ Detach(t)
  <2>1. frames[t] # <<>> /\ UNCHANGED mutex /\ ~Top(t).locked
    BY <1>1, <1>9 DEF CancelStore, CancelJoinable, Detach, At, PastLock
  <2>2. UNCHANGED frames \/ Pop(t) \/ Goto(t, "still_joinable") \/ Goto(t, "detach")
    BY <1>9 DEF CancelStore, CancelJoinable, Detach
  <2>3. QED BY <1>2, <1>3, <1>4, <2>1, <2>2 DEF Cancelling
<1>10. CASE JoinFails(t)
  BY <1>2, <1>10 DEF JoinFails
<1>11. CASE UserStep(t)
  <2>1. \/ UNCHANGED <<mutex, frames>>
        \/ UNCHANGED mutex /\ Push(t, NewFrame("enter"))
        \/ UNCHANGED mutex /\ Push(t, NewFrame("sleep"))
        \/ \E x \in Objects :
             UNCHANGED mutex /\ Push(t, [obj |-> x, pc |-> "store", locked |-> FALSE])
    BY <1>11 DEF UserStep, SpawnFunction, SpawnThread, DelayThread, Defer, Cancel, Move,
                 MoveAssign, Synchronize, ThreadEnds, Objects
  <2>2. \/ UNCHANGED <<mutex, frames>>
        \/ UNCHANGED mutex /\ \E f \in Frame : f.locked = FALSE /\ Push(t, f)
    <3>1. Len(tasks) \in Nat
      BY <1>0, LenProperties DEF TypeOK, PlainTyped
    <3>2. \A p \in {"enter", "sleep"} : NewFrame(p) \in Frame /\ NewFrame(p).locked = FALSE
      BY <3>1 DEF NewFrame, Frame, Executing
    <3>3. \A x \in Objects : [obj |-> x, pc |-> "store", locked |-> FALSE] \in Frame
      BY <3>1 DEF Objects, Frame, Cancelling
    <3>4. QED BY <2>1, <3>2, <3>3
  <2>3. QED BY <1>2, <1>5, <2>2
<1>12. QED BY <1>6, <1>7, <1>8, <1>9, <1>10, <1>11 DEF LibraryStep

\* The calls of execute that took the lock exclude each other, however the plain
\* flag serial is set between a call's test of it and its release of the lock
\* (task.cpp:100-115), for any number of threads and any depth of nested calls.
THEOREM LockExclusive == Spec => []SerialExclusion
<1>1. Init => SerialExclusion
  <2>1. SUFFICES ASSUME Init PROVE SerialExclusion
    OBVIOUS
  <2>2. mutex = NULL
    BY <2>1 DEF Init
  <2>3. \A t \in Threads : Len(frames[t]) = 0
    BY <2>1 DEF Init
  <2>4. QED BY <2>2, <2>3 DEF SerialExclusion
<1>2. ASSUME FramesInv, SerialExclusion, [Next]_vars PROVE SerialExclusion'
  <2>1. CASE UNCHANGED vars
    BY <1>2, <2>1 DEF vars, SerialExclusion
  <2>2. CASE Finished
    BY <1>2, <2>2 DEF Finished, vars, SerialExclusion
  <2>3. QED BY <1>2, <2>1, <2>2, ExclusionNext DEF Next
<1>3. QED BY <1>1, <1>2, FramesAlways, PTL DEF Spec

-----------------------------------------------------------------------------
(* Ids.                                                                    *)

\* Ids through the constructor, the moves and all other steps.
LEMMA IdsNext ==
  ASSUME TypeOK, IdsGiven, IdsUnique, NEW t \in Threads, LibraryStep(t) \/ UserStep(t)
  PROVE  IdsGiven' /\ IdsUnique'
<1>0. /\ Len(tasks) \in Nat /\ next_id \in Nat
      /\ \A x \in Objects : tasks[x] \in TaskObject /\ tasks[x].id \in Nat
  <2>1. \A x \in Objects : tasks[x] \in TaskObject
    BY DEF TypeOK, PlainTyped, Objects
  <2>2. QED BY <2>1, LenProperties DEF TypeOK, PlainTyped, TaskObject
<1>1. ASSUME Len(tasks') = Len(tasks), next_id' = next_id,
             \A x \in Objects : tasks'[x].id = tasks[x].id /\ tasks'[x].moved = tasks[x].moved
      PROVE  IdsGiven' /\ IdsUnique'
  BY <1>1 DEF IdsGiven, IdsUnique, Objects
<1>2. ASSUME NEW op, NEW state \in {"RUNNING", "SUSPENDED"},
             NEW execu \in Managed \cup {"function"}, NewTask(op, state, execu)
      PROVE  IdsGiven' /\ IdsUnique'
  <2>1. /\ Len(tasks') = Len(tasks) + 1 /\ next_id' = next_id + 1
        /\ \A x \in Objects : tasks'[x] = tasks[x]
        /\ tasks'[Len(tasks) + 1].id = next_id
    <3>1. /\ Len(tasks') = Len(tasks) + 1 /\ next_id' = next_id + 1
          /\ \A x \in Objects : tasks'[x] = tasks[x]
          /\ tasks'[Len(tasks) + 1] = [id |-> next_id, state |-> state, execu |-> execu,
                                       by |-> op, runs |-> 0, moved |-> FALSE]
      BY <1>2, NewTaskEffect
    <3>2. QED BY <3>1
  <2>2. Objects' = Objects \cup {Len(tasks) + 1}
    BY <1>0, <2>1 DEF Objects
  <2>3. IdsGiven'
    BY <1>0, <2>1, <2>2 DEF IdsGiven
  <2>4. IdsUnique'
    BY <1>0, <2>1, <2>2 DEF IdsUnique, IdsGiven
  <2>5. QED BY <2>3, <2>4
<1>3. ASSUME NEW x \in Objects, Move(t, x) PROVE IdsGiven' /\ IdsUnique'
  <2>1. /\ Len(tasks') = Len(tasks) + 1 /\ next_id' = next_id
        /\ \A y \in Objects : y # x => tasks'[y] = tasks[y]
        /\ tasks'[x] = MovedFrom(tasks[x])
        /\ tasks'[Len(tasks) + 1] = tasks[x]
    BY <1>3, MoveEffect DEF Move
  <2>2. tasks'[x].moved
    BY <1>0, <2>1, MovedFromType
  <2>3. Objects' = Objects \cup {Len(tasks) + 1}
    BY <1>0, <2>1 DEF Objects
  <2>4. IdsGiven'
    BY <2>1, <2>2, <2>3 DEF IdsGiven
  <2>5. IdsUnique'
    BY <2>1, <2>2, <2>3 DEF IdsUnique
  <2>6. QED BY <2>4, <2>5
<1>4. ASSUME NEW x \in Objects, NEW y \in Objects, MoveAssign(t, x, y)
      PROVE  IdsGiven' /\ IdsUnique'
  <2>1. /\ Len(tasks') = Len(tasks) /\ next_id' = next_id
        /\ \A z \in Objects : z # x /\ z # y => tasks'[z] = tasks[z]
        /\ tasks'[x] = MovedFrom(tasks[x])
        /\ tasks'[y] = tasks[x]
    BY <1>4, MoveAssignEffect DEF MoveAssign
  <2>2. tasks'[x].moved
    BY <1>0, <2>1, MovedFromType
  <2>3. Objects' = Objects
    BY <2>1 DEF Objects
  <2>4. IdsGiven'
    BY <2>1, <2>2, <2>3 DEF IdsGiven
  <2>5. IdsUnique'
    BY <2>1, <2>2, <2>3 DEF IdsUnique
  <2>6. QED BY <2>4, <2>5
<1>5. CASE SpawnFunction(t)
  BY <1>2, <1>5 DEF SpawnFunction
<1>6. ASSUME NEW m \in Managed, SpawnThread(t, m) \/ DelayThread(t, m) PROVE IdsGiven' /\ IdsUnique'
  BY <1>2, <1>6 DEF SpawnThread, DelayThread
<1>7. ASSUME NEW execu \in Managed \cup {"function"}, Defer(t, execu) PROVE IdsGiven' /\ IdsUnique'
  BY <1>2, <1>7 DEF Defer
<1>8. CASE FunctionReturns(t)
  <2>1. /\ Len(tasks') = Len(tasks)
        /\ \A y \in Objects : y # Top(t).obj => tasks'[y] = tasks[y]
        /\ tasks'[Top(t).obj] = [tasks[Top(t).obj] EXCEPT !.runs = @ + 1]
    BY <1>8, ReturnsEffect
  <2>2. Top(t).obj \in Objects => /\ tasks'[Top(t).obj].id = tasks[Top(t).obj].id
                                  /\ tasks'[Top(t).obj].moved = tasks[Top(t).obj].moved
    BY <1>0, <2>1 DEF TaskObject
  <2>3. QED BY <1>1, <1>8, <2>1, <2>2 DEF FunctionReturns
<1>9. CASE CancelStore(t)
  <2>1. /\ Len(tasks') = Len(tasks)
        /\ \A y \in Objects : y # Top(t).obj => tasks'[y] = tasks[y]
        /\ tasks'[Top(t).obj] = [tasks[Top(t).obj] EXCEPT !.state = "CANCELLED"]
    BY <1>9, StoreEffect
  <2>2. Top(t).obj \in Objects => /\ tasks'[Top(t).obj].id = tasks[Top(t).obj].id
                                  /\ tasks'[Top(t).obj].moved = tasks[Top(t).obj].moved
    BY <1>0, <2>1 DEF TaskObject
  <2>3. QED BY <1>1, <1>9, <2>1, <2>2 DEF CancelStore
<1>10. ASSUME UNCHANGED <<tasks, next_id>> PROVE IdsGiven' /\ IdsUnique'
  BY <1>10 DEF IdsGiven, IdsUnique, Objects
<1>11. CASE LibraryStep(t)
  BY <1>8, <1>9, <1>10, <1>11
  DEF LibraryStep, WakeUp, Enter, Lock, Joinable, Join, JoinFails, Leave, CancelJoinable, Detach
<1>12. CASE UserStep(t)
  BY <1>3, <1>4, <1>5, <1>6, <1>7, <1>10, <1>12
  DEF UserStep, Cancel, Synchronize, ThreadEnds, Objects
<1>13. QED BY <1>11, <1>12

\* However tasks are moved, also onto each other, no two that hold work have one
\* id, for any number of task objects (task.cpp:8-33).
THEOREM IdsDistinct == Spec => []IdsUnique
<1>1. Init => IdsGiven /\ IdsUnique
  <2>1. Init => Objects = {}
    BY DEF Init, Objects
  <2>2. QED BY <2>1 DEF IdsGiven, IdsUnique
<1>2. ASSUME FramesInv, IdsGiven /\ IdsUnique, [Next]_vars PROVE (IdsGiven /\ IdsUnique)'
  <2>1. CASE UNCHANGED vars
    BY <1>2, <2>1 DEF vars, IdsGiven, IdsUnique, Objects
  <2>2. CASE Finished
    BY <1>2, <2>2 DEF Finished, vars, IdsGiven, IdsUnique, Objects
  <2>3. QED BY <1>2, <2>1, <2>2, IdsNext DEF Next, FramesInv
<1>3. QED BY <1>1, <1>2, FramesAlways, PTL DEF Spec

-----------------------------------------------------------------------------
(* A call does its work before it returns.                                 *)

\* A thread that is over stays so, and a thread is joined only once it has ended.
LEMMA OverNext ==
  ASSUME FramesInv, JoinedEnded, NEW t \in Threads, LibraryStep(t) \/ UserStep(t)
  PROVE  /\ JoinedEnded'
         /\ \A m \in Managed : Over(m) => Over(m)'
<1>0. handle \in [Managed -> {"joinable", "joined", "detached"}]
  BY DEF FramesInv, TypeOK, PlainTyped
<1>1. CASE UNCHANGED <<handle, alive>>
  BY <1>1 DEF JoinedEnded, Over
<1>2. CASE Join(t)
  BY <1>0, <1>2 DEF Join, JoinedEnded, Over
<1>3. CASE Detach(t)
  BY <1>0, <1>3 DEF Detach, JoinedEnded, Over
<1>4. CASE ThreadEnds(t)
  BY <1>4 DEF ThreadEnds, JoinedEnded, Over
<1>5. CASE LibraryStep(t)
  BY <1>1, <1>2, <1>3, <1>5
  DEF LibraryStep, WakeUp, Enter, Lock, FunctionReturns, Joinable, JoinFails, Leave,
      CancelStore, CancelJoinable
<1>6. CASE UserStep(t)
  BY <1>1, <1>4, <1>6
  DEF UserStep, SpawnFunction, SpawnThread, DelayThread, Defer, Cancel, Move, MoveAssign,
      Synchronize
<1>7. QED BY <1>5, <1>6

\* A returned task is one that no execute works on.
LEMMA ReturnedMeans ==
  ASSUME TypeOK, NEW x
  PROVE  Returned(x) <=> \A t \in Threads : \A k \in 1 .. Len(frames[t]) :
                           frames[t][k].obj = x => frames[t][k].pc \notin Executing
<1>1. \A t \in Threads : \A k \in 1 .. Len(frames[t]) :
        frames[t][k].pc \in Executing \cup Cancelling
  BY TaskOfFrame DEF Frame
<1>2. QED BY <1>1 DEF Returned, Executing, Cancelling

\* A task whose call is about to return is settled.
LEMMA LeaveSettles ==
  ASSUME NEW o, Progress(o, "leave")
  PROVE  Settled(o)
  BY TaskAssumption DEF Progress, Settled, Managed

\* A task that was moved from is settled.
LEMMA MovedSettled ==
  ASSUME NEW o \in TaskObject
  PROVE  Settled(MovedFrom(o))
  BY MovedFromType, TaskAssumption DEF Settled, Managed

\* Progress and settlement outlast a step that keeps the object.
LEMMA KeptAcross ==
  ASSUME \A m \in Managed : Over(m) => Over(m)', NEW o, NEW at
  PROVE  /\ Progress(o, at) => Progress(o, at)'
         /\ Settled(o) => Settled(o)'
<1>1. Progress(o, at) => Progress(o, at)'
  BY DEF Progress
<1>2. Settled(o) => Settled(o)'
  BY DEF Settled
<1>3. QED BY <1>1, <1>2

\* A call that a step does not move keeps its progress.
LEMMA CallKept ==
  ASSUME CallProgress, \A m \in Managed : Over(m) => Over(m)',
         NEW u \in Threads, NEW k \in 1 .. Len(frames[u]),
         frames'[u][k].obj = frames[u][k].obj, frames'[u][k].pc = frames[u][k].pc,
         frames[u][k].pc \in Executing =>
           tasks'[frames[u][k].obj] = tasks[frames[u][k].obj]
  PROVE  CallOK(frames[u][k])'
<1>1. SUFFICES ASSUME frames'[u][k].pc \in Executing
               PROVE  /\ tasks'[frames[u][k].obj].state # "CANCELLED"
                      /\ Progress(tasks[frames[u][k].obj], frames[u][k].pc)'
  BY DEF CallOK
<1>2. PICK o, at : o = tasks[frames[u][k].obj] /\ at = frames[u][k].pc
  OBVIOUS
<1>3. o.state # "CANCELLED" /\ Progress(o, at)
  BY <1>1, <1>2 DEF CallProgress, CallOK
<1>4. Progress(o, at)'
  BY <1>3, KeptAcross
<1>5. o = tasks'[frames'[u][k].obj] /\ at = frames'[u][k].pc
  BY <1>1, <1>2
<1>6. QED BY <1>3, <1>4, <1>5

\* A task that was returned and that a step does not touch stays settled.
LEMMA SettledKept ==
  ASSUME \A m \in Managed : Over(m) => Over(m)', NEW x,
         Settled(tasks[x]), NEW y, tasks'[y] = tasks[x]
  PROVE  Settled(tasks[y])'
<1>1. PICK o : o = tasks[x]
  OBVIOUS
<1>2. Settled(o)'
  BY <1>1, KeptAcross
<1>3. QED BY <1>1, <1>2

\* A new task is executed, from its first step on.
LEMMA SpawnProgress ==
  ASSUME FramesInv, FramesInv', ProgressInv, \A m \in Managed : Over(m) => Over(m)',
         NEW t \in Threads, NEW op, NEW state \in {"RUNNING", "SUSPENDED"},
         NEW execu \in Managed \cup {"function"}, NewTask(op, state, execu),
         NEW p \in {"enter", "sleep"}, Push(t, NewFrame(p)),
         \/ execu = "function" /\ op \in {"spawn", "delay"} /\ p = "enter"
         \/ execu \in Managed /\ op \in {"spawn_thread", "delay_thread"}
  PROVE  CallProgress' /\ ReturnedSettled'
<1>1. /\ Len(tasks') = Len(tasks) + 1 /\ Len(tasks) \in Nat
      /\ \A x \in Objects : tasks'[x] = tasks[x]
      /\ tasks'[Len(tasks) + 1] = [id |-> next_id, state |-> state, execu |-> execu,
                                   by |-> op, runs |-> 0, moved |-> FALSE]
  BY NewTaskEffect DEF FramesInv
<1>2. PICK f \in Frame : f = NewFrame(p) /\ f.obj = Len(tasks) + 1 /\ f.pc = p
  <2>1. NewFrame(p) \in Frame
    BY <1>1 DEF NewFrame, Frame, Executing
  <2>2. NewFrame(p).obj = Len(tasks) + 1 /\ NewFrame(p).pc = p
    BY DEF NewFrame
  <2>3. QED BY <2>1, <2>2
<1>3. /\ \A u \in Threads :
           Len(frames'[u]) = IF u = t THEN Len(frames[u]) + 1 ELSE Len(frames[u])
      /\ \A u \in Threads : \A k \in 1 .. Len(frames[u]) : frames'[u][k] = frames[u][k]
      /\ frames'[t][Len(frames[t]) + 1] = f
  BY <1>2, PushEffect DEF FramesInv
<1>4. \A u \in Threads : Len(frames[u]) \in Nat
  BY LenProperties DEF FramesInv, TypeOK, FramesTyped
<1>5. CallProgress'
  <2>1. SUFFICES ASSUME NEW u \in Threads, NEW k \in 1 .. Len(frames'[u])
                 PROVE  CallOK(frames[u][k])'
    BY DEF CallProgress
  <2>2. CASE k \in 1 .. Len(frames[u])
    <3>1. frames[u][k].obj \in Objects
      BY <2>2, TaskOfFrame DEF FramesInv
    <3>2. QED BY <1>1, <1>3, <2>2, <3>1, CallKept DEF ProgressInv
  <2>3. CASE u = t /\ k = Len(frames[t]) + 1
    <3>1. frames'[u][k].obj = Len(tasks) + 1 /\ frames'[u][k].pc = p
      BY <1>2, <1>3, <2>3
    <3>2. tasks'[Len(tasks) + 1].state # "CANCELLED"
      BY <1>1
    <3>3. PICK o : o = tasks'[Len(tasks) + 1]
      OBVIOUS
    <3>4. o.execu = execu /\ o.by = op /\ o.runs = 0
      BY <1>1, <3>3
    <3>5. Progress(o, p)'
      BY <3>4 DEF Progress
    <3>6. QED BY <3>1, <3>2, <3>3, <3>5 DEF CallOK
  <2>4. QED BY <1>3, <1>4, <2>2, <2>3
<1>6. ReturnedSettled'
  <2>1. SUFFICES ASSUME NEW x \in Objects', Returned(x)' PROVE Settled(tasks[x])'
    BY DEF ReturnedSettled
  <2>2. \A u \in Threads : \A k \in 1 .. Len(frames'[u]) :
          frames'[u][k].obj = x => frames'[u][k].pc \notin Executing
    BY <2>1 DEF Returned, Executing
  <2>3. x # Len(tasks) + 1
    BY <1>2, <1>3, <1>4, <2>2 DEF Executing
  <2>4. x \in Objects
    BY <1>1, <2>3 DEF Objects
  <2>5. Returned(x)
    BY <1>3, <1>4, <2>2, ReturnedMeans DEF FramesInv
  <2>6. QED BY <1>1, <2>4, <2>5, SettledKept DEF ProgressInv, ReturnedSettled
<1>7. QED BY <1>5, <1>6

\* The steps of user code.
LEMMA ProgressUser ==
  ASSUME FramesInv, FramesInv', ProgressInv, NEW t \in Threads, UserStep(t)
  PROVE  ProgressInv'
<1>0. /\ TypeOK /\ Len(tasks) \in Nat
      /\ \A u \in Threads : Len(frames[u]) \in Nat
      /\ \A x \in Objects : tasks[x] \in TaskObject
  BY LenProperties DEF FramesInv, TypeOK, PlainTyped, FramesTyped, Objects
<1>1. JoinedEnded' /\ \A m \in Managed : Over(m) => Over(m)'
  BY OverNext DEF ProgressInv
<1>2. SUFFICES CallProgress' /\ ReturnedSettled'
  BY <1>1 DEF ProgressInv
<1>3. CallProgress /\ ReturnedSettled
  BY DEF ProgressInv
<1>4. ASSUME UNCHANGED frames,
             \A u \in Threads : \A k \in 1 .. Len(frames[u]) :
               tasks'[frames[u][k].obj] = tasks[frames[u][k].obj]
      PROVE  CallProgress'
  <2>1. SUFFICES ASSUME NEW u \in Threads, NEW k \in 1 .. Len(frames'[u])
                 PROVE  CallOK(frames[u][k])'
    BY DEF CallProgress
  <2>2. QED BY <1>1, <1>3, <1>4, <2>1, CallKept
<1>5. ASSUME UNCHANGED <<frames, tasks>> PROVE CallProgress' /\ ReturnedSettled'
  <2>1. CallProgress'
    BY <1>4, <1>5
  <2>2. SUFFICES ASSUME NEW x \in Objects', Returned(x)' PROVE Settled(tasks[x])'
    BY <2>1 DEF ReturnedSettled
  <2>3. x \in Objects /\ Returned(x) /\ tasks'[x] = tasks[x]
    BY <1>5, <2>2 DEF Objects, Returned
  <2>4. QED BY <1>1, <1>3, <2>3, SettledKept DEF ReturnedSettled
<1>6. CASE SpawnFunction(t)
  <2>1. PICK op \in {"spawn", "delay"}, state \in {"RUNNING", "SUSPENDED"} :
          NewTask(op, state, "function")
    BY <1>6 DEF SpawnFunction
  <2>2. Push(t, NewFrame("enter"))
    BY <1>6 DEF SpawnFunction
  <2>3. QED BY <1>1, <2>1, <2>2, SpawnProgress
<1>7. ASSUME NEW m \in Managed, SpawnThread(t, m) PROVE CallProgress' /\ ReturnedSettled'
  <2>1. NewTask("spawn_thread", "RUNNING", m) /\ Push(t, NewFrame("enter"))
    BY <1>7 DEF SpawnThread
  <2>2. QED BY <1>1, <2>1, SpawnProgress
<1>8. ASSUME NEW m \in Managed, DelayThread(t, m) PROVE CallProgress' /\ ReturnedSettled'
  <2>1. NewTask("delay_thread", "SUSPENDED", m) /\ Push(t, NewFrame("sleep"))
    BY <1>8 DEF DelayThread
  <2>2. QED BY <1>1, <2>1, SpawnProgress
<1>9. ASSUME NEW execu \in Managed \cup {"function"}, Defer(t, execu)
      PROVE  CallProgress' /\ ReturnedSettled'
  <2>1. /\ Len(tasks') = Len(tasks) + 1
        /\ \A x \in Objects : tasks'[x] = tasks[x]
        /\ tasks'[Len(tasks) + 1] = [id |-> next_id, state |-> "SUSPENDED", execu |-> execu,
                                     by |-> "defer", runs |-> 0, moved |-> FALSE]
        /\ UNCHANGED frames
    BY <1>0, <1>9, NewTaskEffect DEF Defer
  <2>2. CallProgress'
    BY <1>0, <1>4, <2>1, TaskOfFrame
  <2>3. SUFFICES ASSUME NEW x \in Objects', Returned(x)' PROVE Settled(tasks[x])'
    BY <2>2 DEF ReturnedSettled
  <2>4. CASE x = Len(tasks) + 1
    <3>1. PICK o : o = tasks'[x]
      OBVIOUS
    <3>2. o.by = "defer" /\ o.runs = 0
      BY <2>1, <2>4, <3>1
    <3>3. Settled(o)'
      BY <3>2 DEF Settled
    <3>4. QED BY <3>1, <3>3
  <2>5. CASE x \in Objects
    <3>1. Returned(x) /\ tasks'[x] = tasks[x]
      BY <2>1, <2>3, <2>5 DEF Returned
    <3>2. QED BY <1>1, <1>3, <2>5, <3>1, SettledKept DEF ReturnedSettled
  <2>6. QED BY <1>0, <2>1, <2>4, <2>5 DEF Objects
<1>10. ASSUME NEW x \in Objects, Cancel(t, x) PROVE CallProgress' /\ ReturnedSettled'
  <2>1. PICK f \in Frame : f = [obj |-> x, pc |-> "store", locked |-> FALSE] /\ f.pc \notin Executing
    <3>1. [obj |-> x, pc |-> "store", locked |-> FALSE] \in Frame
      BY <1>0 DEF Frame, Cancelling, Objects
    <3>2. QED BY <3>1 DEF Executing
  <2>2. /\ \A u \in Threads :
             Len(frames'[u]) = IF u = t THEN Len(frames[u]) + 1 ELSE Len(frames[u])
        /\ \A u \in Threads : \A k \in 1 .. Len(frames[u]) : frames'[u][k] = frames[u][k]
        /\ frames'[t][Len(frames[t]) + 1] = f
        /\ tasks' = tasks
    BY <1>0, <1>10, <2>1, PushEffect DEF Cancel
  <2>3. CallProgress'
    <3>1. SUFFICES ASSUME NEW u \in Threads, NEW k \in 1 .. Len(frames'[u])
                   PROVE  CallOK(frames[u][k])'
      BY DEF CallProgress
    <3>2. CASE k \in 1 .. Len(frames[u])
      BY <1>1, <1>3, <2>2, <3>2, CallKept
    <3>3. CASE u = t /\ k = Len(frames[t]) + 1
      BY <2>1, <2>2, <3>3 DEF CallOK
    <3>4. QED BY <1>0, <2>2, <3>2, <3>3
  <2>4. SUFFICES ASSUME NEW y \in Objects', Returned(y)' PROVE Settled(tasks[y])'
    BY <2>3 DEF ReturnedSettled
  <2>5. y \in Objects /\ tasks'[y] = tasks[y]
    BY <2>2, <2>4 DEF Objects
  <2>6. Returned(y)
    BY <1>0, <2>2, <2>4 DEF Returned
  <2>7. QED BY <1>1, <1>3, <2>5, <2>6, SettledKept DEF ReturnedSettled
<1>11. ASSUME NEW x \in Objects, Move(t, x) PROVE CallProgress' /\ ReturnedSettled'
  <2>1. /\ Len(tasks') = Len(tasks) + 1
        /\ \A y \in Objects : y # x => tasks'[y] = tasks[y]
        /\ tasks'[x] = MovedFrom(tasks[x])
        /\ tasks'[Len(tasks) + 1] = tasks[x]
        /\ UNCHANGED frames
    BY <1>0, <1>11, MoveEffect DEF Move
  <2>2. \A u \in Threads : \A k \in 1 .. Len(frames[u]) :
          frames[u][k].obj \in Objects /\ frames[u][k].obj # x
    BY <1>0, <1>11, TaskOfFrame DEF Move, Unused
  <2>3. CallProgress'
    BY <1>4, <2>1, <2>2
  <2>4. SUFFICES ASSUME NEW y \in Objects', Returned(y)' PROVE Settled(tasks[y])'
    BY <2>3 DEF ReturnedSettled
  <2>5. Returned(x)
    BY <2>2 DEF Returned
  <2>6. CASE y = Len(tasks) + 1
    BY <1>1, <1>3, <2>1, <2>5, <2>6, SettledKept DEF ReturnedSettled
  <2>7. CASE y = x
    <3>1. PICK o \in TaskObject : o = tasks[x]
      BY <1>0
    <3>2. Settled(MovedFrom(o))'
      <4>1. PICK q : q = MovedFrom(o)
        OBVIOUS
      <4>2. Settled(q)'
        BY <1>1, <3>1, <4>1, MovedSettled, KeptAcross
      <4>3. QED BY <4>1, <4>2
    <3>3. QED BY <2>1, <2>7, <3>1, <3>2
  <2>8. CASE y \in Objects /\ y # x
    <3>1. Returned(y)
      BY <2>1, <2>4 DEF Returned
    <3>2. QED BY <1>1, <1>3, <2>1, <2>8, <3>1, SettledKept DEF ReturnedSettled
  <2>9. QED BY <1>0, <2>1, <2>6, <2>7, <2>8 DEF Objects
<1>12. ASSUME NEW x \in Objects, NEW y \in Objects, MoveAssign(t, x, y)
       PROVE  CallProgress' /\ ReturnedSettled'
  <2>1. /\ Len(tasks') = Len(tasks)
        /\ \A z \in Objects : z # x /\ z # y => tasks'[z] = tasks[z]
        /\ tasks'[x] = MovedFrom(tasks[x])
        /\ tasks'[y] = tasks[x]
        /\ UNCHANGED frames
    BY <1>0, <1>12, MoveAssignEffect DEF MoveAssign
  <2>2. \A u \in Threads : \A k \in 1 .. Len(frames[u]) :
          frames[u][k].obj \in Objects /\ frames[u][k].obj # x /\ frames[u][k].obj # y
    BY <1>0, <1>12, TaskOfFrame DEF MoveAssign, Unused
  <2>3. CallProgress'
    BY <1>4, <2>1, <2>2
  <2>4. SUFFICES ASSUME NEW z \in Objects', Returned(z)' PROVE Settled(tasks[z])'
    BY <2>3 DEF ReturnedSettled
  <2>5. Returned(x)
    BY <2>2 DEF Returned
  <2>6. CASE z = y
    BY <1>1, <1>3, <2>1, <2>5, <2>6, SettledKept DEF ReturnedSettled
  <2>7. CASE z = x
    <3>1. PICK o \in TaskObject : o = tasks[x]
      BY <1>0
    <3>2. Settled(MovedFrom(o))'
      <4>1. PICK q : q = MovedFrom(o)
        OBVIOUS
      <4>2. Settled(q)'
        BY <1>1, <3>1, <4>1, MovedSettled, KeptAcross
      <4>3. QED BY <4>1, <4>2
    <3>3. QED BY <2>1, <2>7, <3>1, <3>2
  <2>8. CASE z \in Objects /\ z # x /\ z # y
    <3>1. Returned(z)
      BY <2>1, <2>4 DEF Returned
    <3>2. QED BY <1>1, <1>3, <2>1, <2>8, <3>1, SettledKept DEF ReturnedSettled
  <2>9. QED BY <2>1, <2>6, <2>7, <2>8 DEF Objects
<1>13. CASE ThreadEnds(t)
  BY <1>5, <1>13 DEF ThreadEnds
<1>14. ASSUME NEW value \in BOOLEAN, Synchronize(t, value) PROVE CallProgress' /\ ReturnedSettled'
  BY <1>5, <1>14 DEF Synchronize
<1>15. QED
  BY <1>6, <1>7, <1>8, <1>9, <1>10, <1>11, <1>12, <1>13, <1>14 DEF UserStep, Objects

\* A call of execute moves on.
LEMMA GotoProgress ==
  ASSUME FramesInv, ProgressInv, \A m \in Managed : Over(m) => Over(m)',
         NEW t \in Threads, frames[t] # <<>>, Top(t).pc \in Executing,
         NEW p \in Executing,
         \A u \in Threads : Len(frames'[u]) = Len(frames[u]),
         \A u \in Threads : \A k \in 1 .. Len(frames[u]) :
           /\ frames'[u][k].obj = frames[u][k].obj
           /\ frames'[u][k].pc = IF u = t /\ k = Len(frames[t]) THEN p ELSE frames[u][k].pc,
         Len(tasks') = Len(tasks),
         \A y \in Objects : y # Top(t).obj => tasks'[y] = tasks[y],
         tasks'[Top(t).obj].state # "CANCELLED",
         NEW o, o = tasks'[Top(t).obj], Progress(o, p)'
  PROVE  CallProgress' /\ ReturnedSettled'
<1>0. /\ Top(t) = frames[t][Len(frames[t])]
      /\ Len(frames[t]) \in 1 .. Len(frames[t])
  BY TopType DEF FramesInv
<1>1. CallProgress'
  <2>1. SUFFICES ASSUME NEW u \in Threads, NEW k \in 1 .. Len(frames[u])
                 PROVE  CallOK(frames[u][k])'
    BY DEF CallProgress
  <2>2. CASE u = t /\ k = Len(frames[t])
    BY <1>0, <2>2 DEF CallOK
  <2>3. CASE ~(u = t /\ k = Len(frames[t]))
    <3>1. frames[u][k].obj \in Objects /\ frames[u][k].obj # Top(t).obj
      BY <1>0, <2>3, TaskOfFrame DEF FramesInv, SoleCall
    <3>2. QED BY <2>3, <3>1, CallKept DEF ProgressInv
  <2>4. QED BY <2>2, <2>3
<1>2. ReturnedSettled'
  <2>1. SUFFICES ASSUME NEW x \in Objects', Returned(x)' PROVE Settled(tasks[x])'
    BY DEF ReturnedSettled
  <2>2. \A u \in Threads : \A k \in 1 .. Len(frames[u]) :
          frames[u][k].obj = x => frames'[u][k].pc \notin Executing
    BY <2>1 DEF Returned, Executing
  <2>3. x \in Objects /\ x # Top(t).obj
    BY <1>0, <2>1, <2>2 DEF Objects
  <2>4. Returned(x)
    BY <1>0, <2>2, <2>3, ReturnedMeans DEF FramesInv
  <2>5. QED BY <2>3, <2>4, SettledKept DEF ProgressInv, ReturnedSettled
<1>3. QED BY <1>1, <1>2

\* A step that neither moves a call of execute nor touches its task.
LEMMA CancelProgress ==
  ASSUME FramesInv, ProgressInv, \A m \in Managed : Over(m) => Over(m)',
         \A u \in Threads : \A k \in 1 .. Len(frames'[u]) :
           frames'[u][k].pc \in Executing =>
             /\ k \in 1 .. Len(frames[u])
             /\ frames'[u][k].obj = frames[u][k].obj /\ frames'[u][k].pc = frames[u][k].pc,
         \A u \in Threads : \A k \in 1 .. Len(frames[u]) :
           frames[u][k].pc \in Executing =>
             /\ k \in 1 .. Len(frames'[u])
             /\ frames'[u][k].obj = frames[u][k].obj /\ frames'[u][k].pc = frames[u][k].pc
             /\ tasks'[frames[u][k].obj] = tasks[frames[u][k].obj],
         Len(tasks') = Len(tasks),
         \A x \in Objects : Settled(tasks[x]) => Settled(tasks[x])'
  PROVE  CallProgress' /\ ReturnedSettled'
<1>1. CallProgress'
  <2>1. SUFFICES ASSUME NEW u \in Threads, NEW k \in 1 .. Len(frames'[u]),
                        frames'[u][k].pc \in Executing
                 PROVE  CallOK(frames[u][k])'
    BY DEF CallProgress, CallOK
  <2>2. k \in 1 .. Len(frames[u]) /\ frames[u][k].pc \in Executing
    BY <2>1
  <2>3. QED BY <2>2, CallKept DEF ProgressInv
<1>2. ReturnedSettled'
  <2>1. SUFFICES ASSUME NEW x \in Objects', Returned(x)' PROVE Settled(tasks[x])'
    BY DEF ReturnedSettled
  <2>2. \A u \in Threads : \A k \in 1 .. Len(frames'[u]) :
          frames'[u][k].obj = x => frames'[u][k].pc \notin Executing
    BY <2>1 DEF Returned, Executing
  <2>3. Returned(x)
    BY <2>2, ReturnedMeans DEF FramesInv
  <2>4. QED BY <2>1, <2>3 DEF ProgressInv, ReturnedSettled, Objects
<1>3. QED BY <1>1, <1>2

\* The steps of the library.
LEMMA ProgressLibrary ==
  ASSUME FramesInv, ProgressInv, NEW t \in Threads, LibraryStep(t)
  PROVE  ProgressInv'
<1>0. /\ TypeOK /\ Len(tasks) \in Nat
      /\ \A u \in Threads : Len(frames[u]) \in Nat
      /\ \A x \in Objects : tasks[x] \in TaskObject
  BY LenProperties DEF FramesInv, TypeOK, PlainTyped, FramesTyped, Objects
<1>1. JoinedEnded' /\ \A m \in Managed : Over(m) => Over(m)'
  BY OverNext DEF ProgressInv
<1>2. SUFFICES CallProgress' /\ ReturnedSettled'
  BY <1>1 DEF ProgressInv
<1>3. frames[t] # <<>>
  BY DEF LibraryStep, WakeUp, Enter, Lock, FunctionReturns, Joinable, Join, JoinFails,
         Leave, CancelStore, CancelJoinable, Detach, At
<1>4. /\ Top(t) = frames[t][Len(frames[t])]
      /\ Len(frames[t]) \in 1 .. Len(frames[t])
      /\ Top(t).obj \in Objects
      /\ CallOK(Top(t))
  BY <1>0, <1>3, TopType DEF ProgressInv, CallProgress
<1>5. PICK x, o : x = Top(t).obj /\ o = tasks[x]
  OBVIOUS
<1>6. ASSUME NEW p \in Executing, Goto(t, p), Top(t).pc \in Executing, tasks' = tasks,
             Progress(o, Top(t).pc) => Progress(o, p)'
      PROVE  CallProgress' /\ ReturnedSettled'
  <2>1. /\ \A u \in Threads : Len(frames'[u]) = Len(frames[u])
        /\ \A u \in Threads : \A k \in 1 .. Len(frames[u]) :
             /\ frames'[u][k].obj = frames[u][k].obj
             /\ frames'[u][k].pc = IF u = t /\ k = Len(frames[t]) THEN p ELSE frames[u][k].pc
    BY <1>0, <1>3, <1>6, GotoEffect
  <2>2. o.state # "CANCELLED" /\ Progress(o, Top(t).pc)
    BY <1>4, <1>5, <1>6 DEF CallOK
  <2>3. QED BY <1>1, <1>3, <1>5, <1>6, <2>1, <2>2, GotoProgress
<1>7. ASSUME Top(t).pc \in Executing
      PROVE  o.state # "CANCELLED" /\ Progress(o, Top(t).pc)
  BY <1>4, <1>5, <1>7 DEF CallOK
<1>8. ASSUME Top(t).pc \notin Executing
      PROVE  \A u \in Threads : \A k \in 1 .. Len(frames[u]) :
               frames[u][k].pc \in Executing =>
                 /\ frames[u][k].obj \in Objects /\ frames[u][k].obj # x
                 /\ ~(u = t /\ k = Len(frames[t]))
  BY <1>0, <1>4, <1>5, <1>8, TaskOfFrame DEF FramesInv, SoleCall
<1>9. CASE WakeUp(t)
  <2>1. Goto(t, "enter") /\ Top(t).pc = "sleep" /\ tasks' = tasks
    BY <1>9 DEF WakeUp, At
  <2>2. Progress(o, "sleep") => Progress(o, "enter")'
    BY DEF Progress
  <2>3. QED BY <1>6, <2>1, <2>2 DEF Executing
<1>10. CASE Enter(t)
  <2>1. Top(t).pc = "enter" /\ tasks' = tasks
    BY <1>10 DEF Enter, At
  <2>2. o.state # "CANCELLED" /\ Progress(o, "enter")
    BY <1>7, <2>1 DEF Executing
  <2>3. PICK p : p = IF serial THEN "lock" ELSE Start(x)
    OBVIOUS
  <2>4. Goto(t, p)
    BY <1>5, <1>10, <2>2, <2>3 DEF Enter
  <2>5. p \in Executing /\ Progress(o, p)'
    <3>1. p \in {"lock", "body", "joinable"} /\ (p = "body" => o.execu = "function")
          /\ (p = "joinable" => o.execu # "function")
      BY <1>5, <2>3 DEF Start
    <3>2. QED BY <2>2, <3>1, TaskAssumption DEF Progress, Executing, Managed
  <2>6. QED BY <1>6, <2>1, <2>4, <2>5 DEF Executing
<1>11. CASE Lock(t)
  <2>1. Top(t).pc = "lock" /\ tasks' = tasks
    BY <1>11 DEF Lock, At
  <2>2. o.state # "CANCELLED" /\ Progress(o, "lock")
    BY <1>7, <2>1 DEF Executing
  <2>3. PICK p : p = Start(x)
    OBVIOUS
  <2>4. p \in Executing /\ Progress(o, p)'
    <3>1. p \in {"body", "joinable"} /\ (p = "body" => o.execu = "function")
          /\ (p = "joinable" => o.execu # "function")
      BY <1>5, <2>3 DEF Start
    <3>2. QED BY <2>2, <3>1, TaskAssumption DEF Progress, Executing, Managed
  <2>5. /\ \A u \in Threads : Len(frames'[u]) = Len(frames[u])
        /\ \A u \in Threads : \A k \in 1 .. Len(frames[u]) :
             /\ frames'[u][k].obj = frames[u][k].obj
             /\ frames'[u][k].pc = IF u = t /\ k = Len(frames[t]) THEN p ELSE frames[u][k].pc
    <3>1. /\ \A u \in Threads : Len(frames'[u]) = Len(frames[u])
          /\ \A u \in Threads : \A k \in 1 .. Len(frames[u]) :
               IF u = t /\ k = Len(frames[t])
               THEN /\ frames'[u][k].obj = Top(t).obj
                    /\ frames'[u][k].pc = Start(Top(t).obj)
               ELSE frames'[u][k] = frames[u][k]
      BY <1>0, <1>3, <1>4, <1>11, LockEffect
    <3>2. ASSUME NEW u \in Threads, NEW k \in 1 .. Len(frames[u])
          PROVE  /\ frames'[u][k].obj = frames[u][k].obj
                 /\ frames'[u][k].pc = IF u = t /\ k = Len(frames[t]) THEN p ELSE frames[u][k].pc
      <4>1. CASE u = t /\ k = Len(frames[t])
        BY <1>3, <1>4, <1>5, <2>3, <3>1, <4>1
      <4>2. CASE ~(u = t /\ k = Len(frames[t]))
        BY <3>1, <4>2
      <4>3. QED BY <4>1, <4>2
    <3>3. QED BY <3>1, <3>2
  <2>6. QED BY <1>1, <1>3, <1>5, <2>1, <2>2, <2>4, <2>5, GotoProgress DEF Executing
<1>12. CASE FunctionReturns(t)
  <2>1. Top(t).pc = "body" /\ Goto(t, "leave")
    BY <1>12 DEF FunctionReturns, At
  <2>2. o.state # "CANCELLED" /\ Progress(o, "body")
    BY <1>7, <2>1 DEF Executing
  <2>3. /\ Len(tasks') = Len(tasks)
        /\ \A y \in Objects : y # Top(t).obj => tasks'[y] = tasks[y]
        /\ tasks'[x] = [o EXCEPT !.runs = @ + 1]
    BY <1>0, <1>5, <1>12, ReturnsEffect
  <2>4. PICK q : q = tasks'[x]
    OBVIOUS
  <2>5. /\ q.state = o.state /\ q.execu = o.execu /\ q.by = o.by /\ q.runs = o.runs + 1
    <3>1. o \in TaskObject
      BY <1>0, <1>4, <1>5
    <3>2. QED BY <2>3, <2>4, <3>1 DEF TaskObject
  <2>6. Progress(q, "leave")'
    BY <2>2, <2>5 DEF Progress
  <2>7. /\ \A u \in Threads : Len(frames'[u]) = Len(frames[u])
        /\ \A u \in Threads : \A k \in 1 .. Len(frames[u]) :
             /\ frames'[u][k].obj = frames[u][k].obj
             /\ frames'[u][k].pc = IF u = t /\ k = Len(frames[t]) THEN "leave"
                                   ELSE frames[u][k].pc
    BY <1>0, <1>3, <2>1, GotoEffect DEF Executing
  <2>8. q = tasks'[Top(t).obj] /\ tasks'[Top(t).obj].state # "CANCELLED"
    BY <1>5, <2>2, <2>4, <2>5
  <2>9. "leave" \in Executing /\ Top(t).pc \in Executing
    BY <2>1 DEF Executing
  <2>10. QED BY <1>1, <1>3, <2>3, <2>6, <2>7, <2>8, <2>9, GotoProgress
<1>13. CASE Joinable(t)
  <2>1. Top(t).pc = "joinable" /\ tasks' = tasks
    BY <1>13 DEF Joinable, At
  <2>2. Progress(o, "joinable")
    BY <1>7, <2>1 DEF Executing
  <2>3. PICK p : p = IF handle[o.execu] = "joinable" THEN "join" ELSE "leave"
    OBVIOUS
  <2>4. Goto(t, p)
    BY <1>5, <1>13, <2>3 DEF Joinable
  <2>5. p \in Executing /\ Progress(o, p)'
    <3>1. o.execu \in Managed /\ o.by \in {"spawn_thread", "delay_thread"}
      BY <2>2 DEF Progress
    <3>2. p = "leave" => Over(o.execu)
      <4>1. handle[o.execu] \in {"joinable", "joined", "detached"}
        BY <1>0, <3>1 DEF TypeOK, PlainTyped
      <4>2. QED BY <2>3, <3>1, <4>1 DEF ProgressInv, JoinedEnded, Over
    <3>3. p \in {"join", "leave"}
      BY <2>3
    <3>4. p = "leave" => Over(o.execu)'
      BY <1>1, <3>1, <3>2
    <3>5. QED BY <3>1, <3>3, <3>4 DEF Progress, Executing
  <2>6. QED BY <1>6, <2>1, <2>4, <2>5 DEF Executing
<1>14. CASE Join(t)
  <2>1. Top(t).pc = "join" /\ tasks' = tasks /\ Goto(t, "leave")
    BY <1>14 DEF Join, At
  <2>2. Progress(o, "join")
    BY <1>7, <2>1 DEF Executing
  <2>3. o.execu \in Managed /\ o.by \in {"spawn_thread", "delay_thread"}
    BY <2>2 DEF Progress
  <2>4. Over(o.execu)'
    BY <1>5, <1>14 DEF Join, Over
  <2>5. Progress(o, "leave")'
    BY <2>3, <2>4 DEF Progress
  <2>6. QED BY <1>6, <2>1, <2>5 DEF Executing
<1>15. ASSUME UNCHANGED <<frames, tasks>> PROVE CallProgress' /\ ReturnedSettled'
  <2>1. \A y \in Objects : Settled(tasks[y]) => Settled(tasks[y])'
    BY <1>1, <1>15, SettledKept
  <2>2. QED BY <1>1, <1>15, <2>1, CancelProgress
<1>16. CASE JoinFails(t)
  BY <1>15, <1>16 DEF JoinFails
<1>17. CASE Leave(t)
  <2>1. Top(t).pc = "leave" /\ tasks' = tasks /\ Pop(t)
    BY <1>17 DEF Leave, At
  <2>2. Progress(o, "leave")
    BY <1>7, <2>1 DEF Executing
  <2>3. /\ \A u \in Threads :
             Len(frames'[u]) = IF u = t THEN Len(frames[u]) - 1 ELSE Len(frames[u])
        /\ \A u \in Threads : \A k \in 1 .. Len(frames'[u]) :
             k \in 1 .. Len(frames[u]) /\ frames'[u][k] = frames[u][k]
    BY <1>0, <1>3, <2>1, PopEffect
  <2>4. CallProgress'
    <3>1. SUFFICES ASSUME NEW u \in Threads, NEW k \in 1 .. Len(frames'[u])
                   PROVE  CallOK(frames[u][k])'
      BY DEF CallProgress
    <3>2. QED BY <1>1, <2>1, <2>3, CallKept DEF ProgressInv
  <2>5. SUFFICES ASSUME NEW y \in Objects', Returned(y)' PROVE Settled(tasks[y])'
    BY <2>4 DEF ReturnedSettled
  <2>6. y \in Objects /\ tasks'[y] = tasks[y]
    BY <2>1, <2>5 DEF Objects
  <2>7. CASE y = x
    <3>1. Settled(o)
      BY <2>2, LeaveSettles
    <3>2. QED BY <1>1, <1>5, <2>6, <2>7, <3>1, SettledKept
  <2>8. CASE y # x
    <3>1. \A u \in Threads : \A k \in 1 .. Len(frames[u]) :
            frames[u][k].obj = y => k \in 1 .. Len(frames'[u])
      BY <1>0, <1>4, <1>5, <2>3, <2>8
    <3>2. Returned(y)
      BY <2>3, <2>5, <3>1 DEF Returned
    <3>3. QED BY <1>1, <2>6, <3>2, SettledKept DEF ProgressInv, ReturnedSettled
  <2>9. QED BY <2>7, <2>8
<1>18. ASSUME Top(t).pc \in Cancelling,
              Pop(t) \/ \E p \in Cancelling : Goto(t, p),
              Len(tasks') = Len(tasks),
              \A y \in Objects : y # x => tasks'[y] = tasks[y],
              \A y \in Objects : Settled(tasks[y]) => Settled(tasks[y])'
       PROVE  CallProgress' /\ ReturnedSettled'
  <2>1. /\ Top(t).pc \notin Executing
        /\ \A p \in Cancelling : p \notin Executing
    BY <1>18 DEF Cancelling, Executing
  <2>2. CASE Pop(t)
    <3>1. /\ \A u \in Threads :
               Len(frames'[u]) = IF u = t THEN Len(frames[u]) - 1 ELSE Len(frames[u])
          /\ \A u \in Threads : \A k \in 1 .. Len(frames'[u]) :
               k \in 1 .. Len(frames[u]) /\ frames'[u][k] = frames[u][k]
      BY <1>0, <1>3, <2>2, PopEffect
    <3>2. \A u \in Threads : \A k \in 1 .. Len(frames[u]) :
            frames[u][k].pc \in Executing => k \in 1 .. Len(frames'[u])
      BY <1>0, <1>8, <2>1, <3>1
    <3>3. QED BY <1>1, <1>8, <1>18, <2>1, <3>1, <3>2, CancelProgress
  <2>3. ASSUME NEW p \in Cancelling, Goto(t, p) PROVE CallProgress' /\ ReturnedSettled'
    <3>1. /\ \A u \in Threads : Len(frames'[u]) = Len(frames[u])
          /\ \A u \in Threads : \A k \in 1 .. Len(frames[u]) :
               /\ frames'[u][k].obj = frames[u][k].obj
               /\ frames'[u][k].pc = IF u = t /\ k = Len(frames[t]) THEN p ELSE frames[u][k].pc
      BY <1>0, <1>3, <2>3, GotoEffect
    <3>2. QED BY <1>1, <1>8, <1>18, <2>1, <3>1, CancelProgress
  <2>4. QED BY <1>18, <2>2, <2>3
<1>19. CASE CancelStore(t)
  <2>1. /\ Len(tasks') = Len(tasks)
        /\ \A y \in Objects : y # Top(t).obj => tasks'[y] = tasks[y]
        /\ tasks'[Top(t).obj] = [tasks[Top(t).obj] EXCEPT !.state = "CANCELLED"]
    BY <1>0, <1>19, StoreEffect
  <2>2. Top(t).pc = "store" /\ (Pop(t) \/ Goto(t, "still_joinable"))
    BY <1>19 DEF CancelStore, At
  <2>3. ASSUME NEW y \in Objects, Settled(tasks[y]) PROVE Settled(tasks[y])'
    <3>1. CASE y # x
      BY <1>1, <1>5, <2>1, <2>3, <3>1, SettledKept
    <3>2. CASE y = x
      <4>1. PICK q : q = tasks'[x]
        OBVIOUS
      <4>2. o \in TaskObject
        BY <1>0, <1>4, <1>5
      <4>3. q.execu = o.execu /\ q.by = o.by /\ q.runs = o.runs /\ q.moved = o.moved
        BY <1>5, <2>1, <4>1, <4>2 DEF TaskObject
      <4>4. Settled(o)'
        BY <1>1, <1>5, <2>3, <3>2, KeptAcross
      <4>5. Settled(q)'
        BY <4>3, <4>4 DEF Settled
      <4>6. QED BY <3>2, <4>1, <4>5
    <3>3. QED BY <3>1, <3>2
  <2>4. QED BY <1>5, <1>18, <2>1, <2>2, <2>3 DEF Cancelling
<1>20. CASE CancelJoinable(t) \/ Detach(t)
  <2>1. /\ tasks' = tasks
        /\ Top(t).pc \in Cancelling
        /\ UNCHANGED frames \/ Pop(t) \/ Goto(t, "detach")
    BY <1>20 DEF CancelJoinable, Detach, At, Cancelling
  <2>2. \A y \in Objects : Settled(tasks[y]) => Settled(tasks[y])'
    BY <1>1, <2>1, SettledKept
  <2>3. QED BY <1>15, <1>18, <2>1, <2>2 DEF Cancelling
<1>21. QED
  BY <1>9, <1>10, <1>11, <1>12, <1>13, <1>14, <1>16, <1>17, <1>19, <1>20 DEF LibraryStep

\* What is known of calls and returned tasks in every reachable state.
LEMMA ProgressAlways == Spec => []ProgressInv
<1>1. Init => ProgressInv
  <2>1. SUFFICES ASSUME Init PROVE ProgressInv
    OBVIOUS
  <2>2. Objects = {}
    BY <2>1 DEF Init, Objects
  <2>3. \A t \in Threads : Len(frames[t]) = 0
    BY <2>1 DEF Init
  <2>4. JoinedEnded
    BY <2>1 DEF Init, JoinedEnded
  <2>5. QED BY <2>2, <2>3, <2>4 DEF ProgressInv, CallProgress, ReturnedSettled
<1>2. ASSUME FramesInv, FramesInv', ProgressInv, [Next]_vars PROVE ProgressInv'
  <2>1. CASE UNCHANGED vars
    BY <1>2, <2>1 DEF vars, ProgressInv, CallProgress, CallOK, Progress, JoinedEnded,
                      ReturnedSettled, Returned, Settled, Over, Objects
  <2>2. CASE Finished
    BY <2>1, <2>2 DEF Finished
  <2>3. QED BY <1>2, <2>1, <2>2, ProgressUser, ProgressLibrary DEF Next
<1>3. QED BY <1>1, <1>2, FramesAlways, PTL DEF Spec

\* spawn, delay and defer(fn) return only when the function has run, exactly once, and
\* a function given to defer as a variant never runs, whoever moves or cancels tasks
\* meanwhile (task.h:37-84, task.cpp:43-60, 95-131).
THEOREM FunctionRunsOnce == Spec => []RunsOnce
<1>1. ProgressInv => RunsOnce
  BY DEF ProgressInv, ReturnedSettled, Settled, RunsOnce
<1>2. QED BY <1>1, ProgressAlways, PTL

\* A spawn or delay of a thread returns only when the thread has ended or a cancel
\* detached it, also when another call joined it first (task.cpp:95-131).
THEOREM ThreadAwaited == Spec => []WaitsForThread
<1>1. ProgressInv => WaitsForThread
  BY DEF ProgressInv, ReturnedSettled, Settled, Over, WaitsForThread
<1>2. QED BY <1>1, ProgressAlways, PTL
=============================================================================
