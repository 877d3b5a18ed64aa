-------------------------------- MODULE Task --------------------------------
(***************************************************************************)
(* ytl::task (concurrency/include/task.h, concurrency/src/task.cpp): task  *)
(* objects, the static mutex and the static flag serial that execute uses, *)
(* and the std::thread objects tasks may manage.                           *)
(*                                                                         *)
(* Every thread runs user code that calls the library.  A call of spawn or *)
(* delay runs its function in the caller, inside execute; the function is  *)
(* user code too, so calls nest and each thread has a stack of frames.     *)
(* Between two accesses to shared state any other thread may move; serial  *)
(* is a plain bool, read before the lock is taken.  Time is left out: a    *)
(* sleep is a point where others may move.                                 *)
(***************************************************************************)
EXTENDS Integers, Sequences, SequencesExt

CONSTANTS
  Threads,   \* threads of the program
  Main,      \* the one that has no std::thread object
  Ops,       \* bound: the operations user code calls
  MaxTasks,  \* bound: task objects
  MaxDepth,  \* bound: nested calls
  NULL

Operations == {"spawn", "delay", "spawn_thread", "delay_thread", "defer", "cancel",
               "move", "synchronize"}

ASSUME TaskAssumption ==
  /\ Main \in Threads
  /\ Ops \subseteq Operations
  /\ MaxTasks \in Nat
  /\ MaxDepth \in Nat
  /\ NULL \notin Threads
  /\ "function" \notin Threads

Managed == Threads \ {Main}

VARIABLES
  serial,   \* task::serial
  mutex,    \* the thread that holds task::mutex, or NULL
  next_id,  \* task::next_id
  tasks,    \* the task objects, in the order of their construction
  frames,   \* per thread, its calls of execute and cancel, innermost last
  handle,   \* per std::thread: joinable, joined or detached
  alive,    \* threads that have not ended
  fault     \* what ended the program, or NULL

vars == <<serial, mutex, next_id, tasks, frames, handle, alive, fault>>

\* A task object: id, state, execu ("function", a std::thread, or NULL for a
\* pointer that was moved from), and, as history, by, runs and moved: the operation
\* that made it, the calls of its function, whether it was moved from.  A frame: the
\* object obj it works on, where it is (pc), and whether it holds the lock (locked).
Init ==
  /\ serial = TRUE
  /\ mutex = NULL
  /\ next_id = 0
  /\ tasks = <<>>
  /\ frames = [t \in Threads |-> <<>>]
  /\ handle = [m \in Managed |-> "joinable"]
  /\ alive = Threads
  /\ fault = NULL

Top(t) == Last(frames[t])

At(t, pc) == fault = NULL /\ frames[t] # <<>> /\ Top(t).pc = pc

\* t runs user code: outside the library, or in the function of a task.
InUserCode(t) ==
  /\ fault = NULL
  /\ t \in alive
  /\ frames[t] # <<>> => Top(t).pc = "body"

Push(t, frame) ==
  /\ Len(frames[t]) < MaxDepth
  /\ frames' = [frames EXCEPT ![t] = Append(@, frame)]

Goto(t, pc) == frames' = [frames EXCEPT ![t][Len(frames[t])].pc = pc]

Pop(t) == frames' = [frames EXCEPT ![t] = Front(@)]

-----------------------------------------------------------------------------
(* spawn, delay and defer.                                                 *)

\* Mutant: a deferred task does not use up its id.
NewTaskSharedId(op, state, execu) ==
  /\ op \in Ops
  /\ Len(tasks) < MaxTasks
  /\ next_id' = IF op = "defer" THEN next_id ELSE next_id + 1
  /\ tasks' = Append(tasks, [id |-> next_id, state |-> state, execu |-> execu,
                             by |-> op, runs |-> 0, moved |-> FALSE])

\* The constructor takes the next id; the caller then sets state and execu.
NewTask(op, state, execu) ==
  /\ op \in Ops
  /\ Len(tasks) < MaxTasks
  /\ next_id' = next_id + 1
  /\ tasks' = Append(tasks, [id |-> next_id, state |-> state, execu |-> execu,
                             by |-> op, runs |-> 0, moved |-> FALSE])

NewFrame(pc) == [obj |-> Len(tasks) + 1, pc |-> pc, locked |-> FALSE]

\* Mutant: delay does not execute its task.
SpawnFunctionNoDelay(t) ==
  /\ InUserCode(t)
  /\ \/ NewTask("spawn", "RUNNING", "function") /\ Push(t, NewFrame("enter"))
     \/ NewTask("delay", "SUSPENDED", "function") /\ UNCHANGED frames
  /\ UNCHANGED <<serial, mutex, handle, alive, fault>>

\* delay(duration, fn) sleeps in the task's own function, after execute has
\* taken the lock; defer(fn) is delay with duration 0, so it runs fn at once.
\* The functions given to a task return: one that throws is not modelled.
SpawnFunction(t) ==
  /\ InUserCode(t)
  /\ \/ NewTask("spawn", "RUNNING", "function")
     \/ NewTask("delay", "SUSPENDED", "function")
  /\ Push(t, NewFrame("enter"))
  /\ UNCHANGED <<serial, mutex, handle, alive, fault>>

SpawnThread(t, m) ==
  /\ InUserCode(t)
  /\ NewTask("spawn_thread", "RUNNING", m)
  /\ Push(t, NewFrame("enter"))
  /\ UNCHANGED <<serial, mutex, handle, alive, fault>>

\* delay(duration, thread) sleeps in the caller, before execute.
DelayThread(t, m) ==
  /\ InUserCode(t)
  /\ NewTask("delay_thread", "SUSPENDED", m)
  /\ Push(t, NewFrame("sleep"))
  /\ UNCHANGED <<serial, mutex, handle, alive, fault>>

WakeUp(t) ==
  /\ At(t, "sleep")
  /\ Goto(t, "enter")
  /\ UNCHANGED <<serial, mutex, next_id, tasks, handle, alive, fault>>

\* defer(variant) stores its argument, of either kind, and does nothing else.
Defer(t, execu) ==
  /\ InUserCode(t)
  /\ NewTask("defer", "SUSPENDED", execu)
  /\ UNCHANGED <<serial, mutex, frames, handle, alive, fault>>

-----------------------------------------------------------------------------
(* execute.                                                                *)

\* What execute does first with its task once it has, or needs no, lock.
Start(x) == IF tasks[x].execu = "function" THEN "body" ELSE "joinable"

\* A task is executed before its caller can cancel it, so the test for
\* CANCELLED never stops it.
Enter(t) ==
  /\ At(t, "enter")
  /\ Goto(t, IF tasks[Top(t).obj].state = "CANCELLED" THEN "leave"
             ELSE IF serial THEN "lock" ELSE Start(Top(t).obj))
  /\ UNCHANGED <<serial, mutex, next_id, tasks, handle, alive, fault>>

\* Mutant: execute spins on try_lock, which may fail though the lock is free.
LockSpins(t) ==
  /\ At(t, "lock")
  /\ \/ /\ mutex = NULL
        /\ mutex' = t
        /\ frames' = [frames EXCEPT ![t][Len(frames[t])] =
                        [@ EXCEPT !.pc = Start(Top(t).obj), !.locked = TRUE]]
     \/ Goto(t, "enter") /\ UNCHANGED mutex
  /\ UNCHANGED <<serial, next_id, tasks, handle, alive, fault>>

\* lock_guard; std::mutex is not recursive, so its owner waits for ever.
Lock(t) ==
  /\ At(t, "lock")
  /\ mutex = NULL
  /\ mutex' = t
  /\ frames' = [frames EXCEPT ![t][Len(frames[t])] =
                  [@ EXCEPT !.pc = Start(Top(t).obj), !.locked = TRUE]]
  /\ UNCHANGED <<serial, next_id, tasks, handle, alive, fault>>

\* The function of the task returns.
FunctionReturns(t) ==
  /\ At(t, "body")
  /\ tasks' = [tasks EXCEPT ![Top(t).obj].runs = @ + 1]
  /\ Goto(t, "leave")
  /\ UNCHANGED <<serial, mutex, next_id, handle, alive, fault>>

\* Mutant: without the lock a thread is not joined.
JoinableSerial(t) ==
  /\ At(t, "joinable")
  /\ Goto(t, IF handle[tasks[Top(t).obj].execu] = "joinable" /\ Top(t).locked
             THEN "join" ELSE "leave")
  /\ UNCHANGED <<serial, mutex, next_id, tasks, handle, alive, fault>>

Joinable(t) ==
  /\ At(t, "joinable")
  /\ Goto(t, IF handle[tasks[Top(t).obj].execu] = "joinable" THEN "join" ELSE "leave")
  /\ UNCHANGED <<serial, mutex, next_id, tasks, handle, alive, fault>>

\* join waits for the thread to end.
Join(t) ==
  LET m == tasks[Top(t).obj].execu IN
  /\ At(t, "join")
  /\ m # t /\ handle[m] = "joinable" /\ m \notin alive
  /\ handle' = [handle EXCEPT ![m] = "joined"]
  /\ Goto(t, "leave")
  /\ UNCHANGED <<serial, mutex, next_id, tasks, alive, fault>>

\* join throws for the calling thread itself, and for a thread that another
\* thread joined or detached after the test.
JoinFails(t) ==
  LET m == tasks[Top(t).obj].execu IN
  /\ At(t, "join")
  /\ m = t \/ handle[m] # "joinable"
  /\ fault' = "join"
  /\ UNCHANGED <<serial, mutex, next_id, tasks, frames, handle, alive>>

\* Mutant: execute looks at serial again to know whether it holds the lock.
LeaveRereads(t) ==
  /\ At(t, "leave")
  /\ mutex' = IF serial THEN NULL ELSE mutex
  /\ Pop(t)
  /\ UNCHANGED <<serial, next_id, tasks, handle, alive, fault>>

\* execute releases the lock and returns, and spawn or delay after it.
Leave(t) ==
  /\ At(t, "leave")
  /\ mutex' = IF Top(t).locked THEN NULL ELSE mutex
  /\ Pop(t)
  /\ UNCHANGED <<serial, next_id, tasks, handle, alive, fault>>

-----------------------------------------------------------------------------
(* cancel, the move constructor and assignment, synchronize.               *)

\* The caller has the task object only after spawn, delay or defer returned it.
Returned(x) ==
  \A t \in Threads : \A k \in 1 .. Len(frames[t]) :
    frames[t][k].obj = x => frames[t][k].pc \in {"store", "still_joinable", "detach"}

Cancel(t, x) ==
  /\ InUserCode(t)
  /\ "cancel" \in Ops
  /\ Returned(x)
  /\ tasks[x].state # "CANCELLED"
  /\ Push(t, [obj |-> x, pc |-> "store", locked |-> FALSE])
  /\ UNCHANGED <<serial, mutex, next_id, tasks, handle, alive, fault>>

CancelStore(t) ==
  LET x == Top(t).obj IN
  /\ At(t, "store")
  /\ tasks' = [tasks EXCEPT ![x].state = "CANCELLED"]
  /\ IF tasks[x].execu = "function" THEN Pop(t) ELSE Goto(t, "still_joinable")
  /\ UNCHANGED <<serial, mutex, next_id, handle, alive, fault>>

\* joinable() through a pointer that was moved from is a null dereference.
CancelJoinable(t) ==
  LET m == tasks[Top(t).obj].execu IN
  /\ At(t, "still_joinable")
  /\ IF m = NULL
       THEN fault' = "null_thread" /\ UNCHANGED frames
       ELSE /\ IF handle[m] = "joinable" THEN Goto(t, "detach") ELSE Pop(t)
            /\ UNCHANGED fault
  /\ UNCHANGED <<serial, mutex, next_id, tasks, handle, alive>>

\* detach throws when the thread has been joined or detached after the test.
Detach(t) ==
  LET m == tasks[Top(t).obj].execu IN
  /\ At(t, "detach")
  /\ IF handle[m] = "joinable"
       THEN /\ handle' = [handle EXCEPT ![m] = "detached"]
            /\ Pop(t)
            /\ UNCHANGED fault
       ELSE fault' = "detach" /\ UNCHANGED <<handle, frames>>
  /\ UNCHANGED <<serial, mutex, next_id, tasks, alive>>

\* A moved-from task has id 0 and state CREATED; its variant keeps the kind.
MovedFrom(task) ==
  [task EXCEPT !.id = 0, !.state = "CREATED", !.moved = TRUE,
               !.execu = IF @ = "function" THEN @ ELSE NULL]

\* No call of any thread is using object x.
Unused(x) == \A u \in Threads : \A k \in 1 .. Len(frames[u]) : frames[u][k].obj # x

\* The move constructor.
Move(t, x) ==
  /\ InUserCode(t)
  /\ "move" \in Ops
  /\ Len(tasks) < MaxTasks
  /\ Unused(x)
  /\ tasks' = Append([tasks EXCEPT ![x] = MovedFrom(@)], tasks[x])
  /\ UNCHANGED <<serial, mutex, next_id, frames, handle, alive, fault>>

\* Move assignment: what the target y held is dropped.
MoveAssign(t, x, y) ==
  /\ InUserCode(t)
  /\ "move" \in Ops
  /\ x # y /\ Unused(x) /\ Unused(y)
  /\ tasks' = [tasks EXCEPT ![x] = MovedFrom(@), ![y] = tasks[x]]
  /\ UNCHANGED <<serial, mutex, next_id, frames, handle, alive, fault>>

\* synchronize and desynchronize take no lock.
Synchronize(t, value) ==
  /\ InUserCode(t)
  /\ "synchronize" \in Ops
  /\ serial' = value
  /\ UNCHANGED <<mutex, next_id, tasks, frames, handle, alive, fault>>

-----------------------------------------------------------------------------
\* A thread comes to the end of its own user code.
ThreadEnds(t) ==
  /\ fault = NULL
  /\ t \in alive
  /\ frames[t] = <<>>
  /\ alive' = alive \ {t}
  /\ UNCHANGED <<serial, mutex, next_id, tasks, frames, handle, fault>>

\* The steps a thread takes inside the library.
LibraryStep(t) ==
  \/ WakeUp(t) \/ Enter(t) \/ Lock(t) \/ FunctionReturns(t)
  \/ Joinable(t) \/ Join(t) \/ JoinFails(t) \/ Leave(t)
  \/ CancelStore(t) \/ CancelJoinable(t) \/ Detach(t)

UserStep(t) ==
  \/ SpawnFunction(t)
  \/ \E m \in Managed : SpawnThread(t, m) \/ DelayThread(t, m)
  \/ \E execu \in Managed \cup {"function"} : Defer(t, execu)
  \/ \E x \in 1 .. Len(tasks) : Cancel(t, x) \/ Move(t, x)
  \/ \E x, y \in 1 .. Len(tasks) : MoveAssign(t, x, y)
  \/ \E value \in BOOLEAN : Synchronize(t, value)
  \/ ThreadEnds(t)

\* The program is over: every thread has ended, or a fault ended them all.
Finished ==
  /\ alive = {} \/ fault # NULL
  /\ UNCHANGED vars

Next == Finished \/ \E t \in Threads : LibraryStep(t) \/ UserStep(t)

Spec == Init /\ [][Next]_vars

\* The scheduler runs every thread; functions return and threads end, as their
\* callers' code must see to.
FairSpec ==
  /\ Spec
  /\ \A t \in Threads : WF_vars(LibraryStep(t) \/ ThreadEnds(t))
-----------------------------------------------------------------------------
(* Properties.                                                             *)

Objects == 1 .. Len(tasks)

\* However synchronize, desynchronize and nested calls interleave, the calls of
\* execute that took the lock exclude each other: each belongs to the mutex's
\* owner, no thread has two of them, and a held mutex has a call that will
\* release it (task.cpp:100-115).
SerialExclusion ==
  /\ \A t \in Threads : \A k \in 1 .. Len(frames[t]) :
       frames[t][k].locked =>
         /\ mutex = t
         /\ \A j \in 1 .. Len(frames[t]) : frames[t][j].locked => j = k
  /\ mutex # NULL => \E k \in 1 .. Len(frames[mutex]) : frames[mutex][k].locked

\* spawn, delay and defer(fn) return only when the function has run, once, and no
\* later call runs it again; a function given to the other defer, the one of a
\* variant, never runs (task.h:37-84, task.cpp:43-50).
RunsOnce ==
  \A x \in Objects :
    tasks[x].execu = "function" /\ ~tasks[x].moved /\ Returned(x) =>
      tasks[x].runs = IF tasks[x].by \in {"spawn", "delay"} THEN 1 ELSE 0

\* When spawn or delay returns the task of a thread, that thread has ended or a
\* cancel detached it, whoever else joined it meanwhile.
WaitsForThread ==
  \A x \in Objects :
    /\ tasks[x].by \in {"spawn_thread", "delay_thread"}
    /\ tasks[x].execu \in Managed
    /\ Returned(x)
    => tasks[x].execu \notin alive \/ handle[tasks[x].execu] = "detached"

\* No two tasks that hold work have the same id, although a moved-from task takes
\* the id of the first one.
IdsUnique ==
  \A x, y \in Objects :
    /\ ~tasks[x].moved /\ ~tasks[y].moved
    /\ tasks[x].id = tasks[y].id
    => x = y

\* t waits for the lock u holds, or for the end of u.
WaitsFor(t, u) ==
  \/ At(t, "lock") /\ mutex = u
  \/ At(t, "join") /\ tasks[Top(t).obj].execu = u /\ u \in alive

\* t waits for a thread that waits, and so on for ever: for the lock it holds
\* itself, or in a ring of the lock and joins.
Stuck(t) ==
  \E S \in SUBSET Threads :
    t \in S /\ \A u \in S : \E v \in S : WaitsFor(u, v)

\* Every call returns once the others stop coming, unless the program ended in a
\* fault or the caller waits in a ring: nothing else in execute, cancel or the unlocked
\* flag serial can hold a call for ever, nested calls included (task.cpp:83-131).
CallsReturn ==
  \A t \in Threads : frames[t] # <<>> ~> (frames[t] = <<>> \/ fault # NULL \/ Stuck(t))
=============================================================================
