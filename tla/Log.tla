--------------------------------- MODULE Log ---------------------------------
(* The log handler of src/log.c: threads publish messages into a list under a   *)
(* mutex, the log thread hands them to the registered receivers, and users      *)
(* start and stop it with a reference count.  msg_pend_count and dropping are   *)
(* also written by the log thread, which does not hold the mutex then: an       *)
(* increment or decrement of the count is a load and a store.  The free list of *)
(* messages is left out: a message is always found (msg_alloc).                 *)
EXTENDS Naturals, Sequences

CONSTANTS
    Publishers,     \* threads that log
    Users,          \* threads that call jsdrv_log_initialize and jsdrv_log_finalize
    Receivers,
    PEND_MAX,       \* MSG_PEND_COUNT_MAX
    PipeCap,        \* bytes that fit into the pipe that wakes the log thread
    Racy,           \* ++ and -- of msg_pend_count are not atomic
    Late,           \* a thread may still log while the last user finalizes
    MaxPublish,     \* bound: calls of jsdrv_log_publish
    MaxStarts       \* bound: starts of the log thread

VARIABLES
    active, quit, level, dropping,  \* log_s; level: what is logged, 0 = off, 1 = on
    cnt,        \* msg_pend_count
    pend,       \* msg_pend: "early" messages came before quit, "late" ones after it
    disp,       \* dispatch_list
    cur,        \* thread_id, fd_read and fd_write: those of the cur-th start
    thr,        \* start -> [pc, tmp, final, left]: its log thread; left: receivers still to call
    pipe,       \* start -> [bytes, open]
    lock,       \* who holds msg_mutex, or "none"
    dlock,      \* the start whose thread holds dispatch_mutex, or 0
    pub,        \* publisher -> [pc, tmp, full]
    usr,        \* user -> its place in jsdrv_log_finalize
    refs,       \* user -> its initializes without a finalize
    last,       \* history: what jsdrv_log_publish did last
    untold,     \* history: a message was dropped, and no notice is queued before it
    lost,       \* history: jsdrv_log_finalize freed a message that came before quit
    misuse,     \* history: a receiver that is gone was called, a closed descriptor written,
                \* or a thread joined twice
    n           \* calls of jsdrv_log_publish

state == <<active, quit, level, dropping, cnt, pend, disp>>
vars == <<state, cur, thr, pipe, lock, dlock, pub, usr, refs, last, untold, lost, misuse, n>>

Starts == 1..MaxStarts
NoThread == [pc |-> "none", tmp |-> 0, final |-> FALSE, left |-> <<>>]
NoPub == [pc |-> "idle", tmp |-> 0, full |-> FALSE]

Init ==
    /\ active = 0 /\ quit = FALSE /\ level = 0 /\ dropping = FALSE /\ cnt = 0 /\ pend = <<>> /\ disp = <<>>
    /\ cur = 0 /\ thr = [g \in Starts |-> NoThread] /\ pipe = [g \in Starts |-> [bytes |-> 0, open |-> FALSE]]
    /\ lock = "none" /\ dlock = 0 /\ pub = [p \in Publishers |-> NoPub] /\ usr = [u \in Users |-> "idle"]
    /\ refs = [u \in Users |-> 0]
    /\ last = "none" /\ untold = FALSE /\ lost = FALSE /\ misuse = FALSE /\ n = 0

Told == untold' = (untold \/ last \notin {"notice", "drop"}) /\ last' = "drop"

\* A byte into fd_write
Written == IF cur = 0 \/ ~pipe[cur].open THEN pipe ELSE [pipe EXCEPT ![cur].bytes = @ + 1]
Writes == (cur = 0 \/ ~pipe[cur].open \/ pipe[cur].bytes < PipeCap) /\ pipe' = Written
Closed == cur = 0 \/ ~pipe[cur].open

------------------------------------------------------------------------------
(* jsdrv_log_publish                                                         *)

\* The tests before the lock
Publish(p) ==
    /\ pub[p].pc = "idle" /\ n < MaxPublish /\ n' = n + 1
    /\ active > 0 /\ ~quit /\ level = 1
    /\ IF dropping THEN Told /\ UNCHANGED pub
       ELSE pub' = [pub EXCEPT ![p].pc = "lock"] /\ UNCHANGED <<last, untold>>
    /\ UNCHANGED <<dlock, state, cur, thr, pipe, lock, usr, refs, lost, misuse>>

Locked(p) ==
    /\ pub[p].pc = "lock" /\ lock = "none"
    /\ IF dropping THEN Told /\ pub' = [pub EXCEPT ![p] = NoPub] /\ UNCHANGED lock
       ELSE /\ pub' = [pub EXCEPT ![p] = [pc |-> "add", tmp |-> cnt, full |-> cnt >= PEND_MAX]]
            /\ lock' = p /\ UNCHANGED <<last, untold>>
    /\ UNCHANGED <<dlock, state, cur, thr, pipe, usr, refs, lost, misuse, n>>


\* The list is full: a notice takes the place of the message.
Overflow == dropping' = TRUE /\ last' = "notice" /\ pend' = Append(pend, IF quit THEN "late" ELSE "early") /\ UNCHANGED untold

\* The message is added, and thread_notify called with the lock held.
Add(p) ==
    /\ pub[p].pc = "add" /\ Writes
    /\ cnt' = (IF Racy THEN pub[p].tmp ELSE cnt) + 1
    /\ IF pub[p].full THEN Overflow
       ELSE /\ pend' = Append(pend, IF quit THEN "late" ELSE "early") /\ last' = "msg"
            /\ UNCHANGED <<dlock, dropping, untold>>
    /\ misuse' = (misuse \/ Closed)
    /\ pub' = [pub EXCEPT ![p] = NoPub] /\ lock' = "none"
    /\ UNCHANGED <<dlock, active, quit, level, disp, cur, thr, usr, refs, lost, n>>

------------------------------------------------------------------------------
(* log_thread, process                                                       *)

Thread(g, t) == thr' = [thr EXCEPT ![g] = t]

\* while (!quit), and process once more behind the loop
Test(g) == thr[g].pc = "test" /\ Thread(g, [thr[g] EXCEPT !.pc = IF quit THEN "take" ELSE "poll", !.final = quit])

Loop(g) == Test(g) /\ UNCHANGED <<dlock, state, cur, pipe, lock, pub, usr, refs, last, untold, lost, misuse, n>>

\* poll returns, with a byte or after its 100 ms, and the bytes are read.
Poll(g) ==
    /\ thr[g].pc = "poll"
    /\ Thread(g, [thr[g] EXCEPT !.pc = "take"])
    /\ pipe' = (IF pipe[cur].open THEN [pipe EXCEPT ![cur].bytes = 0] ELSE pipe)
    /\ UNCHANGED <<dlock, state, cur, lock, pub, usr, refs, last, untold, lost, misuse, n>>

\* The list is empty: process returns.
TakeEmpty(g) == [thr[g] EXCEPT !.pc = IF thr[g].final THEN "exit" ELSE "test"]

Take(g) ==
    /\ thr[g].pc = "take" /\ lock = "none"
    /\ IF pend = <<>> THEN Thread(g, TakeEmpty(g)) /\ UNCHANGED pend
       ELSE Thread(g, [thr[g] EXCEPT !.pc = "load"]) /\ pend' = Tail(pend)
    /\ UNCHANGED <<dlock, active, quit, level, dropping, cnt, disp, cur, pipe, lock, pub, usr, refs, last, untold, lost, misuse, n>>

Load(g) ==
    /\ thr[g].pc = "load" /\ Thread(g, [thr[g] EXCEPT !.pc = "store", !.tmp = cnt])
    /\ UNCHANGED <<dlock, state, cur, pipe, lock, pub, usr, refs, last, untold, lost, misuse, n>>

Store(g) ==
    /\ thr[g].pc = "store"
    /\ LET c == IF Racy THEN thr[g].tmp ELSE cnt IN cnt' = (IF c > 0 THEN c - 1 ELSE cnt)
    /\ Thread(g, [thr[g] EXCEPT !.pc = IF cnt' = 0 THEN "clear" ELSE "dispatch", !.tmp = 0])
    /\ UNCHANGED <<dlock, active, quit, level, dropping, pend, disp, cur, pipe, lock, pub, usr, refs, last, untold, lost, misuse, n>>

Clear(g) ==
    /\ thr[g].pc = "clear" /\ dropping' = FALSE /\ Thread(g, [thr[g] EXCEPT !.pc = "dispatch"])
    /\ UNCHANGED <<dlock, active, quit, level, cnt, pend, disp, cur, pipe, lock, pub, usr, refs, last, untold, lost, misuse, n>>

\* The receivers are called one after the other, with dispatch_mutex held.
Dispatch(g) ==
    /\ thr[g].pc = "dispatch" /\ (level = 1 => dlock = 0)
    /\ IF level = 1 THEN dlock' = g /\ Thread(g, [thr[g] EXCEPT !.pc = "call", !.left = disp])
       ELSE Thread(g, [thr[g] EXCEPT !.pc = "take"]) /\ UNCHANGED dlock
    /\ UNCHANGED <<state, cur, pipe, lock, pub, usr, refs, last, untold, lost, misuse, n>>

CallReceiver(g) ==
    /\ thr[g].pc = "call"
    /\ IF thr[g].left = <<>> THEN Thread(g, [thr[g] EXCEPT !.pc = "take"]) /\ dlock' = 0 /\ UNCHANGED misuse
       ELSE /\ Thread(g, [thr[g] EXCEPT !.left = Tail(@)]) /\ UNCHANGED dlock
            /\ misuse' = (misuse \/ \A k \in DOMAIN disp : disp[k] # Head(thr[g].left))
    /\ UNCHANGED <<state, cur, pipe, lock, pub, usr, refs, last, untold, lost, n>>

------------------------------------------------------------------------------
(* The users                                                                 *)

env == <<pub, last, untold, n>>

\* jsdrv_log_initialize, under both locks; the first starts the thread (thread_start).
Initialize(u) ==
    /\ usr[u] = "idle" /\ dlock = 0 /\ refs[u] = 0 /\ refs' = [refs EXCEPT ![u] = 1]
    /\ IF active > 0 THEN active' = active + 1 /\ UNCHANGED <<quit, dropping, cnt, pend, cur, thr, pipe>>
       ELSE /\ lock = "none" /\ cur < MaxStarts /\ cur' = cur + 1
            /\ active' = 1 /\ quit' = FALSE /\ dropping' = FALSE /\ cnt' = 0 /\ pend' = <<>>
            /\ thr' = [thr EXCEPT ![cur'].pc = "test"] /\ pipe' = [pipe EXCEPT ![cur'].open = TRUE]
    /\ UNCHANGED <<dlock, level, disp, lock, usr, lost, misuse, env>>

\* jsdrv_log_finalize up to its first unlock
Finalize(u) ==
    /\ usr[u] = "idle" /\ dlock = 0 /\ refs[u] = 1 /\ refs' = [refs EXCEPT ![u] = 0]
    /\ Late \/ \A p \in Publishers : pub[p].pc = "idle"
    /\ active > 0 /\ active' = active - 1
    /\ IF active = 1 THEN quit' = TRUE /\ usr' = [usr EXCEPT ![u] = "stop"] ELSE UNCHANGED <<quit, usr>>
    /\ UNCHANGED <<dlock, level, dropping, cnt, pend, disp, cur, thr, pipe, lock, lost, misuse, env>>

\* thread_stop
Stop(u) ==
    /\ usr[u] = "stop" /\ Writes /\ quit' = TRUE /\ usr' = [usr EXCEPT ![u] = "join"]
    /\ misuse' = (misuse \/ Closed)
    /\ UNCHANGED <<dlock, active, level, dropping, cnt, pend, disp, cur, thr, lock, refs, lost, env>>

Join(u) ==
    /\ usr[u] = "join" /\ thr[cur].pc \in {"exit", "joined"} /\ usr' = [usr EXCEPT ![u] = "free"]
    /\ misuse' = (misuse \/ thr[cur].pc = "joined")
    /\ thr' = [thr EXCEPT ![cur].pc = "joined"] /\ pipe' = [pipe EXCEPT ![cur] = [bytes |-> 0, open |-> FALSE]]
    /\ UNCHANGED <<dlock, state, cur, lock, refs, lost, env>>

FreeLists(u) ==
    /\ usr[u] = "free" /\ dlock = 0 /\ lock = "none" /\ usr' = [usr EXCEPT ![u] = "idle"]
    /\ lost' = (lost \/ \E k \in DOMAIN pend : pend[k] = "early")
    /\ pend' = <<>> /\ disp' = <<>>
    /\ UNCHANGED <<dlock, active, quit, level, dropping, cnt, cur, thr, pipe, lock, refs, misuse, env>>

Register(u, r) ==
    /\ usr[u] = "idle" /\ dlock = 0 /\ Len(disp) < 2 /\ disp' = Append(disp, r)
    /\ UNCHANGED <<dlock, active, quit, level, dropping, cnt, pend, cur, thr, pipe, lock, usr, refs, lost, misuse, env>>

Unregister(u, r) ==
    /\ usr[u] = "idle" /\ dlock = 0 /\ active > 0 /\ disp' = SelectSeq(disp, LAMBDA x : x # r)
    /\ UNCHANGED <<dlock, active, quit, level, dropping, cnt, pend, cur, thr, pipe, lock, usr, refs, lost, misuse, env>>

LevelSet(u, l) ==
    /\ usr[u] = "idle" /\ level' = l
    /\ UNCHANGED <<dlock, active, quit, dropping, cnt, pend, disp, cur, thr, pipe, lock, usr, refs, lost, misuse, env>>

------------------------------------------------------------------------------
Runs(g) == Loop(g) \/ Poll(g) \/ Take(g) \/ Load(g) \/ Store(g) \/ Clear(g) \/ Dispatch(g) \/ CallReceiver(g)

Next ==
    \/ \E p \in Publishers : Publish(p) \/ Locked(p) \/ Add(p)
    \/ \E g \in Starts : Runs(g)
    \/ \E u \in Users : Initialize(u) \/ Finalize(u) \/ Stop(u) \/ Join(u) \/ FreeLists(u)
    \/ \E u \in Users, r \in Receivers : Register(u, r) \/ Unregister(u, r)
    \/ \E u \in Users, l \in 0..1 : LevelSet(u, l)

Spec == Init /\ [][Next]_vars

\* A thread that can run does; every lock is released by a thread that runs.
FairSpec ==
    /\ Spec
    /\ \A p \in Publishers : WF_vars(Locked(p)) /\ WF_vars(Add(p))
    /\ \A g \in Starts : WF_vars(Runs(g))
    /\ \A u \in Users : WF_vars(Stop(u)) /\ WF_vars(Join(u)) /\ WF_vars(FreeLists(u))

------------------------------------------------------------------------------
\* What was logged before the last user finalizes reaches the receivers: nothing of
\* it is left when jsdrv_log_finalize frees the lists.
FlushedAtExit == ~lost

\* No message is dropped without the notice before it that messages are missing,
\* though dropping is tested before the lock and reset without it.
DropsTold == ~untold

\* jsdrv_log_publish and jsdrv_log_finalize return.
CallsEnd ==
    /\ \A p \in Publishers : pub[p].pc # "idle" ~> pub[p].pc = "idle"
    /\ \A u \in Users : usr[u] # "idle" ~> usr[u] = "idle"


\* Logging resumes after an overflow.
DroppingEnds == dropping ~> ~dropping
==============================================================================
