------------------------------- MODULE Poller -------------------------------
(***************************************************************************)
(* The one loop of the program (lib/poller.cpp): descriptors, timers and   *)
(* calls for later.  A round computes how long it may sleep, sleeps until  *)
(* something is ready, calls one handler after the other, and runs what is *)
(* due: a handler changes all of this while the round goes on.             *)
(*                                                                         *)
(* Time is counted in half milliseconds, since the clock is finer than the *)
(* milliseconds that the loop reckons with.                                *)
(***************************************************************************)
EXTENDS Integers, FiniteSets, SequencesExt, Functions

CONSTANTS Fd,       \* descriptors
          Forever   \* what 10,000 s are here: longer than any timer

VARIABLES
    open,      \* poller_t::is_open
    handlers,  \* fd_events: descriptor -> whose handler
    watched,   \* the descriptors that epoll watches
    timers,    \* timer_events
    later,     \* later_events
    phase,     \* where wait() is
    batch,     \* the descriptors that epoll_wait returned and that wait to be handled
    sleep      \* what is left of the time epoll_wait may take

queues == <<handlers, watched, timers, later>>
pvars  == <<open, queues, phase, batch, sleep>>

Phase == {"begin", "first", "wait", "fds", "second", "timers", "third", "blocked", "over"}

PInit ==
    /\ open = TRUE
    /\ timers = <<>> /\ later = <<>>
    /\ phase = "begin" /\ batch = {} /\ sleep = 0

-----------------------------------------------------------------------------
(* What handlers call. *)

\* add_fd_in, for a descriptor that epoll does not watch yet.
AddFd(fds, fd, f) == [d \in DOMAIN fds \cup {fd} |-> IF d = fd THEN f ELSE fds[d]]
\* listener_t::stop, or its destructor: __remove_fd.
RemoveFd(fds, fd) == Restrict(fds, DOMAIN fds \ {fd})

Later(ts, t) == {i \in DOMAIN ts : ts[i].in > t.in}

\* Timers that are not sorted.
AddTimerLast(ts, ms, f) == Append(ts, [in |-> 2 * ms + 2, asked |-> 2 * ms, call |-> f])

\* add_timer_event: one millisecond more than asked, and sorted.
AddTimer(ts, ms, f) ==
    LET t == [in |-> 2 * ms + 2, asked |-> 2 * ms, call |-> f]
    IN  InsertAt(ts, Len(ts) + 1 - Cardinality(Later(ts, t)), t)

\* remove_timer, which disable() and the destructor of a timer call: the timer
\* of f, which has one at most.
RemoveTimer(ts, f) ==
    LET its == {i \in DOMAIN ts : ts[i].call = f}
    IN  IF its = {} THEN ts ELSE RemoveAt(ts, Min(its))

\* A new timer is assigned to the variable that holds one: the old one goes.
Rearm(ts, ms, f) == AddTimer(RemoveTimer(ts, f), ms, f)

-----------------------------------------------------------------------------
(* The round: poller_t::wait. *)

\* ms_to_now, which rounds towards zero.
Milliseconds(t) == (IF t.in > 0 THEN t.in ELSE 0) \div 2
Expired(t) == Milliseconds(t) = 0

\* run_call_later_events comes three times in a round, and is over when
\* nothing is left.
Round == [first  |-> "wait",
          second |-> "timers",
          third  |-> IF open THEN "begin" ELSE "over"]
Past(p, calls) == IF calls = <<>> THEN Round[p] ELSE p

\* The time to sleep is known before what was left for later is run.
Begin ==
    /\ phase = "begin" /\ phase' = Past("first", later)
    /\ sleep' = IF timers = <<>> THEN Forever ELSE 2 * Milliseconds(Head(timers))
    /\ UNCHANGED <<open, queues, batch>>

\* epoll_wait, unless a timer is due already: what is ready, nothing in time,
\* or an error once the poller is closed.
Wait(ready) ==
    /\ phase = "wait" /\ phase' = "fds"
    /\ batch' = IF sleep = 0 \/ ~open THEN {} ELSE ready
    /\ ready # {} \/ sleep \in {0, Forever} \/ ~open
    /\ UNCHANGED <<open, queues, sleep>>

Handled ==
    /\ phase = "fds" /\ batch = {} /\ phase' = Past("second", later)
    /\ UNCHANGED <<open, queues, batch, sleep>>

\* run_expired_timer_events, when no other one has expired.
NoneExpired ==
    /\ phase = "timers" /\ phase' = Past("third", later)
    /\ timers # <<>> => ~Expired(Head(timers))
    /\ UNCHANGED <<open, queues, batch, sleep>>

Less(n) == IF n > 0 THEN n - 1 ELSE 0

\* Half a millisecond passes: while the loop sleeps with nothing to do, or
\* while a handler works, or waits.
Tick(ready) ==
    /\ \/ phase = "wait" /\ ready = {} /\ open /\ sleep > 0
       \/ phase = "fds" /\ batch # {}
       \/ phase = "blocked"
    /\ \E i \in DOMAIN timers : timers[i].in > 0
    /\ timers' = [i \in DOMAIN timers |->
                    [timers[i] EXCEPT !.in = Less(@), !.asked = Less(@)]]
    /\ sleep' = IF phase = "wait" /\ sleep # Forever THEN sleep - 1 ELSE sleep
    /\ UNCHANGED <<open, handlers, watched, later, phase, batch>>

\* close, which the handler of SIGTERM and SIGINT calls at any moment.
Close ==
    /\ open /\ open' = FALSE
    /\ watched' = {}
    /\ UNCHANGED <<handlers, timers, later, phase, batch, sleep>>
=============================================================================
