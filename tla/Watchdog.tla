------------------------------ MODULE Watchdog ------------------------------
(***************************************************************************)
(* The watchdog thread: a timer that runs while the main thread is in a    *)
(* handler (watchdog.cpp, call_handler), and the callback that walks the   *)
(* registry from another thread, kills one process and invalidates its     *)
(* record (find_victim, watchdog_callback, pid_invalidate), against a main *)
(* thread that registers, moves and removes records.                       *)
(*                                                                         *)
(* A step of the main thread is one critical section of adjslot_list_lock  *)
(* or the code between two; the hash chain is not protected by the lock,   *)
(* so pid_invalidate's walk along it is modelled pointer by pointer.  All  *)
(* pids share one hash chain.  A Proc stands for its pid and its record.   *)
(***************************************************************************)
EXTENDS Integers, Sequences, Functions

CONSTANTS Proc,
          Score,     \* oom_score_adj values, \subseteq Int
          Fd,        \* descriptor numbers
          NULL, HEAD

OOM_SCORE_ADJ_MAX == 1000

ASSUME ScoreAssumption ==
  /\ Score \subseteq Int /\ \A s \in Score : s <= OOM_SCORE_ADJ_MAX
  /\ \E s \in Score : s >= 0
ASSUME FdAssumption == Fd \subseteq Nat
ASSUME NullAssumption == NULL \notin Proc /\ HEAD \notin Proc

VARIABLES
  main,           \* [at, rec]: where the main thread is and the record it is working on
  bucket, hnext,  \* pidhash[.] and pidhash_next
  slots,          \* procadjslot_list: [Score -> Seq(Proc)], head first
  alloc,          \* records that are allocated
  oomadj, pidfd, valid,
  files,          \* [Fd -> Proc or NULL]: the open pidfds
  state,          \* of the processes
  timer,          \* [created, armed, fired]: timer_created_, the timer, a pending SIGALRM
  dog             \* [at, score, prev_pid, target, ptr]: the watchdog thread

registry == <<bucket, hnext, slots, alloc, oomadj, pidfd, valid, files>>
vars == <<main, registry, state, timer, dog>>

Asleep == [at |-> "sigwait", score |-> 0, prev_pid |-> NULL, target |-> NULL, ptr |-> NULL]

Init ==
  /\ bucket = NULL /\ hnext = [p \in Proc |-> NULL] /\ slots = [s \in Score |-> <<>>]
  /\ alloc = {} /\ files = [f \in Fd |-> NULL]
  /\ oomadj = [p \in Proc |-> 0] /\ pidfd = [p \in Proc |-> -1]
  /\ valid = [p \in Proc |-> FALSE]
  /\ main = [at |-> "idle", rec |-> NULL]
  /\ timer = [created |-> FALSE, armed |-> FALSE, fired |-> FALSE]
  /\ dog = Asleep
  /\ state = [p \in Proc |-> "running"]

-----------------------------------------------------------------------------
(* The main thread.                                                        *)
Main(at, p) == main' = [at |-> at, rec |-> p]

(* The shared lock is held by the watchdog for more than a step only while *)
(* pid_invalidate walks.                                                   *)
Reading == dog.at = "walk"

call_handler_start ==
  /\ main.at = "idle"
  /\ Main("handler", NULL)
  /\ timer' = [timer EXCEPT !.armed = timer.created]
  /\ UNCHANGED <<registry, state, dog>>

(* stop() disarms the timer; a signal already sent stays pending.          *)
call_handler_end ==
  /\ main.at = "handler"
  /\ Main("idle", NULL)
  /\ timer' = [timer EXCEPT !.armed = FALSE]
  /\ UNCHANGED <<registry, state, dog>>

(* A handler that does not return.                                         *)
handler_hangs ==
  /\ main.at = "handler"
  /\ Main("hung", NULL)
  /\ UNCHANGED <<registry, state, timer, dog>>

(* register_oom_adj_proc of an unknown process: the record is complete     *)
(* before proc_insert publishes it in the hash chain and then slots it.    *)
proc_insert(p, s, f) ==
  /\ main.at = "handler"
  /\ p \notin alloc /\ state[p] # "dead"
  /\ files[f] = NULL /\ \A g \in Fd : g < f => files[g] # NULL
  /\ alloc' = alloc \cup {p}
  /\ oomadj' = [oomadj EXCEPT ![p] = s]
  /\ pidfd' = [pidfd EXCEPT ![p] = f] /\ files' = [files EXCEPT ![f] = p]
  /\ valid' = [valid EXCEPT ![p] = TRUE]
  /\ hnext' = [hnext EXCEPT ![p] = bucket] /\ bucket' = p
  /\ Main("slot", p)
  /\ UNCHANGED <<slots, state, timer, dog>>

proc_slot ==
  /\ main.at = "slot" /\ ~Reading
  /\ slots' = [slots EXCEPT ![oomadj[main.rec]] = <<main.rec>> \o @]
  /\ Main("handler", NULL)
  /\ UNCHANGED <<bucket, hnext, alloc, oomadj, pidfd, valid, files, state, timer, dog>>

adjslot_remove(list, p) ==
  LET i == CHOOSE i \in DOMAIN list : list[i] = p
  IN  SubSeq(list, 1, i - 1) \o SubSeq(list, i + 1, Len(list))

Unslotted(p) == [slots EXCEPT ![oomadj[p]] = adjslot_remove(@, p)]

(* register_oom_adj_proc of a known process: proc_unslot, the new oomadj,  *)
(* then proc_slot.                                                         *)
update_record(p, s) ==
  /\ main.at = "handler" /\ p \in alloc /\ ~Reading
  /\ slots' = Unslotted(p)
  /\ oomadj' = [oomadj EXCEPT ![p] = s]
  /\ Main("slot", p)
  /\ UNCHANGED <<bucket, hnext, alloc, pidfd, valid, files, state, timer, dog>>

(* pid_remove unlinks the record from the hash chain without the lock ...  *)
pid_remove(p) ==
  /\ main.at = "handler" /\ p \in alloc
  /\ IF bucket = p
     THEN bucket' = hnext[p] /\ UNCHANGED hnext
     ELSE /\ hnext' = [q \in Proc |-> IF q \in alloc /\ hnext[q] = p THEN hnext[p] ELSE hnext[q]]
          /\ UNCHANGED bucket
  /\ Main("unslot", p)
  /\ UNCHANGED <<slots, alloc, oomadj, pidfd, valid, files, state, timer, dog>>

(* Mutant: the list is changed under the shared lock.                      *)
proc_unslot_shared ==
  /\ main.at = "unslot"
  /\ slots' = Unslotted(main.rec)
  /\ Main("free", main.rec)
  /\ UNCHANGED <<bucket, hnext, alloc, oomadj, pidfd, valid, files, state, timer, dog>>

(* ... takes it out of its list ...                                        *)
proc_unslot ==
  /\ main.at = "unslot" /\ ~Reading
  /\ slots' = Unslotted(main.rec)
  /\ Main("free", main.rec)
  /\ UNCHANGED <<bucket, hnext, alloc, oomadj, pidfd, valid, files, state, timer, dog>>

(* The fields of freed records no longer exist; they are reset here.       *)
Forget(ps) ==
  /\ hnext' = [p \in Proc |-> IF p \in ps THEN NULL ELSE hnext[p]]
  /\ oomadj' = [p \in Proc |-> IF p \in ps THEN 0 ELSE oomadj[p]]
  /\ pidfd' = [p \in Proc |-> IF p \in ps THEN -1 ELSE pidfd[p]]
  /\ valid' = [p \in Proc |-> p \notin ps /\ valid[p]]

(* ... and closes its pidfd and frees it.                                  *)
close_and_free ==
  /\ main.at = "free"
  /\ files' = [files EXCEPT ![pidfd[main.rec]] = NULL]
  /\ alloc' = alloc \ {main.rec} /\ Forget({main.rec})
  /\ Main("handler", NULL)
  /\ UNCHANGED <<bucket, slots, state, timer, dog>>

main_thread ==
  /\ dog.at # "crashed"
  /\ \/ call_handler_start \/ call_handler_end \/ handler_hangs
     \/ \E p \in Proc, s \in Score : update_record(p, s) \/ \E f \in Fd : proc_insert(p, s, f)
     \/ \E p \in Proc : pid_remove(p)
     \/ proc_slot \/ proc_unslot \/ close_and_free

-----------------------------------------------------------------------------
(* The watchdog thread.                                                    *)
Dog(d) == dog' = d /\ UNCHANGED <<main, registry, state, timer>>

create_timer ==
  /\ dog.at = "sigwait" /\ ~timer.created
  /\ timer' = [timer EXCEPT !.created = TRUE]
  /\ UNCHANGED <<main, registry, state, dog>>

(* Mutant: a timer that expires once.                                      *)
timer_expires_once ==
  /\ timer.armed /\ ~timer.fired
  /\ timer' = [timer EXCEPT !.fired = TRUE, !.armed = FALSE]
  /\ UNCHANGED <<main, registry, state, dog>>

(* The timer is periodic; one SIGALRM at most is pending.                  *)
timer_expires ==
  /\ timer.armed /\ ~timer.fired
  /\ timer' = [timer EXCEPT !.fired = TRUE]
  /\ UNCHANGED <<main, registry, state, dog>>

(* The highest score, as a set of one.                                     *)
Highest(S) == {s \in S : \A t \in S : t <= s}

(* sigwait returns and bite() enters watchdog_callback at the highest      *)
(* score; lists that are empty for all of a run are left out.              *)
bite ==
  /\ dog.at = "sigwait" /\ timer.fired
  /\ timer' = [timer EXCEPT !.fired = FALSE]
  /\ \E s \in Highest(Score) : dog' = [Asleep EXCEPT !.at = "find", !.score = s]
  /\ UNCHANGED <<main, registry, state>>

(* proc_adj_tail and proc_adj_prev.  The walk of proc_adj_prev starts at   *)
(* adjslot_tail, which is a null pointer when the list is empty.           *)
proc_adj_tail(list) == IF list = <<>> THEN NULL ELSE list[Len(list)]
proc_adj_prev(list, p) ==
  IF p \notin Range(list) THEN NULL
  ELSE LET i == CHOOSE i \in DOMAIN list : list[i] = p
       IN  IF i = 1 THEN HEAD ELSE list[i - 1]

(* find_victim under the shared lock: it copies the record.                *)
find_victim ==
  LET list == slots[dog.score]
      found == IF dog.prev_pid # NULL /\ proc_adj_prev(list, dog.prev_pid) # NULL
               THEN proc_adj_prev(list, dog.prev_pid) ELSE proc_adj_tail(list)
      lower == {s \in Score : 0 <= s /\ s < dog.score}
      next == IF lower = {} THEN {Asleep}
              ELSE {[dog EXCEPT !.score = s, !.prev_pid = NULL] : s \in Highest(lower)}
  IN  /\ dog.at = "find"
      /\ \E n \in next :
           Dog(IF dog.prev_pid # NULL /\ list = <<>> THEN [dog EXCEPT !.at = "crashed"]
               ELSE IF found \in Proc
               THEN [dog EXCEPT !.at = "kill",
                       !.target = [pid |-> found, pidfd |-> pidfd[found], valid |-> valid[found]]]
               ELSE n)

(* reaper.kill(target, true) on the copied descriptor, when the record was *)
(* valid; pidfd_send_signal fails on a closed descriptor and may fail on a *)
(* process that is dead.                                                   *)
kill_target ==
  LET hit == files[dog.target.pidfd]
  IN  /\ dog.at = "kill"
      /\ \/ /\ dog.target.valid /\ hit # NULL
            /\ state' = [state EXCEPT ![hit] = IF @ = "running" THEN "dying" ELSE @]
            /\ dog' = [dog EXCEPT !.at = "invalidate"]
         \/ /\ dog.target.valid /\ hit # NULL => state[hit] = "dead"
            /\ dog' = [dog EXCEPT !.at = "find", !.prev_pid = dog.target.pid]
            /\ UNCHANGED state
      /\ UNCHANGED <<main, registry, timer>>

(* pid_invalidate takes the shared lock and walks the hash chain.          *)
pid_invalidate ==
  /\ dog.at = "invalidate"
  /\ Dog([dog EXCEPT !.at = "walk", !.ptr = bucket])

pid_lookup ==
  /\ dog.at = "walk"
  /\ IF dog.ptr \in {NULL, dog.target.pid}
     THEN /\ dog' = Asleep
          /\ valid' = IF dog.ptr = NULL THEN valid ELSE [valid EXCEPT ![dog.ptr] = FALSE]
     ELSE /\ dog' = [dog EXCEPT !.ptr = hnext[dog.ptr]]
          /\ UNCHANGED valid
  /\ UNCHANGED <<main, bucket, hnext, slots, alloc, oomadj, pidfd, files, state, timer>>

watchdog_main ==
  create_timer \/ bite \/ find_victim \/ kill_target \/ pid_invalidate \/ pid_lookup

(* init restarts the service.                                              *)
restart ==
  /\ dog.at = "crashed" /\ dog' = Asleep
  /\ main' = [at |-> "idle", rec |-> NULL]
  /\ timer' = [created |-> FALSE, armed |-> FALSE, fired |-> FALSE]
  /\ bucket' = NULL /\ alloc' = {}
  /\ slots' = [s \in Score |-> <<>>] /\ files' = [f \in Fd |-> NULL]
  /\ Forget(Proc) /\ UNCHANGED state

exit(p) ==
  /\ state[p] # "dead"
  /\ state' = [state EXCEPT ![p] = "dead"]
  /\ UNCHANGED <<main, registry, timer, dog>>

Next == \/ main_thread
        \/ watchdog_main \/ timer_expires
        \/ restart
        \/ \E p \in Proc : exit(p)

Spec == Init /\ [][Next]_vars

(* The watchdog thread runs and its timer expires.  Nothing is assumed of  *)
(* the main thread, which is what the watchdog is for.                     *)
FairSpec == Spec /\ WF_vars(watchdog_main) /\ WF_vars(timer_expires)

-----------------------------------------------------------------------------
(* Type invariant of the registry as the watchdog thread sees it: the      *)
(* lists and the hash chain hold allocated records, and an open pidfd      *)
(* belongs to an allocated record.                                         *)
TypeOK ==
  /\ main.at \in {"idle", "handler", "slot", "unslot", "free", "hung"}
  /\ \A s \in Score : Range(slots[s]) \subseteq alloc
  /\ bucket \in alloc \cup {NULL} /\ \A p \in alloc : hnext[p] \in Proc \cup {NULL}
  /\ \A f \in Fd : files[f] # NULL => files[f] \in alloc /\ pidfd[files[f]] = f
  /\ state \in [Proc -> {"running", "dying", "dead"}]

(* pid_invalidate reads the hash chain while the main thread changes it    *)
(* without a lock, and never follows a pointer into a freed record:        *)
(* pid_remove frees after proc_unslot, which waits for the reader.  The    *)
(* types say the same of the lists, the chain and the open pidfds: none    *)
(* refers to a freed record.                                               *)
NoUseAfterFree == TypeOK /\ (dog.at = "walk" => dog.ptr \in alloc \cup {NULL})

(* p can be killed by a watchdog that starts to look for a victim now.     *)
Exposed(p) ==
  /\ main.at = "hung" /\ timer.armed /\ dog.at = "sigwait"
  /\ p \in alloc /\ valid[p] /\ oomadj[p] >= 0

(* A main thread that hangs in a handler cannot keep memory from being     *)
(* freed: the bites that start after it hung kill every valid registered   *)
(* process with a score of 0 or more.  (One that started earlier may act   *)
(* on a stale copy, see KillsTheVictimFound.)                              *)
WatchdogRescues == \A p \in Proc : Exposed(p) ~> state[p] # "running"

(* A removed prev_pid makes find_victim "restart at the tail"; it never    *)
(* makes the watchdog dereference a null pointer.                          *)
NoNullDereference == dog.at # "crashed"

(* The process the watchdog is about to signal is the one whose record it  *)
(* copied, or the copied descriptor is closed.                             *)
KillsTheVictimFound ==
  dog.at = "kill" /\ dog.target.valid => files[dog.target.pidfd] \in {dog.target.pid, NULL}
=============================================================================
