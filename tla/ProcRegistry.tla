---------------------------- MODULE ProcRegistry ----------------------------
(***************************************************************************)
(* The registry of processes of the main thread: the hash table pidhash    *)
(* that finds the record of a pid, and the doubly linked circular lists    *)
(* procadjslot_list, one per oom_score_adj, that order the records; the    *)
(* commands procprio, procremove and procpurge of the clients, and the     *)
(* removals lmkd makes itself.                                             *)
(*                                                                         *)
(* A record is named by its pid (there is one per pid).  The lists are     *)
(* modelled pointer by pointer; a hash chain is a sequence.  A Pid is one  *)
(* process: a pid that is used again is another value.                     *)
(***************************************************************************)
EXTENDS Integers, FiniteSets, Sequences, Functions

CONSTANTS Pid, Client,
          Adj,           \* oom_score_adj values, \subseteq Int
          PerAppMemcg,   \* per_app_memcg
          HashSize,      \* PIDHASH_SZ
          Hash,          \* [Pid -> 0..HashSize-1], pid_hashfn
          Nobody, NULL

ASSUME AdjAssumption == Adj \subseteq Int /\ 200 \in Adj /\ Pid \cap Adj = {}
ASSUME HashAssumption == HashSize \in Nat \ {0} /\ Hash \in [Pid -> 0..(HashSize - 1)]
ASSUME NameAssumption == {Nobody, NULL} \cap Client = {} /\ Nobody # NULL
ASSUME NullAssumption == NULL \notin [client : Client, at : Nat, todo : Seq(Pid)]

VARIABLES
  pidhash,      \* [0..HashSize-1 -> Seq(Pid)]
  next, prev,   \* asl.next and asl.prev of the list anchors and of the records
  oomadj,       \* procp->oomadj
  reg_pid,      \* procp->reg_pid; NULL: the record does not exist
  kernel_adj,   \* /proc/<pid>/oom_score_adj, NULL: the process is dead
  purge         \* the procpurge in progress, or NULL

vars == <<pidhash, next, prev, oomadj, reg_pid, kernel_adj, purge>>

Bucket == 0..(HashSize - 1)
Node == Adj \cup Pid    \* procadjslot_list[a] and procp->asl
Live == {p \in Pid : reg_pid[p] # NULL}

Init ==
  /\ pidhash = [b \in Bucket |-> <<>>]
  /\ next = [n \in Node |-> n] /\ prev = [n \in Node |-> n]
  /\ oomadj = [p \in Pid |-> CHOOSE a \in Adj : TRUE]
  /\ reg_pid = [p \in Pid |-> NULL]
  /\ kernel_adj \in [Pid -> Adj]
  /\ purge = NULL

-----------------------------------------------------------------------------
(* The lists.  l is the pair of the pointers.                              *)
L == [next |-> next, prev |-> prev]

adjslot_insert(l, head, new) ==
  LET nx == l.next[head]
  IN  [next |-> [l.next EXCEPT ![new] = nx, ![head] = new],
       prev |-> [l.prev EXCEPT ![new] = head, ![nx] = new]]

(* Mutant: the successor keeps its pointer to the removed element.         *)
adjslot_remove_half(l, old) ==
  [next |-> [l.next EXCEPT ![l.prev[old]] = l.next[old]], prev |-> l.prev]

adjslot_remove(l, old) ==
  [next |-> [l.next EXCEPT ![l.prev[old]] = l.next[old]],
   prev |-> [l.prev EXCEPT ![l.next[old]] = l.prev[old]]]

(* The pointers of a freed record no longer exist; they are reset here.    *)
free(l, p) == [next |-> [l.next EXCEPT ![p] = p], prev |-> [l.prev EXCEPT ![p] = p]]

Install(l) == next' = l.next /\ prev' = l.prev

(* pid_lookup walks the chain of the pid.                                  *)
pid_lookup(p) == p \in Range(pidhash[Hash[p]])

(* proc_insert of a record that was just allocated and filled.             *)
proc_insert(c, p, a) ==
  /\ pidhash' = [pidhash EXCEPT ![Hash[p]] = <<p>> \o @]
  /\ oomadj' = [oomadj EXCEPT ![p] = a]
  /\ reg_pid' = [reg_pid EXCEPT ![p] = c]
  /\ Install(adjslot_insert(L, a, p))

(* The loop of pid_remove unlinks the record it finds from its chain.      *)
unhash(chain, p) ==
  LET i == CHOOSE i \in DOMAIN chain : chain[i] = p
  IN  SubSeq(chain, 1, i - 1) \o SubSeq(chain, i + 1, Len(chain))

(* Mutant: the record stays in its hash chain.                             *)
pid_remove_hashed(p) ==
  /\ reg_pid' = [reg_pid EXCEPT ![p] = NULL]
  /\ Install(free(adjslot_remove(L, p), p))
  /\ UNCHANGED <<pidhash, oomadj>>

(* pid_remove when there is a record of p.                                 *)
pid_remove(p) ==
  /\ pidhash' = [pidhash EXCEPT ![Hash[p]] = unhash(@, p)]
  /\ reg_pid' = [reg_pid EXCEPT ![p] = NULL]
  /\ Install(free(adjslot_remove(L, p), p))
  /\ UNCHANGED oomadj

(* claim_record(procp, c) returns true.                                    *)
claim_record(c, p) == reg_pid[p] \in {c, Nobody}

-----------------------------------------------------------------------------
(* The value a launcher is registered with under per_app_memcg.            *)
oom_adj_score(a, app) == IF app /\ PerAppMemcg /\ a \in 600..699 THEN 200 ELSE a

(* Mutant: a known record changes hands without claim_record.              *)
update_record_unclaimed(c, p, a) ==
  /\ Install(adjslot_insert(adjslot_remove(L, p), a, p))
  /\ oomadj' = [oomadj EXCEPT ![p] = a]
  /\ reg_pid' = [reg_pid EXCEPT ![p] = c]
  /\ UNCHANGED pidhash

(* The last branch of register_oom_adj_proc.                               *)
update_record(c, p, a) ==
  /\ claim_record(c, p)
  /\ Install(adjslot_insert(adjslot_remove(L, p), a, p))
  /\ oomadj' = [oomadj EXCEPT ![p] = a]
  /\ reg_pid' = [reg_pid EXCEPT ![p] = c]
  /\ UNCHANGED pidhash

(* register_oom_adj_proc returns early when the memcg of an app, a pidfd   *)
(* or memory for the record cannot be had, or the record is not c's.       *)
register_oom_adj_proc(c, p, a, app) ==
  LET score == oom_adj_score(a, app)
  IN  \/ ~pid_lookup(p) /\ proc_insert(c, p, score)
      \/ pid_lookup(p) /\ update_record(c, p, score)
      \/ /\ (app /\ PerAppMemcg) \/ ~pid_lookup(p) \/ ~claim_record(c, p)
         /\ UNCHANGED <<pidhash, next, prev, oomadj, reg_pid>>

(* apply_proc_prio for valid arguments; it does nothing for invalid ones,  *)
(* for a thread that leads no group and for a process that is dead.        *)
apply_proc_prio(c, p, a, app) ==
  /\ purge = NULL
  /\ kernel_adj[p] # NULL
  /\ kernel_adj' = [kernel_adj EXCEPT ![p] = a]
  /\ register_oom_adj_proc(c, p, a, app)
  /\ UNCHANGED purge

cmd_procremove(c, p) ==
  /\ purge = NULL
  /\ pid_lookup(p)
  /\ claim_record(c, p)
  /\ pid_remove(p)
  /\ UNCHANGED <<kernel_adj, purge>>

(* cmd_procpurge: todo is what remains of the chain of bucket at.          *)
cmd_procpurge(c) ==
  /\ purge = NULL
  /\ purge' = [client |-> c, at |-> 0, todo |-> pidhash[0]]
  /\ UNCHANGED <<pidhash, next, prev, oomadj, reg_pid, kernel_adj>>

purge_bucket ==
  /\ purge # NULL /\ purge.todo = <<>>
  /\ purge' = IF purge.at + 1 < HashSize
              THEN [purge EXCEPT !.at = @ + 1, !.todo = pidhash[purge.at + 1]]
              ELSE NULL
  /\ UNCHANGED <<pidhash, next, prev, oomadj, reg_pid, kernel_adj>>

(* Mutant: the walk ends after the first removal of a chain.               *)
Todo_lost == IF claim_record(purge.client, Head(purge.todo)) THEN <<>> ELSE Tail(purge.todo)

(* procp->pidhash_next is read before the record is removed.               *)
Todo == Tail(purge.todo)

purge_record ==
  LET p == Head(purge.todo)
  IN  /\ purge # NULL /\ purge.todo # <<>>
      /\ purge' = [purge EXCEPT !.todo = Todo]
      /\ IF claim_record(purge.client, p) THEN pid_remove(p)
         ELSE UNCHANGED <<pidhash, next, prev, oomadj, reg_pid>>
      /\ UNCHANGED kernel_adj

(* remove_claims when c's connection is closed.                            *)
remove_claims(c) ==
  /\ purge = NULL
  /\ reg_pid' = [p \in Pid |->
                   IF pid_lookup(p) /\ reg_pid[p] = c THEN Nobody ELSE reg_pid[p]]
  /\ UNCHANGED <<pidhash, next, prev, oomadj, kernel_adj, purge>>

(* kill_one_process removes its victim's record, proc_get_heaviest that of *)
(* a process whose size cannot be read.                                    *)
remove_victim(p) ==
  /\ purge = NULL
  /\ pid_lookup(p)
  /\ pid_remove(p)
  /\ UNCHANGED <<kernel_adj, purge>>

process_dies(p) ==
  /\ kernel_adj[p] # NULL
  /\ kernel_adj' = [kernel_adj EXCEPT ![p] = NULL]
  /\ UNCHANGED <<pidhash, next, prev, oomadj, reg_pid, purge>>

Next ==
  \/ \E c \in Client :
       \/ \E p \in Pid, a \in Adj, app \in BOOLEAN : apply_proc_prio(c, p, a, app)
       \/ \E p \in Pid : cmd_procremove(c, p)
       \/ cmd_procpurge(c)
       \/ remove_claims(c)
  \/ purge_bucket \/ purge_record
  \/ \E p \in Pid : remove_victim(p) \/ process_dies(p)

Spec == Init /\ [][Next]_vars

-----------------------------------------------------------------------------
(* Type invariant of the registry; a record's pointers point to the        *)
(* anchors and records, never to freed memory's stale contents.            *)
TypeOK ==
  /\ pidhash \in [Bucket -> Seq(Pid)]
  /\ next \in [Node -> Node] /\ prev \in [Node -> Node]
  /\ oomadj \in [Pid -> Adj]
  /\ reg_pid \in [Pid -> Client \cup {Nobody, NULL}]
  /\ kernel_adj \in [Pid -> Adj \cup {NULL}]

(* The list a node belongs to.                                             *)
Home(n) == IF n \in Pid THEN oomadj[n] ELSE n

(* The adj lists are circular doubly linked lists of registered processes: *)
(* prev undoes next, neighbours are in the list of the same oom_score_adj, *)
(* and no anchor or record points to a record that was freed.              *)
ListsWellFormed ==
  /\ \A n \in Node : prev[next[n]] = n /\ next[prev[n]] = n
  /\ \A n \in Live \cup Adj : next[n] \in Live \cup Adj /\ Home(next[n]) = Home(n)

(* pid_lookup finds every record, in one place: the hash chains hold the   *)
(* registered processes, each once and in the bucket of its pid.           *)
HashIndexesRecords ==
  /\ \A b \in Bucket : \A i, j \in DOMAIN pidhash[b] :
        pidhash[b][i] = pidhash[b][j] => i = j
  /\ \A b \in Bucket : Range(pidhash[b]) = {p \in Live : Hash[p] = b}

(* The list of a from its anchor on, as the loops over it see it.          *)
Walk(a) ==
  LET path[i \in 0..(Cardinality(Pid) + 1)] == IF i = 0 THEN a ELSE next[path[i - 1]]
      len == CHOOSE i \in 0..Cardinality(Pid) :
               path[i + 1] = a /\ \A j \in 1..i : path[j] # a
  IN  [i \in 1..len |-> path[i]]

R == INSTANCE Records WITH slots <- [a \in Adj |-> Walk(a)]

(* The registry implements Records: the lists are the queues of the adj    *)
(* values, newest first, so that their tails are the least recently set    *)
(* processes; and only the claimant of a record changes or removes it.     *)
ImplementsRecords == R!Spec

(* procpurge is complete: when its loops end, no record is left that the   *)
(* requestor has registered or could claim.                                *)
PurgeComplete ==
  [][purge # NULL /\ purge' = NULL =>
       \A p \in Live : reg_pid[p] \notin {purge.client, Nobody}]_vars

(* A client's attempt "to modify a process registered by another client"   *)
(* has no effect: the kernel's oom_score_adj of a registered process is    *)
(* the one of its record.                                                  *)
KernelAgrees == \A p \in Live : kernel_adj[p] \in {oomadj[p], NULL}
=============================================================================
