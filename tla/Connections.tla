----------------------------- MODULE Connections ----------------------------
(***************************************************************************)
(* The data connections of lmkd: ctrl_connect_handler, ctrl_data_read,     *)
(* ctrl_data_close, the two passes of mainloop over an epoll batch, and    *)
(* the claims that a connection holds on process records, composed with    *)
(* Records.tla, which ProcRegistry.tla implements.                         *)
(*                                                                         *)
(* A step of lmkd is one event of a batch (or one iteration of the loop    *)
(* that drops all connections); clients connect, send and hang up at any   *)
(* time.  A read of a socket with nothing to read blocks the main thread.  *)
(***************************************************************************)
EXTENDS Integers, Sequences, FiniteSets

CONSTANTS Conn,           \* connections; one can be made again after it ended
          Client,
          Owner,          \* [Conn -> Client]: the process at the other end
          Rec,            \* processes that can be registered
          Cmd,            \* what clients send
          MaxDataConn,    \* MAX_DATA_CONN
          AcceptMayFail,  \* accept() may fail, for want of file descriptors
          AddMayFail,     \* epoll_ctl(EPOLL_CTL_ADD) may fail
          MaxFailures,    \* bound on those failures
          Nobody,         \* pid 0
          NULL

ASSUME OwnerAssumption == Owner \in [Conn -> Client]
ASSUME CmdAssumption ==
  Cmd \subseteq {"procprio", "procremove", "subscribe", "no_credentials"}
ASSUME SlotAssumption == MaxDataConn \in Nat \ {0}
ASSUME NameAssumption == NULL \notin Conn /\ {Nobody, NULL} \cap Client = {}

VARIABLES
  reg_pid, slots,        \* of Records
  sock, pid, mask,       \* data_sock[i].sock (NULL: -1), .pid and .async_event_mask
  maxevents,             \* relative to the sources other than data connections
  backlog,               \* connections not accepted yet
  end,                   \* the clients' ends: "idle", "up" or "hup"
  inbox,                 \* connections with a message not read yet; what it says is
                         \* chosen when it is read
  subscribed,            \* connections that have asked for notifications
  failures,              \* accepted connections that could not be added to epollfd
  at                     \* [step, hups, others, slot]: the main thread

records == <<reg_pid, slots>>
conn_vars == <<sock, pid, mask, maxevents, subscribed, failures>>
client_vars == <<backlog, end, inbox>>
vars == <<records, conn_vars, client_vars, at>>

Slot == 0..(MaxDataConn - 1)
Listen == -1    \* ctrl_sock as the source of an event
Msg == [cmd : Cmd \cap {"procprio", "procremove"}, rec : Rec]
         \cup [cmd : Cmd \cap {"subscribe"}, rec : {NULL}]

Reg == INSTANCE Records WITH Pid <- Rec, Adj <- {0}

Waiting == [step |-> "wait", hups |-> <<>>, others |-> <<>>, slot |-> 0]

Init ==
  /\ Reg!Init
  /\ sock = [i \in Slot |-> NULL] /\ pid = [i \in Slot |-> Nobody]
  /\ mask = [i \in Slot |-> FALSE] /\ maxevents = 0 /\ subscribed = {} /\ failures = 0
  /\ backlog = <<>>
  /\ end = [c \in Conn |-> "idle"] /\ inbox = {}
  /\ at = Waiting

-----------------------------------------------------------------------------
(* The clients.                                                            *)
connect(c) ==
  /\ end[c] = "idle"
  /\ end' = [end EXCEPT ![c] = "up"] /\ backlog' = Append(backlog, c)
  /\ UNCHANGED <<records, conn_vars, inbox, at>>

send(c) ==
  /\ end[c] = "up" /\ c \notin inbox
  /\ inbox' = inbox \cup {c}
  /\ UNCHANGED <<records, conn_vars, backlog, end, at>>

hang_up(c) ==
  /\ end[c] = "up"
  /\ end' = [end EXCEPT ![c] = "hup"]
  /\ UNCHANGED <<records, conn_vars, backlog, inbox, at>>

-----------------------------------------------------------------------------
(* Mutant: the claims of the peer outlive its connection.                  *)
ctrl_data_close_keeps_claims(i) ==
  /\ maxevents' = maxevents - 1
  /\ sock' = [sock EXCEPT ![i] = NULL]
  /\ IF sock[i] = NULL THEN UNCHANGED <<end, inbox, subscribed>>
     ELSE /\ end' = [end EXCEPT ![sock[i]] = "idle"]
          /\ inbox' = inbox \ {sock[i]}
          /\ subscribed' = subscribed \ {sock[i]}
  /\ UNCHANGED records

(* ctrl_data_close; sock[i] may be -1 already when an event is stale.      *)
ctrl_data_close(i) ==
  /\ maxevents' = maxevents - 1
  /\ sock' = [sock EXCEPT ![i] = NULL]
  /\ IF sock[i] = NULL THEN UNCHANGED <<end, inbox, subscribed>>
     ELSE /\ end' = [end EXCEPT ![sock[i]] = "idle"]
          /\ inbox' = inbox \ {sock[i]}
          /\ subscribed' = subscribed \ {sock[i]}
  /\ Reg!Unclaim(pid[i])

(* The command handlers that matter to connections and claims; one that is *)
(* refused by claim_record changes nothing.                                *)
handle_command(i, m) ==
  LET c == Owner[sock[i]]
      allowed == CASE m.cmd = "procprio" -> reg_pid[m.rec] \in {c, Nobody, NULL}
                   [] m.cmd = "procremove" -> reg_pid[m.rec] \in {c, Nobody}
                   [] OTHER -> FALSE
  IN  /\ CASE allowed /\ m.cmd = "procprio"   -> Reg!Prioritize(c, m.rec, 0)
           [] allowed /\ m.cmd = "procremove" -> Reg!Unregister(c, m.rec)
           [] OTHER -> UNCHANGED records
      /\ IF m.cmd = "subscribe"
         THEN mask' = [mask EXCEPT ![i] = TRUE] /\ subscribed' = subscribed \cup {sock[i]}
         ELSE UNCHANGED <<mask, subscribed>>

(* ctrl_command_handler: a closed slot and an EOF are only logged; a       *)
(* message without credentials closes the connection.                      *)
ctrl_command_handler(i) ==
  IF sock[i] = NULL
  THEN UNCHANGED <<records, conn_vars, client_vars>>
  ELSE LET c == sock[i]
       IN  \/ /\ end[c] = "hup" /\ c \notin inbox
              /\ UNCHANGED <<records, conn_vars, client_vars>>
           \/ /\ c \in inbox /\ "no_credentials" \in Cmd
              /\ ctrl_data_close(i)
              /\ UNCHANGED <<pid, mask, backlog, failures>>
           \/ /\ c \in inbox
              /\ pid' = [pid EXCEPT ![i] = Owner[c]]
              /\ inbox' = inbox \ {c}
              /\ \E m \in Msg : handle_command(i, m)
              /\ UNCHANGED <<sock, maxevents, backlog, end, failures>>

(* Mutant: the subscriptions of the slot's previous connection survive.    *)
MaskAfterAccept_kept(i) == mask

(* async_event_mask = 0                                                    *)
MaskAfterAccept(i) == [mask EXCEPT ![i] = FALSE]

(* Mutant: the new connection is not counted.                              *)
EventsAfterAccept_unchanged == maxevents

(* maxevents++                                                             *)
EventsAfterAccept == maxevents + 1

(* accept() and epoll_ctl(ADD) for slot i.  A failed accept leaves the     *)
(* connection in the backlog.  A failed ADD closes it, which counts and    *)
(* unclaims like any other close.                                          *)
accept(i) ==
  LET c == Head(backlog)
  IN  /\ \/ /\ sock' = [sock EXCEPT ![i] = c]
            /\ mask' = MaskAfterAccept(i)
            /\ maxevents' = EventsAfterAccept
            /\ backlog' = Tail(backlog)
            /\ UNCHANGED <<end, inbox, records, failures>>
         \/ /\ AddMayFail /\ failures < MaxFailures
            /\ failures' = failures + 1
            /\ mask' = MaskAfterAccept(i)
            /\ maxevents' = maxevents - 1
            /\ backlog' = Tail(backlog)
            /\ end' = [end EXCEPT ![c] = "idle"]
            /\ inbox' = inbox \ {c}
            /\ Reg!Unclaim(pid[i])
            /\ UNCHANGED sock
         \/ /\ AcceptMayFail
            /\ UNCHANGED <<sock, mask, maxevents, backlog, end, inbox, records, failures>>
      /\ UNCHANGED <<pid, subscribed>>

Free == {i \in Slot : sock[i] = NULL}
Lowest(S) == CHOOSE i \in S : \A j \in S : i <= j

Done == IF Len(at.others) > 1 THEN [Waiting EXCEPT !.step = "handle", !.others = Tail(at.others)]
        ELSE Waiting

-----------------------------------------------------------------------------
(* mainloop.  epoll reports everything that is ready, in any order.        *)
Orders(S) == {s \in [1..Cardinality(S) -> S] : \A i, j \in DOMAIN s : s[i] = s[j] => i = j}

Hups == {i \in Slot : sock[i] # NULL /\ end[sock[i]] = "hup"}

Others == {i \in Slot : sock[i] # NULL /\ end[sock[i]] # "hup" /\ sock[i] \in inbox}
             \cup (IF backlog # <<>> THEN {Listen} ELSE {})

epoll_wait ==
  /\ at.step = "wait" /\ Hups \cup Others # {}
  /\ \E h \in Orders(Hups), o \in Orders(Others) :
       at' = [Waiting EXCEPT !.step = "handle", !.hups = h, !.others = o]
  /\ UNCHANGED <<records, conn_vars, client_vars>>

(* The first pass closes dropped connections.                              *)
first_pass ==
  /\ at.step = "handle" /\ at.hups # <<>>
  /\ ctrl_data_close(Head(at.hups))
  /\ at' = IF Len(at.hups) = 1 /\ at.others = <<>> THEN Waiting
           ELSE [at EXCEPT !.hups = Tail(@)]
  /\ UNCHANGED <<pid, mask, backlog, failures>>

(* The second pass handles the rest.                                       *)
Second(event) == at.step = "handle" /\ at.hups = <<>> /\ Head(at.others) = event

ctrl_data_handler(i) ==
  /\ Second(i)
  /\ ctrl_command_handler(i)
  /\ at' = Done

ctrl_connect_handler ==
  /\ Second(Listen)
  /\ IF Free # {}
     THEN accept(Lowest(Free)) /\ at' = Done
     ELSE at' = [at EXCEPT !.step = "drop"] /\ UNCHANGED <<records, conn_vars, client_vars>>

(* All slots are taken: drop all connections, then accept in slot 0.       *)
drop_connections ==
  /\ at.step = "drop"
  /\ IF at.slot < MaxDataConn
     THEN /\ ctrl_data_close(at.slot)
          /\ at' = [at EXCEPT !.slot = @ + 1]
          /\ UNCHANGED <<pid, mask, backlog, failures>>
     ELSE accept(0) /\ at' = Done

main_thread ==
  \/ epoll_wait \/ first_pass \/ ctrl_connect_handler \/ drop_connections
  \/ \E i \in Slot : ctrl_data_handler(i)

Next == main_thread
        \/ \E c \in Conn : connect(c) \/ hang_up(c) \/ send(c)

Spec == Init /\ [][Next]_vars

(* The main thread runs unless it is blocked.  Nothing is assumed of       *)
(* clients.                                                                *)
FairSpec == Spec /\ WF_vars(main_thread)

-----------------------------------------------------------------------------
(* Type invariant of the connections: a connection is in one slot.         *)
TypeOK ==
  /\ sock \in [Slot -> Conn \cup {NULL}] /\ pid \in [Slot -> Client \cup {Nobody}]
  /\ mask \in [Slot -> BOOLEAN] /\ maxevents \in Int
  /\ end \in [Conn -> {"idle", "up", "hup"}]
  /\ \A i, j \in Slot : sock[i] # NULL /\ sock[i] = sock[j] => i = j
  /\ \A i \in Slot : sock[i] # NULL => end[sock[i]] \in {"up", "hup"}

(* maxevents, the room epoll_wait is given, counts the open connections,   *)
(* through drops, overflows of data_sock and failed accepts; only an       *)
(* accepted connection that could not be added to epollfd, which is closed *)
(* without having been counted, leaves it one short for good.  A slot's    *)
(* connection is one that is up or was hung up by the client (the types).  *)
EventsCounted ==
  TypeOK /\ maxevents = Cardinality({i \in Slot : sock[i] # NULL}) - failures

(* A claim does not outlive its registrant's connections: a claimed record *)
(* has a registrant that an open connection belongs to, so a record of a   *)
(* client that is gone can be claimed by the next one.                     *)
ClaimantConnected ==
  \A r \in Rec : reg_pid[r] \in Client => \E i \in Slot : sock[i] # NULL /\ Owner[sock[i]] = reg_pid[r]

(* Only subscribers are notified of kills: a slot's event mask never       *)
(* carries over to the connection that gets the slot next.                 *)
OnlySubscribers == \A i \in Slot : sock[i] # NULL /\ mask[i] => sock[i] \in subscribed

(* Everything a client sends is read, unless the connection ends: no order *)
(* of events makes the main thread wait on a silent connection.            *)
MessagesRead == \A c \in Conn : c \in inbox ~> c \notin inbox

(* Records become unclaimed only when the "old registrant is gone": its    *)
(* last connection is being closed.                                        *)
ClaimsKept ==
  [][\A r \in Rec : reg_pid[r] \in Client /\ reg_pid'[r] = Nobody =>
       ~\E i \in Slot : sock'[i] # NULL /\ Owner[sock'[i]] = reg_pid[r]]_vars
=============================================================================
