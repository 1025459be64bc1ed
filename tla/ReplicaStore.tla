---------------------------- MODULE ReplicaStore ----------------------------
(***************************************************************************)
(* One key of the distributed store and the services that read and write   *)
(* it: TaskService (task:<id>), ResultService (result:<id>, HT1),          *)
(* WorkerAssignmentService (worker:<id>, HT2) and the routed /put, /get    *)
(* and /del.  The primary is written first, the replicas of its successor  *)
(* chain one by one after it; nodes join, leave and crash in between.      *)
(* One step is one remote call or one lock region.  A lookup answers the   *)
(* first member after the key, even one that crashed and is not forgotten  *)
(* yet (ChordRing says when that ends).                                    *)
(***************************************************************************)
EXTENDS Integers, Sequences, FiniteSets, TLC

CONSTANTS N, Founders,       \* the nodes, and the members at first
          K,                 \* replication_k
          Services,          \* the services looked at
          Clients, Items,    \* callers, and what they write
          Homes,             \* the nodes they call
          None, Unsure,
          PrimaryRetries,    \* PRIMARY_WRITE_RETRIES and ROUTED_RETRIES
          ReplicaRetries,    \* REPLICA_RETRIES, of task replicas only
          MaxCalls, MaxTroubles   \* bounds

Nodes == 1 .. N              \* in ring order from the key on

ASSUME StoreAssumption ==
  /\ N \in Nat /\ Founders \subseteq Nodes /\ Founders # {} /\ K \in Nat \ {0}
  /\ Services \subseteq {"task", "result", "worker", "data"} /\ Items # {}
  /\ Homes \subseteq Nodes
  /\ PrimaryRetries \in Nat /\ ReplicaRetries \in Nat
  /\ MaxCalls \in Nat /\ MaxTroubles \in Nat
  /\ None \notin Nodes \cup Clients \cup Items

VARIABLES service,   \* the service the key belongs to
          store,     \* data_store at the key, by node
          disk,      \* its snapshot
          up,        \* the processes that run
          members,   \* the nodes lookups and successor pointers name
          lock,      \* _per_key_locks, by process
          op,        \* the call each client makes
          calls,     \* calls still to come
          latest,    \* history: what the last undisturbed write left
          assigned,  \* history: acknowledged appends nobody removed
          unlocked,  \* history: a list was written without its lock
          happened   \* joins, leaves, crashes and failed calls so far

ring == <<up, members>>
data == <<store, disk>>
history == <<latest, assigned, unlocked>>
vars == <<service, data, ring, lock, op, calls, history, happened>>

(* A record: for HT2 its items are the tasks in the list.                  *)
Record == [version : Nat, deleted : BOOLEAN, items : Seq(Items)]
ASSUME RecordAssumption == None \notin Record
Kinds == {"get", "put", "delete", "register", "update", "deregister", "purge",
          "append", "remove", "drop"}
KindsOf(s) == CASE s = "task" -> {"get", "register", "update", "deregister", "purge"}
                [] s = "worker" -> {"get", "append", "remove", "drop"}
                [] OTHER -> {"get", "put", "delete"}
Troubles == {"join", "leave", "crash", "fault"}
Op == [kind : Kinds, step : {"idle", "read", "replicas", "put", "del", "lock",
                             "locked", "chain", "copy", "done"},
       item : Items, home : Nodes, primary : Nodes, target : Nodes, tries : Nat,
       value : Record \cup {None}, todo : Seq(Nodes), missed : Nat, alone : BOOLEAN]

TypeOK ==
  /\ service \in Services
  /\ store \in [Nodes -> Record \cup {None}] /\ disk \in [Nodes -> Record \cup {None}]
  /\ up \in SUBSET Nodes /\ members \in SUBSET Nodes /\ members # {}
  /\ lock \in [Nodes -> Clients \cup {None}]
  /\ op \in [Clients -> Op]
  /\ calls \in 0 .. MaxCalls
  /\ latest \in Record \cup {None, Unsure} /\ assigned \in SUBSET Items
  /\ unlocked \in BOOLEAN
  /\ happened \in [Troubles -> Nat]

Least(S) == CHOOSE n \in S : \A m \in S : n <= m
SomeItem == CHOOSE x \in Items : TRUE
NoOp == [kind |-> "get", step |-> "idle", item |-> SomeItem, home |-> Least(Founders),
         primary |-> Least(Founders), target |-> Least(Founders), tries |-> 0,
         value |-> None, todo |-> << >>, missed |-> 0, alone |-> FALSE]

Init ==
  /\ service \in Services
  /\ store = [n \in Nodes |-> None] /\ disk = store
  /\ up = Founders /\ members = Founders
  /\ lock = [n \in Nodes |-> None]
  /\ op = [c \in Clients |-> NoOp]
  /\ calls = MaxCalls /\ latest = None /\ assigned = {} /\ unlocked = FALSE
  /\ happened = [t \in Troubles |-> 0]

(***************************************************************************)
(* The ring as the services see it                                         *)
(***************************************************************************)
Owner == Least(members)
NextMember(n) == LET later == {m \in members : m > n}
                 IN IF later # {} THEN Least(later) ELSE Owner

(* get_successor_chain: a node is in the chain before it is asked for its  *)
(* successor, so the walk ends after one that does not answer.             *)
Extended(so) ==
  LET last == so[Len(so)]
      next == NextMember(last)
  IN IF last \notin up \/ \E i \in 1 .. Len(so) : so[i] = next
     THEN so ELSE Append(so, next)
Chain(primary) ==
  LET walk[k \in 0 .. K - 1] == IF k = 0 THEN <<primary>> ELSE Extended(walk[k - 1])
  IN walk[K - 1]

(* Mutant of Replicas: the first replica is taken for the primary.         *)
ReplicasButFirst(o) ==
  LET chain == Chain(o.primary)
  IN SubSeq(chain, 3, Len(chain))

Replicas(o) ==
  LET chain == Chain(o.primary)
  IN SubSeq(chain, 2, Len(chain))

(* node.put and node.delete save every change, so a snapshot made for      *)
(* another key adds nothing; v is None for a delete.                       *)
Write(n, v) ==
  /\ store' = [store EXCEPT ![n] = v]
  /\ disk' = IF v = None /\ store[n] = None THEN disk ELSE [disk EXCEPT ![n] = v]

Quiet == members \subseteq up /\ \A c \in Clients : op[c].step \in {"idle", "done"}
Set(c, o) == op' = [op EXCEPT ![c] = o]

(* Mutant of Finish: the lock is still held when the call has returned.    *)
FinishLocked(c, o, l) ==
  /\ Set(c, [o EXCEPT !.step = "done", !.todo = << >>])
  /\ latest' = l /\ UNCHANGED lock

(* The call of c is over and the key's content is l.                       *)
Finish(c, o, l) ==
  /\ Set(c, [o EXCEPT !.step = "done", !.todo = << >>])
  /\ latest' = l
  /\ lock' = [n \in Nodes |-> IF lock[n] = c THEN None ELSE lock[n]]

Go(c, o) == Set(c, o) /\ UNCHANGED <<latest, lock>>

(* Something out of the ordinary, within the bound.                        *)
Total == happened["join"] + happened["leave"] + happened["crash"]
Trouble(t) ==
  /\ Total + happened["fault"] < MaxTroubles
  /\ happened' = [happened EXCEPT ![t] = @ + 1]

(* A call from o.home to n is answered, or fails although n is healthy.    *)
Reach(o, n, ok) ==
  IF ok THEN n \in up /\ UNCHANGED happened
  ELSE \/ n \notin up /\ UNCHANGED happened
       \/ n \in up /\ n # o.home /\ Trouble("fault")

(* ... and when it fails it may have been carried out.                     *)
Store(n, v, ok) ==
  IF ok THEN Write(n, v)
  ELSE UNCHANGED data \/ (n \in up /\ Write(n, v))

(***************************************************************************)
(* The calls                                                               *)
(***************************************************************************)
(* create_task_record and set_replica_nodes; update_task_record;           *)
(* mark_task_deleted; _new_record and _bump of HT2.                        *)
NewTask(x) == [version |-> 2, deleted |-> FALSE, items |-> <<x>>]
Patched(r, x) == [r EXCEPT !.version = @ + 1, !.items = <<x>>]
Deleted(r) == [r EXCEPT !.version = @ + 1, !.deleted = TRUE]

(* Mutant of Has: only the last task of the list is compared.              *)
HasLast(r, x) == r # None /\ r.items # << >> /\ r.items[Len(r.items)] = x

Has(r, x) == r # None /\ \E i \in 1 .. Len(r.items) : r.items[i] = x
Appended(r, x) ==
  IF r = None THEN [version |-> 1, deleted |-> FALSE, items |-> <<x>>]
  ELSE [r EXCEPT !.version = @ + 1, !.items = Append(@, x)]
Filtered(s, x) ==
  LET kept[i \in 0 .. Len(s)] ==
        IF i = 0 THEN << >>
        ELSE IF s[i] = x THEN kept[i - 1] ELSE Append(kept[i - 1], s[i])
  IN kept[Len(s)]
Without(r, x) == [r EXCEPT !.version = @ + 1, !.items = Filtered(@, x)]

(* The first step of a call: HT2 writes at home, and every append, go      *)
(* through the lock.                                                       *)
FirstStep(kind, h) ==
  CASE kind = "put" -> "put"
    [] kind = "delete" -> "del"
    [] kind \in {"append", "drop"} \/ (kind = "remove" /\ Owner = h) -> "lock"
    [] OTHER -> "read"

Start(c, kind, h, x) ==
  /\ op[c].step \in {"idle", "done"} /\ calls > 0 /\ calls' = calls - 1
  /\ kind \in KindsOf(service) /\ h \in up \cap members
  /\ kind \in {"get", "delete", "update", "deregister", "purge", "drop"} => x = SomeItem
  /\ op' = [d \in Clients |->
              IF d = c
              THEN [kind |-> kind, step |-> FirstStep(kind, h), item |-> x, home |-> h,
                    primary |-> Owner, target |-> Owner, tries |-> 0,
                    value |-> IF kind = "put"
                              THEN [version |-> 1, deleted |-> FALSE, items |-> <<x>>]
                              ELSE None,
                    todo |-> << >>, missed |-> 0, alone |-> Quiet]
              ELSE [op[d] EXCEPT !.alone = FALSE]]
  /\ assigned' = CASE kind = "remove" -> assigned \ {x}
                   [] kind = "drop" -> {}
                   [] OTHER -> assigned
  /\ UNCHANGED <<service, data, ring, lock, latest, unlocked, happened>>

(* What the call does with the value it read, None when there is none: it  *)
(* returns, or goes on with the step, the record and the primary to write. *)
Writes(o, v) ==
  CASE o.kind = "register" ->
         IF v # None /\ ~v.deleted THEN {}
         ELSE {[o EXCEPT !.step = "put", !.value = NewTask(o.item), !.tries = 0,
                         !.primary = Owner, !.target = Owner]}
    [] o.kind = "update" ->
         IF v = None \/ (v # None /\ v.deleted) THEN {}
         ELSE {[o EXCEPT !.step = "put", !.value = Patched(v, o.item), !.tries = 0]}
    [] o.kind = "deregister" ->
         IF v = None THEN {} ELSE {[o EXCEPT !.step = "put", !.value = Deleted(v), !.tries = 0]}
    [] o.kind = "purge" -> IF v = None THEN {} ELSE {[o EXCEPT !.step = "del", !.value = None]}
    [] o.kind = "remove" ->
         IF ~Has(v, o.item) THEN {}
         ELSE {[o EXCEPT !.step = "put", !.value = Without(v, o.item)]}
    [] OTHER -> {}

AfterRead(c, o, v) ==
  IF Writes(o, v) = {} THEN Finish(c, [o EXCEPT !.value = v], latest)
  ELSE \E w \in Writes(o, v) : Go(c, w)

(* The primary is asked; a read that fails counts as nothing found, but    *)
(* /get asks the owner again.                                              *)
ReadPrimary(c, ok) ==
  LET o == op[c]
      v == IF ok THEN store[o.target] ELSE None
      heard == [o EXCEPT !.alone = @ /\ ok]
  IN /\ o.step = "read" /\ Reach(o, o.target, ok)
     /\ IF service = "data" /\ ~ok /\ o.tries < PrimaryRetries
        THEN Go(c, [heard EXCEPT !.tries = @ + 1, !.target = Owner])
        ELSE IF v = None /\ service # "data" /\ o.kind # "remove"
        THEN Go(c, [heard EXCEPT !.step = "replicas", !.todo = Replicas(o)])
        ELSE AfterRead(c, heard, v)
     /\ UNCHANGED <<service, data, ring, calls, assigned, unlocked>>

(* The next replica of the chain is asked, until one has a value.          *)
ReadReplica(c, ok) ==
  LET o == op[c]
      v == IF ok THEN store[Head(o.todo)] ELSE None
      rest == [o EXCEPT !.todo = Tail(@), !.alone = @ /\ ok]
  IN /\ o.step = "replicas" /\ o.todo # << >> /\ Reach(o, Head(o.todo), ok)
     /\ IF v # None \/ Len(o.todo) = 1 THEN AfterRead(c, rest, v) ELSE Go(c, rest)
     /\ UNCHANGED <<service, data, ring, calls, assigned, unlocked>>

NoReplica(c) ==
  /\ op[c].step = "replicas" /\ op[c].todo = << >>
  /\ AfterRead(c, op[c], None)
  /\ UNCHANGED <<service, data, ring, calls, assigned, unlocked, happened>>

(* _put_on_node and the routed put: another attempt resolves the owner     *)
(* again, and the last failure is raised.  A remote remove tries once and  *)
(* replicates nothing.                                                     *)
PutPrimary(c, ok) ==
  LET o == op[c]
      single == o.kind = "remove"
  IN /\ o.step = "put" /\ Reach(o, o.target, ok) /\ Store(o.target, o.value, ok)
     /\ IF ok /\ (single \/ service = "data")
        THEN Finish(c, o, IF o.alone /\ ~single THEN o.value ELSE Unsure)
        ELSE IF ok THEN Go(c, [o EXCEPT !.step = "chain", !.tries = 0])
        ELSE IF single \/ o.tries >= PrimaryRetries
        THEN Finish(c, [o EXCEPT !.alone = FALSE], Unsure)
        ELSE Go(c, [o EXCEPT !.tries = @ + 1, !.target = Owner, !.alone = FALSE])
     /\ unlocked' = (unlocked \/ single)
     /\ UNCHANGED <<service, ring, calls, assigned>>

(* The delete at the primary: a failure is raised by a hard delete of a    *)
(* task, repeated by /del and ignored by the others.                       *)
DeletePrimary(c, ok) ==
  LET o == op[c]
      heard == [o EXCEPT !.alone = @ /\ ok]
  IN /\ o.step = "del" /\ Reach(o, o.target, ok) /\ Store(o.target, None, ok)
     /\ IF service = "data" /\ ~ok /\ o.tries < PrimaryRetries
        THEN Go(c, [heard EXCEPT !.tries = @ + 1, !.target = Owner])
        ELSE IF service = "data" \/ (service = "task" /\ ~ok)
        THEN Finish(c, heard, IF heard.alone THEN None ELSE Unsure)
        ELSE Go(c, [heard EXCEPT !.step = "chain", !.tries = 0])
     /\ unlocked' = (unlocked \/ service = "worker")
     /\ UNCHANGED <<service, ring, calls, assigned>>

(***************************************************************************)
(* HT2 under its lock                                                      *)
(***************************************************************************)
(* The handler runs at the node that owns the list, a drop at home.        *)
LockNode(o) == IF o.kind = "drop" THEN o.home ELSE o.target
At(o) == IF o.kind = "append" /\ o.step \in {"locked", "chain", "copy"}
         THEN o.target ELSE o.home

(* Mutant of AppendAgain: the attempts are counted down.                   *)
AppendAgainDown(o) ==
  IF o.tries >= PrimaryRetries THEN [o EXCEPT !.step = "done", !.todo = << >>]
  ELSE [o EXCEPT !.step = "lock", !.tries = @ - 1, !.target = Owner, !.todo = << >>]

(* The append call failed at its caller: once more, at the owner of now,   *)
(* or the exception of the last attempt.                                   *)
AppendAgain(o) ==
  IF o.tries >= PrimaryRetries THEN [o EXCEPT !.step = "done", !.todo = << >>]
  ELSE [o EXCEPT !.step = "lock", !.tries = @ + 1, !.target = Owner, !.todo = << >>]

AppendFails(c) ==
  LET o == op[c]
  IN /\ o.step = "lock" /\ o.kind = "append" /\ o.target # o.home
     /\ Reach(o, o.target, FALSE)
     /\ Set(c, [AppendAgain(o) EXCEPT !.alone = FALSE])
     /\ latest' = Unsure
     /\ UNCHANGED <<service, data, ring, lock, calls, assigned, unlocked>>

(* History: the append of o is acknowledged; nobody is removing its task.  *)
Removing(x) ==
  {d \in Clients : /\ op[d].step \notin {"idle", "done"}
                   /\ \/ op[d].kind = "drop"
                      \/ op[d].kind = "remove" /\ op[d].item = x}
Acknowledged(o) == IF Removing(o.item) = {} THEN assigned \cup {o.item} ELSE assigned

(* Mutant of Acquire: nobody waits for the lock.                           *)
AcquireAtOnce(c) ==
  LET o == op[c]
      n == LockNode(o)
      v == store[n]
  IN /\ o.step = "lock" /\ n \in up
     /\ IF o.kind # "drop" /\ (o.kind = "append") = Has(v, o.item)
        THEN Finish(c, o, latest)
        ELSE /\ lock' = [lock EXCEPT ![n] = c] /\ UNCHANGED latest
             /\ Set(c, [o EXCEPT
                  !.step = IF o.kind = "drop" THEN "del" ELSE "locked",
                  !.primary = IF o.target = o.home THEN @ ELSE Owner,
                  !.value = CASE o.kind = "append" -> Appended(v, o.item)
                              [] o.kind = "remove" -> Without(v, o.item)
                              [] OTHER -> None])
     /\ assigned' = IF o.kind = "append" /\ Has(v, o.item)
                    THEN Acknowledged(o) ELSE assigned
     /\ UNCHANGED <<service, data, ring, calls, unlocked, happened>>

(* append_local and remove_local take the lock and read the local copy,    *)
(* never a replica; an append with nothing to do returns.                  *)
Acquire(c) ==
  LET o == op[c]
      n == LockNode(o)
      v == store[n]
  IN /\ o.step = "lock" /\ n \in up /\ lock[n] = None
     /\ IF o.kind # "drop" /\ (o.kind = "append") = Has(v, o.item)
        THEN Finish(c, o, latest)
        ELSE /\ lock' = [lock EXCEPT ![n] = c] /\ UNCHANGED latest
             /\ Set(c, [o EXCEPT
                  !.step = IF o.kind = "drop" THEN "del" ELSE "locked",
                  !.primary = IF o.target = o.home THEN @ ELSE Owner,
                  !.value = CASE o.kind = "append" -> Appended(v, o.item)
                              [] o.kind = "remove" -> Without(v, o.item)
                              [] OTHER -> None])
     /\ assigned' = IF o.kind = "append" /\ Has(v, o.item)
                    THEN Acknowledged(o) ELSE assigned
     /\ UNCHANGED <<service, data, ring, calls, unlocked, happened>>

(* Mutant of PutLocked: the lock only covers the read and the write.       *)
PutLockedAndRelease(c) ==
  /\ op[c].step = "locked" /\ Write(op[c].target, op[c].value)
  /\ Set(c, [op[c] EXCEPT !.step = "chain"]) /\ UNCHANGED latest
  /\ lock' = [lock EXCEPT ![op[c].target] = None]
  /\ UNCHANGED <<service, ring, calls, assigned, unlocked, happened>>

PutLocked(c) ==
  /\ op[c].step = "locked" /\ Write(op[c].target, op[c].value)
  /\ Go(c, [op[c] EXCEPT !.step = "chain"])
  /\ UNCHANGED <<service, ring, calls, assigned, unlocked, happened>>

(***************************************************************************)
(* The replicas                                                            *)
(***************************************************************************)
(* The chain is walked from the primary resolved first, even when another  *)
(* node was written in its place.  A get_state that fails cuts it short.   *)
WalkChain(c) ==
  LET o == op[c]
      all == Replicas(o)
  IN /\ o.step = "chain"
     /\ \/ /\ Go(c, [o EXCEPT !.step = "copy", !.todo = all])
           /\ UNCHANGED happened
        \/ /\ Trouble("fault")
           /\ \E i \in 0 .. Len(all) - 1 :
                Go(c, [o EXCEPT !.step = "copy", !.todo = SubSeq(all, 1, i),
                                !.missed = @ + 1])
     /\ UNCHANGED <<service, data, ring, calls, assigned, unlocked>>

(* The next replica; the record, or None for a delete.                     *)
CopyReplica(c, ok) ==
  LET o == op[c]
  IN /\ o.step = "copy" /\ o.todo # << >>
     /\ Reach(o, Head(o.todo), ok) /\ Store(Head(o.todo), o.value, ok)
     /\ Go(c, IF ok THEN [o EXCEPT !.todo = Tail(@), !.tries = IF service = "task" THEN 0 ELSE @]
              ELSE IF service = "task" /\ o.tries < ReplicaRetries
              THEN [o EXCEPT !.tries = @ + 1]
              ELSE [o EXCEPT !.todo = Tail(@), !.missed = @ + 1,
                             !.tries = IF service = "task" THEN 0 ELSE @])
     /\ UNCHANGED <<service, ring, calls, assigned, unlocked>>

(* All replicas were tried; missing ones only make the answer DEGRADED.    *)
Replicated(c) ==
  LET o == op[c]
  IN /\ o.step = "copy" /\ o.todo = << >>
     /\ Finish(c, o, IF o.alone /\ o.missed = 0 THEN o.value ELSE Unsure)
     /\ assigned' = IF o.kind = "append" THEN Acknowledged(o) ELSE assigned
     /\ UNCHANGED <<service, data, ring, calls, unlocked, happened>>

(* The handler of an append is done, its answer is lost.                   *)
AnswerLost(c) ==
  LET o == op[c]
  IN /\ o.step = "copy" /\ o.todo = << >> /\ o.kind = "append" /\ o.target # o.home
     /\ Trouble("fault")
     /\ Set(c, [AppendAgain(o) EXCEPT !.alone = FALSE])
     /\ latest' = Unsure
     /\ lock' = [n \in Nodes |-> IF lock[n] = c THEN None ELSE lock[n]]
     /\ UNCHANGED <<service, data, ring, calls, assigned, unlocked>>

(***************************************************************************)
(* The ring changes                                                        *)
(***************************************************************************)
Disturbed == [c \in Clients |-> [op[c] EXCEPT !.alone = FALSE]]

(* A process that is gone takes its calls, its locks and its memory along; *)
(* the caller of an append handler it ran sees a failure.                  *)
Halt(n) ==
  LET busy == {c \in Clients : op[c].step \notin {"idle", "done"}}
  IN /\ up' = up \ {n} /\ store' = [store EXCEPT ![n] = None]
     /\ op' = [c \in Clients |->
                 IF c \in busy /\ At(op[c]) = n
                 THEN IF op[c].home = n THEN NoOp
                      ELSE [AppendAgain(op[c]) EXCEPT !.alone = FALSE]
                 ELSE [op[c] EXCEPT !.alone = FALSE]]
     /\ lock' = [m \in Nodes |-> IF m = n \/ \E c \in busy : lock[m] = c /\ At(op[c]) = n
                                 THEN None ELSE lock[m]]
     /\ latest' = IF \E c \in busy : At(op[c]) = n /\ op[c].kind # "get"
                  THEN Unsure ELSE latest
     /\ UNCHANGED <<service, disk, calls, assigned, unlocked>>

Crash(n) == n \in up \cap members /\ Trouble("crash") /\ Halt(n) /\ UNCHANGED members

(* The ring forgets a member that is gone.                                 *)
Forget(n) ==
  /\ n \in members \ up /\ members # {n}
  /\ members' = members \ {n} /\ op' = Disturbed
  /\ UNCHANGED <<service, data, up, lock, calls, history, happened>>

(* leave: bulk_put adds what the leaver has to its successor's store and   *)
(* saves it; a transfer that fails is only logged.  The process exits      *)
(* later.                                                                  *)
Leave(n, ok) ==
  LET heir == NextMember(n)
      handed(s) == IF ok /\ store[n] # None THEN [s EXCEPT ![heir] = store[n]] ELSE s
  IN /\ n \in up \cap members /\ members # {n} /\ Trouble("leave")
     /\ ok => heir \in up
     /\ members' = members \ {n} /\ op' = Disturbed
     /\ store' = handed(store) /\ disk' = handed(disk)
     /\ latest' = IF heir \in up /\ ~ok THEN Unsure ELSE latest
     /\ UNCHANGED <<service, up, lock, calls, assigned, unlocked>>

Exit(n) == n \in up \ members /\ Halt(n) /\ UNCHANGED <<members, happened>>

(* A node starts, with its snapshot, and joins; no key is handed to it.    *)
Join(n) ==
  /\ n \notin up /\ Trouble("join")
  /\ up' = up \cup {n} /\ members' = members \cup {n} /\ op' = Disturbed
  /\ store' = [store EXCEPT ![n] = disk[n]]
  /\ UNCHANGED <<service, disk, lock, calls, history>>

(***************************************************************************)
(* Specification                                                           *)
(***************************************************************************)
Work(c) ==
  \/ \E ok \in BOOLEAN : \/ ReadPrimary(c, ok) \/ ReadReplica(c, ok) \/ PutPrimary(c, ok)
                         \/ DeletePrimary(c, ok) \/ CopyReplica(c, ok)
  \/ NoReplica(c) \/ Acquire(c) \/ AppendFails(c) \/ PutLocked(c)
  \/ WalkChain(c) \/ Replicated(c) \/ AnswerLost(c)

Next ==
  \/ \E c \in Clients : Work(c)
  \/ \E c \in Clients, kind \in Kinds, h \in Homes, x \in Items : Start(c, kind, h, x)
  \/ \E n \in Nodes : Crash(n) \/ Forget(n) \/ Exit(n) \/ Join(n)
  \/ \E n \in Nodes, ok \in BOOLEAN : Leave(n, ok)

Spec == Init /\ [][Next]_vars

(* Nothing tells the clients apart: TLC may identify their permutations.   *)
Symmetry == Permutations(Clients)

(***************************************************************************)
(* Properties                                                              *)
(***************************************************************************)
(* A read that nothing disturbs returns what the last undisturbed and      *)
(* fully replicated write left, also after a node has joined in front of   *)
(* the old owner, left or crashed and been forgotten: the handoff of       *)
(* leave, the replica reads of a new owner and the chains of two different *)
(* owners fit together.  Unreplicated keys only survive leaves.            *)
ReadsLatest ==
  \A c \in Clients :
    /\ op[c].step = "done" /\ op[c].kind = "get" /\ op[c].alone /\ latest # Unsure
    /\ IF service = "data" THEN Total = happened["leave"] ELSE K >= 2 /\ Total <= 1
    => op[c].value = latest

(* Appends from any number of frontends and removals at the owner: an      *)
(* acknowledged task stays in the owner's list, even if the owner crashes. *)
AssignmentsKept ==
  service = "worker" /\ ~unlocked /\ happened["fault"] = 0
    /\ K >= 2 /\ Total = happened["crash"] /\ Total <= 1 /\ Owner \in up
  => \A x \in assigned : Has(store[Owner], x)

(* The lock covers the replication: while it is free the replicas hold     *)
(* what the owner holds, in the same order.                                *)
ReplicasFollow ==
  service = "worker" /\ ~unlocked /\ happened["fault"] = 0 /\ Total = 0 /\ lock[Owner] = None
  => \A n \in Nodes :
       (\E i \in 1 .. Len(Chain(Owner)) : Chain(Owner)[i] = n) => store[n] = store[Owner]

(* An append whose answer was lost, or whose node crashed, is made again:  *)
(* no list names a task twice.                                             *)
NoTaskTwice ==
  \A n \in Nodes : store[n] # None =>
    \A i, j \in 1 .. Len(store[n].items) : store[n].items[i] = store[n].items[j] => i = j

(* No list is locked for ever and none is written by two: a lock is held   *)
(* by exactly one call that is still at work under it, whatever returns    *)
(* early, is repeated or crashes.                                          *)
Critical(o) ==
  \/ o.kind \in {"append", "drop"} /\ o.step \in {"locked", "del", "chain", "copy"}
  \/ o.kind = "remove" /\ o.step \in {"locked", "chain", "copy"}
LockDiscipline ==
  /\ \A n \in Nodes : lock[n] # None => Critical(op[lock[n]]) /\ LockNode(op[lock[n]]) = n
  /\ \A c \in Clients : Critical(op[c]) => lock[LockNode(op[c])] = c

(* TaskService.get_task: "If primary is unreachable OR returns None, fall  *)
(* back to reading from replica nodes (successor chain)."                  *)
Holders == {n \in members \cap up : store[n] # None}
ReadsFallBack ==
  [][\A c \in Clients :
       op[c].kind = "get" /\ op[c].step # "done" /\ op'[c].step = "done"
         => op'[c].value # None \/ Holders = {}]_vars
=============================================================================
