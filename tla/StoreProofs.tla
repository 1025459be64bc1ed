------------------------------ MODULE StoreProofs ------------------------------
(***************************************************************************)
(* Proofs about ReplicaStore, for every ring, every chain length and every *)
(* number of clients, retries and troubles: the locks of HT2, the types,   *)
(* lists that name no task twice, replicas that follow their owner,        *)
(* assignments that survive its crash, and reads that return the latest    *)
(* record.                                                                 *)
(***************************************************************************)
EXTENDS ReplicaStore, NumberFacts

(* A call is a record with the fields of Op.                               *)
Fields == {"kind", "step", "item", "home", "primary", "target", "tries", "value",
           "todo", "missed", "alone"}
IsCall(o) == o = [f \in Fields |-> o[f]]

(* The steps a kind of call goes through: only HT2 writes take a lock, and *)
(* a remove does so only where its list lives.                             *)
Placed(o) ==
  /\ o.kind = "append" => o.step \in {"lock", "locked", "chain", "copy", "done"}
  /\ o.kind = "drop" => o.step \in {"lock", "del", "chain", "copy", "done"}
  /\ o.kind = "remove" => /\ o.step \in {"lock", "locked", "chain", "copy", "read", "put", "done"}
                          /\ o.step \in {"lock", "locked", "chain", "copy"} => o.target = o.home
  /\ o.kind \notin {"append", "drop", "remove"} => o.step \notin {"lock", "locked"}
  /\ Critical(o) => LockNode(o) \in Nodes

LockInv ==
  /\ op = [c \in Clients |-> op[c]] /\ \A c \in Clients : IsCall(op[c]) /\ Placed(op[c])
  /\ lock \in [Nodes -> Clients \cup {None}]
  /\ up \in SUBSET Nodes
  /\ LockDiscipline

(* What one step of client c does to its call and to the locks.            *)
Proceeds(c, o) ==
  /\ Critical(o) <=> Critical(op[c])
  /\ Critical(o) => LockNode(o) = LockNode(op[c])
  /\ UNCHANGED lock
Returns(c, o) ==
  /\ ~Critical(o)
  /\ lock' = [n \in Nodes |-> IF lock[n] = c THEN None ELSE lock[n]]
Enters(c, o) ==
  /\ ~Critical(op[c]) /\ Critical(o)
  /\ lock[LockNode(o)] = None
  /\ lock' = [lock EXCEPT ![LockNode(o)] = c]

(* Each of these keeps the discipline.                                     *)
LEMMA OneClientKeepsLocks ==
  ASSUME LockInv, NEW c \in Clients, NEW o, Set(c, o), IsCall(o), Placed(o),
         UNCHANGED up,
         Proceeds(c, o) \/ Returns(c, o) \/ Enters(c, o)
  PROVE  LockInv'
<1>1. op' = [d \in Clients |-> op'[d]] /\ \A d \in Clients : op'[d] = IF d = c THEN o ELSE op[d]
  BY DEF LockInv, Set
<1>2. \A d \in Clients : IsCall(op'[d]) /\ Placed(op'[d])
  BY <1>1 DEF LockInv
<1>3. lock' \in [Nodes -> Clients \cup {None}]
  BY DEF LockInv, Proceeds, Returns, Enters
<1>4. None \notin Clients
  BY StoreAssumption
<1>5. /\ \A d \in Clients : Critical(op[d]) => LockNode(op[d]) \in Nodes
      /\ Critical(o) => LockNode(o) \in Nodes
  BY DEF LockInv, Placed
<1>6. CASE Proceeds(c, o)
  <2>1. LockDiscipline'
    BY <1>1, <1>4, <1>6 DEF LockInv, LockDiscipline, Proceeds
  <2> QED BY <1>1, <1>2, <1>3, <2>1 DEF LockInv
<1>7. CASE Returns(c, o)
  <2>1. \A n \in Nodes : lock'[n] = IF lock[n] = c THEN None ELSE lock[n]
    BY <1>7 DEF Returns
  <2>2. ASSUME NEW n \in Nodes, lock'[n] # None
        PROVE  Critical(op'[lock'[n]]) /\ LockNode(op'[lock'[n]]) = n
    BY <1>1, <1>3, <1>4, <2>1, <2>2 DEF LockInv, LockDiscipline
  <2>3. ASSUME NEW d \in Clients, Critical(op'[d]) PROVE lock'[LockNode(op'[d])] = d
    BY <1>1, <1>4, <1>5, <1>7, <2>1, <2>3 DEF LockInv, LockDiscipline, Returns
  <2>4. LockDiscipline'
    BY <2>2, <2>3 DEF LockDiscipline
  <2> QED BY <1>1, <1>2, <1>3, <2>4 DEF LockInv
<1>8. CASE Enters(c, o)
  <2>1. \A n \in Nodes : lock'[n] = IF n = LockNode(o) THEN c ELSE lock[n]
    BY <1>8 DEF Enters, LockInv
  <2>2. ASSUME NEW n \in Nodes, lock'[n] # None
        PROVE  Critical(op'[lock'[n]]) /\ LockNode(op'[lock'[n]]) = n
    BY <1>1, <1>3, <1>4, <1>5, <1>8, <2>1, <2>2 DEF LockInv, LockDiscipline, Enters
  <2>3. ASSUME NEW d \in Clients, Critical(op'[d]) PROVE lock'[LockNode(op'[d])] = d
    BY <1>1, <1>4, <1>5, <1>8, <2>1, <2>3 DEF LockInv, LockDiscipline, Enters
  <2>4. LockDiscipline'
    BY <2>2, <2>3 DEF LockDiscipline
  <2> QED BY <1>1, <1>2, <1>3, <2>4 DEF LockInv
<1> QED BY <1>6, <1>7, <1>8

(* The forms of one client's step.                                         *)
LEMMA GoKeepsLocks ==
  ASSUME LockInv, NEW c \in Clients, NEW o, Go(c, o), IsCall(o), Placed(o), UNCHANGED up,
         Critical(o) <=> Critical(op[c]), Critical(o) => LockNode(o) = LockNode(op[c])
  PROVE  LockInv'
  BY OneClientKeepsLocks DEF Go, Proceeds

LEMMA FinishKeepsLocks ==
  ASSUME LockInv, NEW c \in Clients, NEW o, NEW l, Finish(c, o, l), IsCall(o), UNCHANGED up
  PROVE  LockInv'
<1> DEFINE x == [o EXCEPT !.step = "done", !.todo = << >>]
<1>1. IsCall(x) /\ x.step = "done" /\ x.kind = o.kind
  BY DEF IsCall, Fields
<1>2. ~Critical(x) /\ Placed(x)
  BY <1>1 DEF Critical, Placed
<1>3. Set(c, x) /\ Returns(c, x)
  BY <1>2 DEF Finish, Returns
<1> HIDE DEF x
<1> QED BY <1>1, <1>2, <1>3, OneClientKeepsLocks

(* What a read leads to holds no lock.                                     *)
LEMMA AfterReadKeepsLocks ==
  ASSUME LockInv, NEW c \in Clients, NEW o, NEW v, AfterRead(c, o, v), UNCHANGED up,
         IsCall(o), o.kind = op[c].kind, o.step \in {"read", "replicas"},
         op[c].step \in {"read", "replicas"}
  PROVE  LockInv'
<1>1. CASE Writes(o, v) = {}
  <2> DEFINE x == [o EXCEPT !.value = v]
  <2>1. IsCall(x) /\ Finish(c, x, latest)
    BY <1>1 DEF AfterRead, IsCall, Fields
  <2> HIDE DEF x
  <2> QED BY <2>1, FinishKeepsLocks
<1>2. ASSUME NEW w \in Writes(o, v), Go(c, w) PROVE LockInv'
  <2>1. /\ IsCall(w) /\ w.kind = o.kind
        /\ \/ w.step = "put" /\ w.kind \in {"register", "update", "deregister", "remove"}
           \/ w.step = "del" /\ w.kind = "purge"
    <3>1. CASE o.kind = "register"
      BY <1>2, <3>1 DEF Writes, IsCall, Fields
    <3>2. CASE o.kind = "update"
      BY <1>2, <3>2 DEF Writes, IsCall, Fields
    <3>3. CASE o.kind = "deregister"
      BY <1>2, <3>3 DEF Writes, IsCall, Fields
    <3>4. CASE o.kind = "purge"
      BY <1>2, <3>4 DEF Writes, IsCall, Fields
    <3>5. CASE o.kind = "remove"
      BY <1>2, <3>5 DEF Writes, IsCall, Fields
    <3>6. CASE o.kind \notin {"register", "update", "deregister", "purge", "remove"}
      BY <1>2, <3>6 DEF Writes
    <3> QED BY <3>1, <3>2, <3>3, <3>4, <3>5, <3>6
  <2>2. ~Critical(w) /\ Placed(w)
    BY <2>1 DEF Critical, Placed
  <2>3. ~Critical(op[c])
    BY DEF Critical
  <2> QED BY <1>2, <2>1, <2>2, <2>3, GoKeepsLocks
<1> QED BY <1>1, <1>2 DEF AfterRead

(***************************************************************************)
(* The steps of one client                                                 *)
(***************************************************************************)
LEMMA ReadPrimaryKeepsLocks ==
  ASSUME LockInv, NEW c \in Clients, NEW ok \in BOOLEAN, ReadPrimary(c, ok)
  PROVE  LockInv'
<1> DEFINE o == op[c]
           v == IF ok THEN store[o.target] ELSE None
           heard == [o EXCEPT !.alone = @ /\ ok]
           again == [heard EXCEPT !.tries = @ + 1, !.target = Owner]
           ask == [heard EXCEPT !.step = "replicas", !.todo = Replicas(o)]
<1>1. IsCall(o) /\ Placed(o) /\ o.step = "read" /\ ~Critical(o) /\ UNCHANGED up
  BY DEF LockInv, ReadPrimary, Critical, ring
<1>2. o.kind \notin {"append", "drop"}
  BY <1>1 DEF Placed
<1>3. IsCall(heard) /\ heard.kind = o.kind /\ heard.step = "read"
  BY <1>1 DEF IsCall, Fields
<1>4. IsCall(again) /\ again.kind = o.kind /\ again.step = "read"
  BY <1>1 DEF IsCall, Fields
<1>5. IsCall(ask) /\ ask.kind = o.kind /\ ask.step = "replicas"
  BY <1>1 DEF IsCall, Fields
<1>6. ~Critical(again) /\ Placed(again)
  BY <1>2, <1>4 DEF Critical, Placed
<1>7. o.kind # "remove" => ~Critical(ask) /\ Placed(ask)
  BY <1>2, <1>5 DEF Critical, Placed
<1>8. Go(c, again) \/ (o.kind # "remove" /\ Go(c, ask)) \/ AfterRead(c, heard, v)
  BY DEF ReadPrimary
<1> HIDE DEF heard, again, ask, v
<1>9. CASE Go(c, again)
  BY <1>1, <1>4, <1>6, <1>9, GoKeepsLocks
<1>10. CASE o.kind # "remove" /\ Go(c, ask)
  BY <1>1, <1>5, <1>7, <1>10, GoKeepsLocks
<1>11. CASE AfterRead(c, heard, v)
  BY <1>1, <1>3, <1>11, AfterReadKeepsLocks
<1> QED BY <1>8, <1>9, <1>10, <1>11

LEMMA ReadReplicaKeepsLocks ==
  ASSUME LockInv, NEW c \in Clients,
         NoReplica(c) \/ \E ok \in BOOLEAN : ReadReplica(c, ok)
  PROVE  LockInv'
<1> DEFINE o == op[c]
<1>1. IsCall(o) /\ Placed(o) /\ o.step = "replicas" /\ ~Critical(o) /\ UNCHANGED up
  BY DEF LockInv, ReadReplica, NoReplica, Critical, ring
<1>2. CASE NoReplica(c)
  BY <1>1, <1>2, AfterReadKeepsLocks DEF NoReplica
<1>3. ASSUME NEW ok \in BOOLEAN, ReadReplica(c, ok) PROVE LockInv'
  <2> DEFINE v == IF ok THEN store[Head(o.todo)] ELSE None
             rest == [o EXCEPT !.todo = Tail(@), !.alone = @ /\ ok]
  <2>1. IsCall(rest) /\ rest.kind = o.kind /\ rest.step = o.step
    BY <1>1 DEF IsCall, Fields
  <2>2. ~Critical(rest) /\ Placed(rest)
    BY <1>1, <2>1 DEF Critical, Placed
  <2>3. AfterRead(c, rest, v) \/ Go(c, rest)
    BY <1>3 DEF ReadReplica
  <2> HIDE DEF rest, v
  <2>4. CASE AfterRead(c, rest, v)
    BY <1>1, <2>1, <2>4, AfterReadKeepsLocks
  <2>5. CASE Go(c, rest)
    BY <1>1, <2>1, <2>2, <2>5, GoKeepsLocks
  <2> QED BY <2>3, <2>4, <2>5
<1> QED BY <1>2, <1>3

LEMMA PutPrimaryKeepsLocks ==
  ASSUME LockInv, NEW c \in Clients, NEW ok \in BOOLEAN, PutPrimary(c, ok)
  PROVE  LockInv'
<1> DEFINE o == op[c]
           late == [o EXCEPT !.alone = FALSE]
           more == [o EXCEPT !.step = "chain", !.tries = 0]
           again == [o EXCEPT !.tries = @ + 1, !.target = Owner, !.alone = FALSE]
<1>1. IsCall(o) /\ Placed(o) /\ o.step = "put" /\ ~Critical(o) /\ UNCHANGED up
  BY DEF LockInv, PutPrimary, Critical, ring
<1>2. o.kind \notin {"append", "drop"}
  BY <1>1 DEF Placed
<1>3. IsCall(late)
  BY <1>1 DEF IsCall, Fields
<1>4. IsCall(more) /\ more.kind = o.kind /\ more.step = "chain"
  BY <1>1 DEF IsCall, Fields
<1>5. IsCall(again) /\ again.kind = o.kind /\ again.step = "put"
  BY <1>1 DEF IsCall, Fields
<1>6. o.kind # "remove" => ~Critical(more) /\ Placed(more)
  BY <1>2, <1>4 DEF Critical, Placed
<1>7. ~Critical(again) /\ Placed(again)
  BY <1>2, <1>5 DEF Critical, Placed
<1>8. \/ \E l : Finish(c, o, l)
      \/ o.kind # "remove" /\ Go(c, more)
      \/ Finish(c, late, Unsure)
      \/ Go(c, again)
  BY DEF PutPrimary
<1> HIDE DEF late, more, again
<1>9. CASE \E l : Finish(c, o, l)
  BY <1>1, <1>9, FinishKeepsLocks
<1>10. CASE Finish(c, late, Unsure)
  BY <1>1, <1>3, <1>10, FinishKeepsLocks
<1>11. CASE o.kind # "remove" /\ Go(c, more)
  BY <1>1, <1>4, <1>6, <1>11, GoKeepsLocks
<1>12. CASE Go(c, again)
  BY <1>1, <1>5, <1>7, <1>12, GoKeepsLocks
<1> QED BY <1>8, <1>9, <1>10, <1>11, <1>12

LEMMA DeletePrimaryKeepsLocks ==
  ASSUME LockInv, NEW c \in Clients, NEW ok \in BOOLEAN, DeletePrimary(c, ok)
  PROVE  LockInv'
<1> DEFINE o == op[c]
           heard == [o EXCEPT !.alone = @ /\ ok]
           again == [heard EXCEPT !.tries = @ + 1, !.target = Owner]
           more == [heard EXCEPT !.step = "chain", !.tries = 0]
<1>1. IsCall(o) /\ Placed(o) /\ o.step = "del" /\ UNCHANGED up
  BY DEF LockInv, DeletePrimary, ring
<1>2. o.kind \notin {"append", "remove"}
  BY <1>1 DEF Placed
<1>3. IsCall(heard)
  BY <1>1 DEF IsCall, Fields
<1>4. IsCall(again) /\ again.kind = o.kind /\ again.step = "del" /\ again.home = o.home
  BY <1>1 DEF IsCall, Fields
<1>5. IsCall(more) /\ more.kind = o.kind /\ more.step = "chain" /\ more.home = o.home
  BY <1>1 DEF IsCall, Fields
<1>6. Placed(again) /\ (Critical(again) <=> Critical(o))
                    /\ (Critical(again) => LockNode(again) = LockNode(o))
  BY <1>1, <1>2, <1>4 DEF Critical, Placed, LockNode
<1>7. Placed(more) /\ (Critical(more) <=> Critical(o))
                   /\ (Critical(more) => LockNode(more) = LockNode(o))
  BY <1>1, <1>2, <1>5 DEF Critical, Placed, LockNode
<1>8. Go(c, again) \/ (\E l : Finish(c, heard, l)) \/ Go(c, more)
  BY DEF DeletePrimary
<1> HIDE DEF heard, again, more
<1>9. CASE Go(c, again)
  BY <1>1, <1>4, <1>6, <1>9, GoKeepsLocks
<1>10. CASE \E l : Finish(c, heard, l)
  BY <1>1, <1>3, <1>10, FinishKeepsLocks
<1>11. CASE Go(c, more)
  BY <1>1, <1>5, <1>7, <1>11, GoKeepsLocks
<1> QED BY <1>8, <1>9, <1>10, <1>11

(***************************************************************************)
(* HT2 and the replicas                                                    *)
(***************************************************************************)
LEMMA AppendAgainIsFree ==
  ASSUME NEW o, IsCall(o), o.kind = "append"
  PROVE  LET x == [AppendAgain(o) EXCEPT !.alone = FALSE]
         IN IsCall(x) /\ Placed(x) /\ ~Critical(x)
<1> DEFINE over == [o EXCEPT !.step = "done", !.todo = << >>]
           again == [o EXCEPT !.step = "lock", !.tries = @ + 1, !.target = Owner, !.todo = << >>]
           x == [AppendAgain(o) EXCEPT !.alone = FALSE]
<1>1. IsCall(over) /\ over.kind = "append" /\ over.step = "done"
  BY DEF IsCall, Fields
<1>2. IsCall(again) /\ again.kind = "append" /\ again.step = "lock"
  BY DEF IsCall, Fields
<1>3. AppendAgain(o) \in {over, again}
  BY DEF AppendAgain
<1> HIDE DEF over, again
<1>4. IsCall(x) /\ x.kind = "append" /\ x.step \in {"lock", "done"}
  BY <1>1, <1>2, <1>3 DEF IsCall, Fields
<1> HIDE DEF x
<1>5. Placed(x) /\ ~Critical(x)
  BY <1>4 DEF Placed, Critical
<1> QED BY <1>4, <1>5 DEF x

LEMMA AppendFailsKeepsLocks ==
  ASSUME LockInv, NEW c \in Clients, AppendFails(c) \/ AnswerLost(c)
  PROVE  LockInv'
<1> DEFINE o == op[c]
           x == [AppendAgain(o) EXCEPT !.alone = FALSE]
<1>1. IsCall(o) /\ o.kind = "append" /\ UNCHANGED up /\ Set(c, x)
  BY DEF LockInv, AppendFails, AnswerLost, ring
<1>2. IsCall(x) /\ Placed(x) /\ ~Critical(x)
  BY <1>1, AppendAgainIsFree
<1> HIDE DEF x
<1>3. CASE AppendFails(c)
  <2>1. Proceeds(c, x)
    BY <1>2, <1>3 DEF AppendFails, Proceeds, Critical
  <2> QED BY <1>1, <1>2, <2>1, OneClientKeepsLocks
<1>4. CASE AnswerLost(c)
  <2>1. Returns(c, x)
    BY <1>2, <1>4 DEF AnswerLost, Returns
  <2> QED BY <1>1, <1>2, <2>1, OneClientKeepsLocks
<1> QED BY <1>3, <1>4

LEMMA AcquireKeepsLocks ==
  ASSUME LockInv, NEW c \in Clients, Acquire(c)
  PROVE  LockInv'
<1> DEFINE o == op[c]
           n == LockNode(o)
           v == store[n]
           p == IF o.target = o.home THEN o.primary ELSE Owner
           w == CASE o.kind = "append" -> Appended(v, o.item)
                  [] o.kind = "remove" -> Without(v, o.item)
                  [] OTHER -> None
           s == IF o.kind = "drop" THEN "del" ELSE "locked"
           x == [o EXCEPT !.step = s, !.primary = p, !.value = w]
<1>1. /\ IsCall(o) /\ Placed(o) /\ o.step = "lock" /\ ~Critical(o) /\ UNCHANGED up
      /\ n \in Nodes /\ lock[n] = None
  BY DEF LockInv, Acquire, Critical, ring
<1>2. o.kind \in {"append", "drop", "remove"} /\ (o.kind = "remove" => o.target = o.home)
  BY <1>1 DEF Placed
<1>3. (\E l : Finish(c, o, l)) \/ (lock' = [lock EXCEPT ![n] = c] /\ Set(c, x))
  BY DEF Acquire
<1>4. CASE \E l : Finish(c, o, l)
  BY <1>1, <1>4, FinishKeepsLocks
<1>5. CASE lock' = [lock EXCEPT ![n] = c] /\ Set(c, x)
  <2> HIDE DEF v, p, w, s
  <2>1. IsCall(x) /\ x.kind = o.kind /\ x.step = s /\ x.home = o.home /\ x.target = o.target
    BY <1>1 DEF IsCall, Fields
  <2> HIDE DEF x
  <2>2. Critical(x) /\ LockNode(x) = n /\ Placed(x)
    BY <1>1, <1>2, <2>1 DEF Critical, LockNode, Placed, s
  <2>3. Enters(c, x)
    BY <1>1, <1>5, <2>2 DEF Enters
  <2> QED BY <1>1, <1>5, <2>1, <2>2, <2>3, OneClientKeepsLocks
<1> QED BY <1>3, <1>4, <1>5

(* A call that goes on under its lock.                                     *)
LEMMA OnwardKeepsLocks ==
  ASSUME LockInv, NEW c \in Clients, NEW x, Go(c, x), UNCHANGED up,
         IsCall(x), x.kind = op[c].kind, x.home = op[c].home, x.target = op[c].target,
         \/ op[c].step = "locked" /\ x.step = "chain"
         \/ op[c].step \in {"chain", "copy"} /\ x.step = "copy"
  PROVE  LockInv'
<1>1. IsCall(op[c]) /\ Placed(op[c])
  BY DEF LockInv
<1>2. /\ Placed(x) /\ (Critical(x) <=> Critical(op[c]))
      /\ Critical(x) => LockNode(x) = LockNode(op[c])
  BY <1>1 DEF Placed, Critical, LockNode
<1> QED BY <1>2, GoKeepsLocks

LEMMA ReplicationKeepsLocks ==
  ASSUME LockInv, NEW c \in Clients,
         \/ PutLocked(c) \/ WalkChain(c) \/ Replicated(c)
         \/ \E ok \in BOOLEAN : CopyReplica(c, ok)
  PROVE  LockInv'
<1> DEFINE o == op[c]
<1>1. IsCall(o) /\ UNCHANGED up
  BY DEF LockInv, PutLocked, WalkChain, Replicated, CopyReplica, ring
<1>2. CASE PutLocked(c)
  <2> DEFINE x == [o EXCEPT !.step = "chain"]
  <2>1. Go(c, x) /\ o.step = "locked"
    BY <1>2 DEF PutLocked
  <2>2. IsCall(x) /\ x.kind = o.kind /\ x.home = o.home /\ x.target = o.target /\ x.step = "chain"
    BY <1>1 DEF IsCall, Fields
  <2> HIDE DEF x
  <2> QED BY <1>1, <2>1, <2>2, OnwardKeepsLocks
<1>3. ASSUME NEW t, NEW m, Go(c, [o EXCEPT !.step = "copy", !.todo = t, !.missed = m]),
             o.step = "chain"
      PROVE  LockInv'
  <2> DEFINE x == [o EXCEPT !.step = "copy", !.todo = t, !.missed = m]
  <2>1. IsCall(x) /\ x.kind = o.kind /\ x.home = o.home /\ x.target = o.target /\ x.step = "copy"
    BY <1>1 DEF IsCall, Fields
  <2> HIDE DEF x
  <2> QED BY <1>1, <1>3, <2>1, OnwardKeepsLocks DEF x
<1>4. CASE WalkChain(c)
  <2> DEFINE all == Replicas(o)
  <2>1. o.step = "chain"
    BY <1>4 DEF WalkChain
  <2>2. CASE Go(c, [o EXCEPT !.step = "copy", !.todo = all])
    <3>1. [o EXCEPT !.step = "copy", !.todo = all]
            = [o EXCEPT !.step = "copy", !.todo = all, !.missed = o.missed]
      BY <1>1 DEF IsCall, Fields
    <3> QED BY <1>3, <2>1, <2>2, <3>1
  <2>3. ASSUME NEW i \in 0 .. Len(all) - 1,
               Go(c, [o EXCEPT !.step = "copy", !.todo = SubSeq(all, 1, i), !.missed = @ + 1])
        PROVE  LockInv'
    BY <1>3, <2>1, <2>3
  <2> QED BY <1>4, <2>2, <2>3 DEF WalkChain
<1>5. CASE Replicated(c)
  BY <1>1, <1>5, FinishKeepsLocks DEF Replicated
<1>6. ASSUME NEW ok \in BOOLEAN, CopyReplica(c, ok) PROVE LockInv'
  <2>1. PICK x : /\ Go(c, x)
                 /\ x = IF ok THEN [o EXCEPT !.todo = Tail(@), !.tries = IF service = "task" THEN 0 ELSE @]
                        ELSE IF service = "task" /\ o.tries < ReplicaRetries
                        THEN [o EXCEPT !.tries = @ + 1]
                        ELSE [o EXCEPT !.todo = Tail(@), !.missed = @ + 1,
                                       !.tries = IF service = "task" THEN 0 ELSE @]
    BY <1>6 DEF CopyReplica
  <2>2. IsCall(x) /\ x.kind = o.kind /\ x.home = o.home /\ x.target = o.target /\ x.step = o.step
    BY <1>1, <2>1 DEF IsCall, Fields
  <2>3. o.step = "copy"
    BY <1>6 DEF CopyReplica
  <2> QED BY <1>1, <2>1, <2>2, <2>3, OnwardKeepsLocks
<1> QED BY <1>2, <1>4, <1>5, <1>6

(***************************************************************************)
(* Steps that touch several calls                                          *)
(***************************************************************************)
(* Calls that stay where they were with respect to their locks.            *)
LEMMA RelabelKeepsLocks ==
  ASSUME LockInv, UNCHANGED lock, up' \in SUBSET Nodes,
         op' = [c \in Clients |-> op'[c]],
         \A c \in Clients : /\ IsCall(op'[c]) /\ Placed(op'[c])
                            /\ Critical(op'[c]) <=> Critical(op[c])
                            /\ Critical(op'[c]) => LockNode(op'[c]) = LockNode(op[c])
  PROVE  LockInv'
<1>1. LockDiscipline'
  BY DEF LockInv, LockDiscipline
<1> QED BY <1>1 DEF LockInv

LEMMA DisturbedStays ==
  ASSUME LockInv, NEW c \in Clients
  PROVE  LET x == [op[c] EXCEPT !.alone = FALSE]
         IN /\ IsCall(x) /\ Placed(x)
            /\ x.kind = op[c].kind /\ x.step = op[c].step
            /\ x.home = op[c].home /\ x.target = op[c].target
            /\ Critical(x) <=> Critical(op[c])
            /\ LockNode(x) = LockNode(op[c])
<1> DEFINE x == [op[c] EXCEPT !.alone = FALSE]
<1>1. IsCall(op[c]) /\ Placed(op[c])
  BY DEF LockInv
<1>2. /\ IsCall(x) /\ x.kind = op[c].kind /\ x.step = op[c].step
      /\ x.home = op[c].home /\ x.target = op[c].target
  BY <1>1 DEF IsCall, Fields
<1> HIDE DEF x
<1>3. /\ Critical(x) <=> Critical(op[c])
      /\ LockNode(x) = LockNode(op[c])
  BY <1>2 DEF Critical, LockNode
<1>4. Placed(x)
  BY <1>1, <1>2, <1>3 DEF Placed
<1> QED BY <1>2, <1>3, <1>4 DEF x

LEMMA StartKeepsLocks ==
  ASSUME LockInv, NEW c \in Clients, NEW kind \in Kinds, NEW h \in Homes, NEW x \in Items,
         Start(c, kind, h, x)
  PROVE  LockInv'
<1> DEFINE v == IF kind = "put" THEN [version |-> 1, deleted |-> FALSE, items |-> <<x>>] ELSE None
           e == << >>
           o == [kind |-> kind, step |-> FirstStep(kind, h), item |-> x, home |-> h,
                 primary |-> Owner, target |-> Owner, tries |-> 0, value |-> v,
                 todo |-> e, missed |-> 0, alone |-> Quiet]
<1>1. /\ op[c].step \in {"idle", "done"} /\ UNCHANGED <<lock, up>>
      /\ op' = [d \in Clients |-> IF d = c THEN o ELSE [op[d] EXCEPT !.alone = FALSE]]
  BY DEF Start, ring
<1> HIDE DEF v, e
<1>2. IsCall(o) /\ o.kind = kind /\ o.step = FirstStep(kind, h) /\ o.home = h /\ o.target = Owner
  BY DEF IsCall, Fields
<1> HIDE DEF o
<1>3. /\ kind = "put" => FirstStep(kind, h) = "put"
      /\ kind = "delete" => FirstStep(kind, h) = "del"
      /\ kind \in {"append", "drop"} => FirstStep(kind, h) = "lock"
      /\ kind = "remove" => FirstStep(kind, h) = IF Owner = h THEN "lock" ELSE "read"
      /\ kind \notin {"put", "delete", "append", "drop", "remove"} => FirstStep(kind, h) = "read"
  BY DEF FirstStep
<1>4. ~Critical(o) /\ Placed(o)
  BY <1>2, <1>3 DEF Critical, Placed
<1>5. ~Critical(op[c])
  BY <1>1 DEF Critical
<1>6. ASSUME NEW d \in Clients
      PROVE  /\ IsCall(op'[d]) /\ Placed(op'[d])
             /\ Critical(op'[d]) <=> Critical(op[d])
             /\ Critical(op'[d]) => LockNode(op'[d]) = LockNode(op[d])
  <2>1. CASE d = c
    BY <1>1, <1>2, <1>4, <1>5, <2>1
  <2>2. CASE d # c
    <3>1. op'[d] = [op[d] EXCEPT !.alone = FALSE]
      BY <1>1, <2>2
    <3> QED BY <3>1, DisturbedStays
  <2> QED BY <2>1, <2>2
<1>7. op' = [d \in Clients |-> op'[d]] /\ up' \in SUBSET Nodes
  BY <1>1 DEF LockInv
<1> QED BY <1>1, <1>6, <1>7, RelabelKeepsLocks

LEMMA RingChangeKeepsLocks ==
  ASSUME LockInv, NEW n \in Nodes, Forget(n) \/ Join(n) \/ \E ok \in BOOLEAN : Leave(n, ok)
  PROVE  LockInv'
<1>1. UNCHANGED lock /\ op' = Disturbed /\ up' \in SUBSET Nodes
  BY DEF LockInv, Forget, Leave, Join
<1>2. op' = [c \in Clients |-> op'[c]] /\ \A c \in Clients : op'[c] = [op[c] EXCEPT !.alone = FALSE]
  BY <1>1 DEF Disturbed
<1>3. ASSUME NEW c \in Clients
      PROVE  /\ IsCall(op'[c]) /\ Placed(op'[c])
             /\ Critical(op'[c]) <=> Critical(op[c])
             /\ Critical(op'[c]) => LockNode(op'[c]) = LockNode(op[c])
  BY <1>2, DisturbedStays
<1> QED BY <1>1, <1>2, <1>3, RelabelKeepsLocks

(* A handler under a lock runs where the lock is.                          *)
LEMMA CriticalAtItsLock ==
  ASSUME NEW o, Placed(o), Critical(o)
  PROVE  At(o) = LockNode(o) /\ o.step \notin {"idle", "done"}
  BY DEF Placed, Critical, At, LockNode

LEMMA NoOpIsFree == IsCall(NoOp) /\ Placed(NoOp) /\ ~Critical(NoOp)
<1>1. IsCall(NoOp) /\ NoOp.kind = "get" /\ NoOp.step = "idle"
  <2> DEFINE i == SomeItem
             l == Least(Founders)
             e == << >>
             x == [kind |-> "get", step |-> "idle", item |-> i, home |-> l, primary |-> l,
                   target |-> l, tries |-> 0, value |-> None, todo |-> e, missed |-> 0,
                   alone |-> FALSE]
  <2>1. NoOp = x
    BY DEF NoOp
  <2> HIDE DEF i, l, e
  <2>2. IsCall(x) /\ x.kind = "get" /\ x.step = "idle"
    BY DEF IsCall, Fields
  <2> QED BY <2>1, <2>2
<1> QED BY <1>1 DEF Placed, Critical

LEMMA HaltKeepsLocks ==
  ASSUME LockInv, NEW n \in Nodes, Halt(n)
  PROVE  LockInv'
<1> DEFINE busy == {c \in Clients : op[c].step \notin {"idle", "done"}}
           hit(c) == c \in busy /\ At(op[c]) = n
<1>1. /\ op' = [c \in Clients |-> op'[c]]
      /\ \A c \in Clients : op'[c] = IF hit(c)
                                     THEN IF op[c].home = n THEN NoOp
                                          ELSE [AppendAgain(op[c]) EXCEPT !.alone = FALSE]
                                     ELSE [op[c] EXCEPT !.alone = FALSE]
  BY DEF Halt
<1>2. /\ lock' = [m \in Nodes |-> lock'[m]]
      /\ \A m \in Nodes : lock'[m] = IF m = n \/ \E c \in busy : lock[m] = c /\ At(op[c]) = n
                                     THEN None ELSE lock[m]
  BY DEF Halt
<1>3. lock' \in [Nodes -> Clients \cup {None}] /\ up' \in SUBSET Nodes
  BY <1>2 DEF LockInv, Halt
<1>4. ASSUME NEW c \in Clients, hit(c) PROVE IsCall(op'[c]) /\ Placed(op'[c]) /\ ~Critical(op'[c])
  <2>1. CASE op[c].home = n
    <3>1. op'[c] = NoOp
      BY <1>1, <1>4, <2>1
    <3> QED BY <3>1, NoOpIsFree
  <2>2. CASE op[c].home # n
    <3>1. IsCall(op[c]) /\ op[c].kind = "append"
      BY <1>4, <2>2 DEF LockInv, At
    <3>2. op'[c] = [AppendAgain(op[c]) EXCEPT !.alone = FALSE]
      BY <1>1, <1>4, <2>2
    <3> QED BY <3>1, <3>2, AppendAgainIsFree
  <2> QED BY <2>1, <2>2
<1>5. ASSUME NEW c \in Clients, ~hit(c)
      PROVE  /\ IsCall(op'[c]) /\ Placed(op'[c])
             /\ Critical(op'[c]) <=> Critical(op[c])
             /\ LockNode(op'[c]) = LockNode(op[c])
  <2>1. op'[c] = [op[c] EXCEPT !.alone = FALSE]
    BY <1>1, <1>5
  <2> QED BY <2>1, DisturbedStays
<1>6. \A c \in Clients : Critical(op[c]) =>
        /\ c \in busy /\ At(op[c]) = LockNode(op[c]) /\ LockNode(op[c]) \in Nodes
  <2> SUFFICES ASSUME NEW c \in Clients, Critical(op[c])
               PROVE  c \in busy /\ At(op[c]) = LockNode(op[c]) /\ LockNode(op[c]) \in Nodes
    OBVIOUS
  <2>1. Placed(op[c])
    BY DEF LockInv
  <2>2. At(op[c]) = LockNode(op[c]) /\ op[c].step \notin {"idle", "done"}
    BY <2>1, CriticalAtItsLock
  <2> QED BY <2>1, <2>2 DEF Placed
<1>7. ASSUME NEW m \in Nodes, lock'[m] # None
      PROVE  Critical(op'[lock'[m]]) /\ LockNode(op'[lock'[m]]) = m
  <2>1. lock'[m] = lock[m] /\ lock[m] # None /\ lock[m] \in Clients /\ m # n
        /\ ~(\E c \in busy : lock[m] = c /\ At(op[c]) = n)
    BY <1>2, <1>7 DEF LockInv
  <2>2. Critical(op[lock[m]]) /\ LockNode(op[lock[m]]) = m
    BY <2>1 DEF LockInv, LockDiscipline
  <2>3. ~hit(lock[m])
    BY <2>1
  <2> QED BY <1>5, <2>1, <2>2, <2>3
<1>8. ASSUME NEW c \in Clients, Critical(op'[c]) PROVE lock'[LockNode(op'[c])] = c
  <2>1. ~hit(c)
    BY <1>4, <1>8
  <2>2. Critical(op[c]) /\ LockNode(op'[c]) = LockNode(op[c])
    BY <1>5, <1>8, <2>1
  <2>3. c \in busy /\ At(op[c]) = LockNode(op[c]) /\ LockNode(op[c]) \in Nodes
    BY <1>6, <2>2
  <2>4. lock[LockNode(op[c])] = c
    BY <2>2 DEF LockInv, LockDiscipline
  <2>5. LockNode(op[c]) # n /\ ~(\E d \in busy : lock[LockNode(op[c])] = d /\ At(op[d]) = n)
    BY <2>1, <2>3, <2>4
  <2> QED BY <1>2, <2>2, <2>3, <2>4, <2>5
<1>9. LockDiscipline'
  BY <1>7, <1>8 DEF LockDiscipline
<1>10. \A c \in Clients : IsCall(op'[c]) /\ Placed(op'[c])
  BY <1>4, <1>5
<1> QED BY <1>1, <1>3, <1>9, <1>10 DEF LockInv

(***************************************************************************)
(* The theorem                                                             *)
(***************************************************************************)
LEMMA LocksAtFirst == Init => LockInv
<1> SUFFICES ASSUME Init PROVE LockInv
  OBVIOUS
<1>1. op = [c \in Clients |-> NoOp] /\ lock = [n \in Nodes |-> None] /\ up \in SUBSET Nodes
  BY StoreAssumption DEF Init
<1>2. \A c \in Clients : IsCall(op[c]) /\ Placed(op[c]) /\ ~Critical(op[c])
  BY <1>1, NoOpIsFree
<1>3. op = [c \in Clients |-> op[c]] /\ lock \in [Nodes -> Clients \cup {None}]
  BY <1>1
<1>4. LockDiscipline
  BY <1>1, <1>2 DEF LockDiscipline
<1> QED BY <1>1, <1>2, <1>3, <1>4 DEF LockInv

LEMMA StepKeepsLocks == LockInv /\ [Next]_vars => LockInv'
<1> SUFFICES ASSUME LockInv, [Next]_vars PROVE LockInv'
  OBVIOUS
<1>1. ASSUME NEW c \in Clients, Work(c) PROVE LockInv'
  BY <1>1, ReadPrimaryKeepsLocks, ReadReplicaKeepsLocks, PutPrimaryKeepsLocks,
     DeletePrimaryKeepsLocks, AppendFailsKeepsLocks, AcquireKeepsLocks, ReplicationKeepsLocks
     DEF Work
<1>2. ASSUME NEW c \in Clients, NEW kind \in Kinds, NEW h \in Homes, NEW x \in Items,
             Start(c, kind, h, x)
      PROVE  LockInv'
  BY <1>2, StartKeepsLocks
<1>3. ASSUME NEW n \in Nodes, Crash(n) \/ Exit(n) PROVE LockInv'
  BY <1>3, HaltKeepsLocks DEF Crash, Exit
<1>4. ASSUME NEW n \in Nodes, Forget(n) \/ Join(n) \/ \E ok \in BOOLEAN : Leave(n, ok) PROVE LockInv'
  BY <1>4, RingChangeKeepsLocks
<1>5. CASE UNCHANGED <<lock, op, up>>
  BY <1>5 DEF LockInv, LockDiscipline
<1>6. CASE UNCHANGED vars
  BY <1>5, <1>6 DEF vars, ring
<1> QED BY <1>1, <1>2, <1>3, <1>4, <1>6 DEF Next

(* For every ring, chain length, number of clients, retries and troubles:  *)
(* a list's lock is held by exactly one call that is at work under it, and *)
(* every call at work under a lock holds it, whatever returns early, is    *)
(* repeated by its caller or dies with its process.                        *)
THEOREM LocksAreDisciplined == Spec => []LockDiscipline
<1>1. LockInv => LockDiscipline
  BY DEF LockInv
<1> QED BY <1>1, LocksAtFirst, StepKeepsLocks, PTL DEF Spec

(***************************************************************************)
(* Chains and lists                                                        *)
(***************************************************************************)
LEMMA ChainStays ==
  ASSUME UNCHANGED <<up, members>>, NEW p PROVE Chain(p)' = Chain(p)
BY DEF Chain, Extended, NextMember, Owner, Least

LEMMA OwnerStays ==
  ASSUME UNCHANGED <<up, members>> PROVE Owner' = Owner
BY DEF Chain, Extended, NextMember, Owner, Least

LEMMA LeastIn ==
  ASSUME NEW T, T \subseteq Nodes, T # {}
  PROVE  Least(T) \in T /\ \A m \in T : Least(T) <= m
<1>1. T \subseteq Nat
  BY StoreAssumption DEF Nodes
<1>2. \E x \in T : \A y \in T : x <= y
  BY <1>1, LeastNumber, Zenon
<1> QED BY <1>2, Zenon DEF Least

LEMMA NextMemberIn ==
  ASSUME members \in SUBSET Nodes, members # {}, NEW n \in Nodes
  PROVE  Owner \in members /\ NextMember(n) \in members
BY LeastIn DEF Owner, NextMember

(* The nodes in a chain: first the primary, then members, none of them twice. *)
Walks(p) ==
  {s \in Seq(Nodes) : /\ Len(s) >= 1 /\ s[1] = p
                      /\ \A i \in 2 .. Len(s) : s[i] \in members
                      /\ \A i, j \in 1 .. Len(s) : s[i] = s[j] => i = j}

LEMMA ExtendedWalks ==
  ASSUME members \in SUBSET Nodes, members # {}, NEW p \in Nodes, NEW s \in Walks(p)
  PROVE  /\ Extended(s) \in Walks(p)
         /\ \A i \in 1 .. Len(s) : i <= Len(Extended(s)) /\ Extended(s)[i] = s[i]
<1> DEFINE last == s[Len(s)]
           next == NextMember(last)
           t == Append(s, next)
<1>1. s \in Seq(Nodes) /\ Len(s) \in Nat /\ Len(s) >= 1 /\ last \in Nodes
  BY DEF Walks
<1>2. next \in members /\ next \in Nodes
  BY <1>1, NextMemberIn
<1>3. CASE Extended(s) = s
  BY <1>1, <1>3
<1>4. CASE ~(\E i \in 1 .. Len(s) : s[i] = next) /\ Extended(s) = t
  <2> HIDE DEF next
  <2>1. /\ t \in Seq(Nodes) /\ Len(t) = Len(s) + 1 /\ t[Len(s) + 1] = next
        /\ \A i \in 1 .. Len(s) : t[i] = s[i]
    BY <1>1, <1>2
  <2> HIDE DEF t
  <2>2. t[1] = p
    BY <1>1, <2>1 DEF Walks
  <2>3. \A i \in 2 .. Len(t) : t[i] \in members
    BY <1>1, <1>2, <2>1 DEF Walks
  <2>4. ASSUME NEW i \in 1 .. Len(t), NEW j \in 1 .. Len(t), t[i] = t[j] PROVE i = j
    <3>1. CASE i \in 1 .. Len(s) /\ j \in 1 .. Len(s)
      BY <2>1, <2>4, <3>1 DEF Walks
    <3>2. CASE i = Len(s) + 1 /\ j \in 1 .. Len(s)
      BY <1>4, <2>1, <2>4, <3>2
    <3>3. CASE j = Len(s) + 1 /\ i \in 1 .. Len(s)
      BY <1>4, <2>1, <2>4, <3>3
    <3> QED BY <1>1, <2>1, <3>1, <3>2, <3>3
  <2>5. t \in Walks(p)
    BY <1>1, <2>1, <2>2, <2>3, <2>4 DEF Walks
  <2> QED BY <1>1, <1>4, <2>1, <2>5
<1>5. Extended(s) = IF last \notin up \/ \E i \in 1 .. Len(s) : s[i] = next THEN s ELSE t
  BY DEF Extended
<1> QED BY <1>3, <1>4, <1>5

LEMMA ChainIsWalk ==
  ASSUME members \in SUBSET Nodes, members # {}, NEW p \in Nodes
  PROVE  \E f \in [0 .. K - 1 -> Walks(p)] :
           /\ f[0] = <<p>> /\ \A i \in 1 .. K - 1 : f[i] = Extended(f[i - 1])
           /\ Chain(p) = f[K - 1]
<1> DEFINE m == K - 1
           S == Walks(p)
           walk == CHOOSE f : f = [k \in 0 .. K - 1 |-> IF k = 0 THEN <<p>> ELSE Extended(f[k - 1])]
           Step == [i \in Nat |-> [s \in S |-> Extended(s)]]
<1>1. m \in Nat
  BY StoreAssumption
<1>2. <<p>> \in S
  BY DEF Walks
<1>3. Step \in [Nat -> [S -> S]]
  BY ExtendedWalks
<1>4. \E f : f = [k \in 0 .. K - 1 |-> IF k = 0 THEN <<p>> ELSE Extended(f[k - 1])]
  <2>1. PICK f \in [0 .. m -> S] : \A i \in 0 .. m : f[i] = IF i = 0 THEN <<p>> ELSE Step[i][f[i - 1]]
    <3> DEFINE one == <<p>>
    <3>1. one \in S
      BY <1>2
    <3> HIDE DEF m, S, Step, one
    <3>2. \E f \in [0 .. m -> S] : Recursion(f, one, Step, m)
      BY <1>1, <1>3, <3>1, RecursionExists, Zenon
    <3> QED BY <3>2, Zenon DEF Recursion, one
  <2>2. ASSUME NEW i \in 0 .. K - 1 PROVE f[i] = IF i = 0 THEN <<p>> ELSE Extended(f[i - 1])
    <3>1. CASE i = 0
      BY <2>1, <3>1
    <3>2. CASE i # 0
      <4>1. i \in Nat /\ i - 1 \in 0 .. m /\ f[i - 1] \in S
        BY <1>1, <3>2
      <4>2. Step[i][f[i - 1]] = Extended(f[i - 1])
        BY <4>1
      <4> QED BY <2>1, <3>2, <4>2
    <3> QED BY <3>1, <3>2
  <2>3. f = [k \in 0 .. K - 1 |-> IF k = 0 THEN <<p>> ELSE Extended(f[k - 1])]
    BY <2>2
  <2> QED BY <2>3
<1>5. walk = [k \in 0 .. K - 1 |-> IF k = 0 THEN <<p>> ELSE Extended(walk[k - 1])]
  BY <1>4, Zenon
<1>6. Chain(p) = walk[K - 1]
  BY Zenon DEF Chain
<1> HIDE DEF walk
<1>7. walk[0] = <<p>> /\ \A i \in 1 .. K - 1 : walk[i] = Extended(walk[i - 1])
  BY <1>1, <1>5
<1>8. \A i \in 0 .. m : walk[i] \in S
  <2> DEFINE T == {i \in 0 .. m : walk[i] \in S}
  <2>1. 0 \in T
    BY <1>1, <1>2, <1>7
  <2>2. ASSUME NEW i \in 1 .. m, i - 1 \in T PROVE i \in T
    <3>1. Extended(walk[i - 1]) \in S
      BY <2>2, ExtendedWalks
    <3> QED BY <1>1, <1>7, <3>1
  <2>3. 0 .. m \subseteq T
    <3> HIDE DEF T, m
    <3> QED BY <1>1, <2>1, <2>2, IntervalInduction
  <2> QED BY <2>3
<1>9. walk \in [0 .. K - 1 -> S]
  BY <1>5, <1>8
<1> QED BY <1>6, <1>7, <1>9

LEMMA ChainFacts ==
  ASSUME members \in SUBSET Nodes, members # {}, NEW p \in Nodes
  PROVE  /\ Chain(p) \in Walks(p)
         /\ K >= 2 /\ p \in up /\ NextMember(p) # p
              => Len(Chain(p)) >= 2 /\ Chain(p)[2] = NextMember(p)
<1>1. PICK f \in [0 .. K - 1 -> Walks(p)] :
           /\ f[0] = <<p>> /\ \A i \in 1 .. K - 1 : f[i] = Extended(f[i - 1])
           /\ Chain(p) = f[K - 1]
  BY ChainIsWalk
<1>2. Chain(p) \in Walks(p)
  BY <1>1, StoreAssumption
<1>3. ASSUME K >= 2, p \in up, NextMember(p) # p
      PROVE  Len(Chain(p)) >= 2 /\ Chain(p)[2] = NextMember(p)
  <2> DEFINE m == K - 1
             Two(s) == Len(s) >= 2 /\ s[2] = NextMember(p)
             T == {i \in 0 .. m : i = 0 \/ Two(f[i])}
  <2>1. m \in Nat /\ 0 \in T
    BY StoreAssumption
  <2>2. Two(Extended(<<p>>))
    BY <1>3 DEF Extended
  <2>3. ASSUME NEW i \in 1 .. m, i - 1 \in T PROVE i \in T
    <3>1. CASE i = 1
      BY <1>1, <2>2, <3>1
    <3>2. CASE i # 1
      <4>1. Two(f[i - 1]) /\ f[i - 1] \in Walks(p) /\ f[i] = Extended(f[i - 1])
        BY <1>1, <2>1, <2>3, <3>2, SMTT(60)
      <4>2. \A j \in 1 .. Len(f[i - 1]) : j <= Len(f[i]) /\ f[i][j] = f[i - 1][j]
        BY <4>1, ExtendedWalks
      <4>3. f[i] \in Walks(p)
        BY <1>1, <2>1
      <4>4. Len(f[i]) \in Nat /\ Len(f[i - 1]) \in Nat
        BY <4>1, <4>3 DEF Walks
      <4> QED BY <4>1, <4>2, <4>4
    <3> QED BY <3>1, <3>2
  <2>4. 0 .. m \subseteq T
    <3> HIDE DEF T, m
    <3> QED BY <2>1, <2>3, IntervalInduction
  <2>5. K - 1 \in T /\ K - 1 # 0
    BY <1>3, <2>4, StoreAssumption
  <2> QED BY <1>1, <2>5
<1> QED BY <1>2, <1>3

Names(s) == {s[i] : i \in 1 .. Len(s)}
Distinct(s) == \A i, j \in 1 .. Len(s) : s[i] = s[j] => i = j

LEMMA AppendNames ==
  ASSUME NEW S, NEW s \in Seq(S), NEW x \in S
  PROVE  /\ Append(s, x) \in Seq(S)
         /\ Names(Append(s, x)) = Names(s) \cup {x}
         /\ Distinct(s) /\ x \notin Names(s) => Distinct(Append(s, x))
<1> DEFINE t == Append(s, x)
<1>1. /\ t \in Seq(S) /\ Len(t) = Len(s) + 1 /\ t[Len(s) + 1] = x
      /\ Len(s) \in Nat /\ \A i \in 1 .. Len(s) : t[i] = s[i]
  OBVIOUS
<1> HIDE DEF t
<1>2. Names(t) = Names(s) \cup {x}
  <2>1. ASSUME NEW y \in Names(t) PROVE y \in Names(s) \cup {x}
    BY <1>1, <2>1 DEF Names
  <2>2. ASSUME NEW y \in Names(s) PROVE y \in Names(t)
    BY <1>1, <2>2 DEF Names
  <2>3. x \in Names(t)
    BY <1>1 DEF Names
  <2> QED BY <2>1, <2>2, <2>3
<1>3. ASSUME Distinct(s), x \notin Names(s) PROVE Distinct(t)
  <2> SUFFICES ASSUME NEW i \in 1 .. Len(t), NEW j \in 1 .. Len(t), t[i] = t[j] PROVE i = j
    BY DEF Distinct
  <2>1. CASE i \in 1 .. Len(s) /\ j \in 1 .. Len(s)
    BY <1>1, <1>3, <2>1 DEF Distinct
  <2>2. CASE i = Len(s) + 1 /\ j \in 1 .. Len(s)
    BY <1>1, <1>3, <2>2 DEF Names
  <2>3. CASE j = Len(s) + 1 /\ i \in 1 .. Len(s)
    BY <1>1, <1>3, <2>3 DEF Names
  <2> QED BY <1>1, <2>1, <2>2, <2>3
<1> QED BY <1>1, <1>2, <1>3 DEF t

LEMMA FilteredNames ==
  ASSUME NEW S, NEW s \in Seq(S), NEW x
  PROVE  /\ Filtered(s, x) \in Seq(S)
         /\ Names(Filtered(s, x)) = Names(s) \ {x}
         /\ Distinct(s) => Distinct(Filtered(s, x))
<1> DEFINE n == Len(s)
           F == Seq(S)
           nil == << >>
           kept == CHOOSE f : f = [i \in 0 .. Len(s) |->
                     IF i = 0 THEN << >>
                     ELSE IF s[i] = x THEN f[i - 1] ELSE Append(f[i - 1], s[i])]
           Step == [i \in Nat |-> [q \in F |->
                     IF i \in 1 .. n /\ s[i] # x THEN Append(q, s[i]) ELSE q]]
<1>1. n \in Nat /\ nil \in F
  OBVIOUS
<1>2. Step \in [Nat -> [F -> F]]
  OBVIOUS
<1>3. PICK f \in [0 .. n -> F] : Recursion(f, nil, Step, n)
  <2> HIDE DEF n, F, Step, nil
  <2> QED BY <1>1, <1>2, RecursionExists, Zenon
<1>4. ASSUME NEW i \in 0 .. Len(s)
      PROVE  f[i] = IF i = 0 THEN << >>
                    ELSE IF s[i] = x THEN f[i - 1] ELSE Append(f[i - 1], s[i])
  <2>1. CASE i = 0
    BY <1>3, <2>1 DEF Recursion
  <2>2. CASE i # 0
    <3>a. i \in Nat /\ i \in 1 .. n /\ i - 1 \in 0 .. n
      BY <1>1, <2>2
    <3>b. f[i - 1] \in F
      <4> HIDE DEF n, F, Step, nil
      <4> QED BY <3>a
    <3>1. i \in Nat /\ i \in 1 .. n /\ i - 1 \in 0 .. n /\ f[i - 1] \in F
      BY <3>a, <3>b
    <3>2. f[i] = Step[i][f[i - 1]]
      BY <1>3, <2>2 DEF Recursion
    <3>3. Step[i][f[i - 1]] = IF s[i] # x THEN Append(f[i - 1], s[i]) ELSE f[i - 1]
      BY <3>1
    <3> HIDE DEF Step
    <3> QED BY <2>2, <3>2, <3>3
  <2> QED BY <2>1, <2>2
<1>5. kept = [i \in 0 .. Len(s) |->
                IF i = 0 THEN << >>
                ELSE IF s[i] = x THEN kept[i - 1] ELSE Append(kept[i - 1], s[i])]
  <2>1. f = [i \in 0 .. Len(s) |->
               IF i = 0 THEN << >>
               ELSE IF s[i] = x THEN f[i - 1] ELSE Append(f[i - 1], s[i])]
    BY <1>4
  <2> QED BY <2>1, Zenon
<1>6. Filtered(s, x) = kept[Len(s)]
  BY Zenon DEF Filtered
<1> HIDE DEF kept
<1> DEFINE Before(i) == {s[j] : j \in 1 .. i}
           Good(q, i) == /\ q \in Seq(S) /\ Names(q) = Before(i) \ {x}
                         /\ Distinct(s) => Distinct(q)
           T == {i \in 0 .. n : Good(kept[i], i)}
<1>7. 0 \in T
  <2>1. kept[0] = << >>
    BY <1>1, <1>5
  <2>2. Names(<< >>) = {} /\ Distinct(<< >>) /\ Before(0) = {}
    BY DEF Names, Distinct
  <2>3. Good(kept[0], 0)
    BY <2>1, <2>2
  <2> HIDE DEF Good
  <2> QED BY <1>1, <2>3
<1>8. ASSUME NEW i \in 1 .. n, i - 1 \in T PROVE i \in T
  <2> DEFINE q == kept[i - 1]
  <2>0. Good(q, i - 1)
    <3> HIDE DEF Good
    <3> QED BY <1>8
  <2>1. i \in 0 .. n /\ i # 0 /\ s[i] \in S
    BY <1>1
  <2>2. kept[i] = IF s[i] = x THEN q ELSE Append(q, s[i])
    <3> DEFINE Body(j) == IF j = 0 THEN << >>
                          ELSE IF s[j] = x THEN kept[j - 1] ELSE Append(kept[j - 1], s[j])
    <3>1. kept = [j \in 0 .. Len(s) |-> Body(j)]
      BY <1>5
    <3>2. kept[i] = Body(i)
      <4> HIDE DEF Body
      <4> QED BY <2>1, <3>1
    <3> QED BY <2>1, <3>2
  <2>3. Before(i) = Before(i - 1) \cup {s[i]}
    <3>1. \A j \in 1 .. i : j \in 1 .. i - 1 \/ j = i
      BY <1>1
    <3>2. \A j \in 1 .. i - 1 : j \in 1 .. i
      BY <1>1
    <3>3. i \in 1 .. i
      BY <1>1
    <3> QED BY <3>1, <3>2, <3>3
  <2>4. Distinct(s) => s[i] \notin Before(i - 1)
    BY <1>1 DEF Distinct
  <2> HIDE DEF q, Before
  <2>5. CASE s[i] = x
    <3>1. Good(kept[i], i)
      BY <2>0, <2>2, <2>3, <2>5
    <3> HIDE DEF Good
    <3> QED BY <2>1, <3>1
  <2>6. CASE s[i] # x
    <3> DEFINE y == s[i]
    <3>1. /\ Append(q, y) \in Seq(S) /\ Names(Append(q, y)) = Names(q) \cup {y}
          /\ Distinct(q) /\ y \notin Names(q) => Distinct(Append(q, y))
      BY <2>0, <2>1, AppendNames
    <3>2. Distinct(s) => y \notin Names(q)
      BY <2>0, <2>4
    <3>3. Good(Append(q, y), i)
      BY <2>0, <2>3, <2>6, <3>1, <3>2
    <3> HIDE DEF Good
    <3> QED BY <2>1, <2>2, <2>6, <3>3
  <2> QED BY <2>5, <2>6
<1>9. 0 .. n \subseteq T
  <2> HIDE DEF T, n
  <2> QED BY <1>1, <1>7, <1>8, IntervalInduction
<1>10. Good(kept[n], n)
  <2> HIDE DEF Good
  <2> QED BY <1>1, <1>9
<1> QED BY <1>6, <1>10 DEF Names

(***************************************************************************)
(* The types, and no task named twice                                      *)
(***************************************************************************)
(* What a store, a snapshot or a call may hold: nothing, or a record whose *)
(* items are distinct.                                                     *)
Lists == {r \in Record : Distinct(r.items)} \cup {None}
Steps == {"idle", "read", "replicas", "put", "del", "lock", "locked", "chain", "copy", "done"}
Calls == [kind : Kinds, step : Steps, item : Items, home : Nodes, primary : Nodes,
          target : Nodes, tries : Nat, value : Lists, todo : Seq(Nodes), missed : Nat,
          alone : BOOLEAN]
RingOK == up \in SUBSET Nodes /\ members \in SUBSET Nodes /\ members # {}
DataOK == store \in [Nodes -> Lists] /\ disk \in [Nodes -> Lists]
ListInv ==
  /\ service \in Services /\ RingOK /\ DataOK
  /\ lock \in [Nodes -> Clients \cup {None}]
  /\ op \in [Clients -> Calls]
  /\ calls \in 0 .. MaxCalls
  /\ latest \in Lists \cup {Unsure} /\ assigned \in SUBSET Items
  /\ unlocked \in BOOLEAN
  /\ happened \in [Troubles -> Nat]

LEMMA ListsAreTyped == ListInv => TypeOK
<1>1. Lists \subseteq Record \cup {None}
  BY DEF Lists
<1>2. Calls \subseteq Op
  BY <1>1 DEF Calls, Op, Steps
<1>3. ASSUME ListInv PROVE op \in [Clients -> Op]
  BY <1>2, <1>3 DEF ListInv
<1>4. ASSUME ListInv
      PROVE  /\ store \in [Nodes -> Record \cup {None}] /\ disk \in [Nodes -> Record \cup {None}]
             /\ latest \in Record \cup {None, Unsure}
  BY <1>1, <1>4 DEF ListInv, DataOK
<1> QED BY <1>3, <1>4 DEF ListInv, TypeOK, RingOK

LEMMA ListsNameNoTaskTwice == ListInv => NoTaskTwice
  BY DEF ListInv, DataOK, Lists, Distinct, NoTaskTwice

(* The records the calls make.                                             *)
LEMMA OneItem ==
  ASSUME NEW x \in Items PROVE <<x>> \in Seq(Items) /\ Distinct(<<x>>) /\ Names(<<x>>) = {x}
  BY DEF Distinct, Names

LEMMA NoneIsNoRecord == None \in Lists
  BY DEF Lists

LEMMA BumpedIsList ==
  ASSUME NEW v \in Record, NEW t \in Seq(Items), Distinct(t), NEW d \in BOOLEAN
  PROVE  /\ v.items \in Seq(Items) /\ v.deleted \in BOOLEAN
         /\ [v EXCEPT !.version = @ + 1, !.items = t] \in Lists
         /\ [v EXCEPT !.version = @ + 1, !.items = t].items = t
         /\ Distinct(v.items) => [v EXCEPT !.version = @ + 1, !.deleted = d] \in Lists
<1> DEFINE S == Seq(Items)
           k == v.version + 1
           a == [v EXCEPT !.version = k, !.items = t]
           b == [v EXCEPT !.version = k, !.deleted = d]
<1>1. v \in [version : Nat, deleted : BOOLEAN, items : S] /\ t \in S
  BY DEF Record
<1> HIDE DEF S
<1>2. k \in Nat /\ v.deleted \in BOOLEAN /\ v.items \in S
  BY <1>1
<1> HIDE DEF k
<1>3. a \in [version : Nat, deleted : BOOLEAN, items : S] /\ a.items = t
  BY <1>1, <1>2
<1>4. b \in [version : Nat, deleted : BOOLEAN, items : S] /\ b.items = v.items
  BY <1>1, <1>2
<1> HIDE DEF a, b
<1>5. a \in Lists /\ a.items = t /\ (Distinct(v.items) => b \in Lists)
  BY <1>3, <1>4 DEF Lists, Record, S
<1> QED BY <1>2, <1>5 DEF a, b, k, S

LEMMA RecordsMade ==
  ASSUME NEW x \in Items, NEW v \in Lists
  PROVE  /\ NewTask(x) \in Lists /\ [version |-> 1, deleted |-> FALSE, items |-> <<x>>] \in Lists
         /\ v # None => Patched(v, x) \in Lists /\ Deleted(v) \in Lists
         /\ ~Has(v, x) => Appended(v, x) \in Lists
         /\ Has(v, x) => Without(v, x) \in Lists
<1> DEFINE one == <<x>>
<1>1. one \in Seq(Items) /\ Distinct(one)
  BY OneItem
<1>2. NewTask(x) \in Lists /\ [version |-> 1, deleted |-> FALSE, items |-> one] \in Lists
  <2>1. NewTask(x) = [version |-> 2, deleted |-> FALSE, items |-> one]
    BY DEF NewTask
  <2> HIDE DEF one
  <2> QED BY <1>1, <2>1 DEF Lists, Record
<1>3. ASSUME v # None PROVE v \in Record /\ Distinct(v.items)
  BY <1>3 DEF Lists
<1>4. ASSUME v # None PROVE Patched(v, x) \in Lists /\ Deleted(v) \in Lists
  <2>1. /\ Patched(v, x) = [v EXCEPT !.version = @ + 1, !.items = one]
        /\ Deleted(v) = [v EXCEPT !.version = @ + 1, !.deleted = TRUE]
    BY DEF Patched, Deleted
  <2> HIDE DEF one
  <2> QED BY <1>1, <1>3, <1>4, <2>1, BumpedIsList
<1>5. ASSUME ~Has(v, x) PROVE Appended(v, x) \in Lists
  <2>1. CASE v = None
    <3>1. Appended(v, x) = [version |-> 1, deleted |-> FALSE, items |-> one]
      BY <2>1 DEF Appended
    <3> QED BY <1>2, <3>1
  <2>2. CASE v # None
    <3> DEFINE t == Append(v.items, x)
    <3>1. v \in Record /\ v.items \in Seq(Items) /\ Distinct(v.items)
      BY <1>3, <2>2 DEF Record
    <3>2. x \notin Names(v.items)
      BY <1>5, <2>2 DEF Has, Names
    <3>3. t \in Seq(Items) /\ Distinct(t)
      BY <3>1, <3>2, AppendNames
    <3>4. Appended(v, x) = [v EXCEPT !.version = @ + 1, !.items = t]
      BY <2>2, <3>1 DEF Appended, Record
    <3> HIDE DEF t
    <3> QED BY <3>1, <3>3, <3>4, BumpedIsList
  <2> QED BY <2>1, <2>2
<1>6. ASSUME Has(v, x) PROVE Without(v, x) \in Lists
  <2>1. v \in Record /\ v.items \in Seq(Items) /\ Distinct(v.items)
    BY <1>3, <1>6 DEF Has, Record
  <2> DEFINE t == Filtered(v.items, x)
  <2>2. t \in Seq(Items) /\ Distinct(t)
    BY <2>1, FilteredNames
  <2>3. Without(v, x) = [v EXCEPT !.version = @ + 1, !.items = t]
    BY <2>1 DEF Without, Record
  <2> HIDE DEF t
  <2> QED BY <2>1, <2>2, <2>3, BumpedIsList
<1> QED BY <1>2, <1>4, <1>5, <1>6

(* What the parts of a step keep.                                          *)
LEMMA SetKeepsCalls ==
  ASSUME op \in [Clients -> Calls], NEW c \in Clients, NEW o \in Calls, Set(c, o)
  PROVE  op' \in [Clients -> Calls]
  BY DEF Set

LEMMA DoneIsCall ==
  ASSUME NEW o \in Calls
  PROVE  [o EXCEPT !.step = "done", !.todo = << >>] \in Calls
<1> DEFINE e == << >>
<1>1. e \in Seq(Nodes)
  OBVIOUS
<1> HIDE DEF e
<1>2. [o EXCEPT !.step = "done", !.todo = e] \in Calls
  BY <1>1 DEF Calls, Steps
<1> QED BY <1>2 DEF e

LEMMA FinishKeepsLists ==
  ASSUME ListInv, NEW c \in Clients, NEW o \in Calls, NEW l \in Lists \cup {Unsure}, Finish(c, o, l)
  PROVE  /\ op' \in [Clients -> Calls] /\ latest' \in Lists \cup {Unsure}
         /\ lock' \in [Nodes -> Clients \cup {None}]
  BY SetKeepsCalls, DoneIsCall DEF Finish, ListInv

LEMMA GoKeepsLists ==
  ASSUME ListInv, NEW c \in Clients, NEW o \in Calls, Go(c, o)
  PROVE  /\ op' \in [Clients -> Calls] /\ latest' \in Lists \cup {Unsure}
         /\ lock' \in [Nodes -> Clients \cup {None}]
  BY SetKeepsCalls DEF Go, ListInv

LEMMA WriteKeepsLists ==
  ASSUME DataOK, NEW n \in Nodes, NEW v \in Lists, Write(n, v)
  PROVE  DataOK'
  BY DEF Write, DataOK

LEMMA StoreKeepsLists ==
  ASSUME DataOK, NEW n \in Nodes, NEW v \in Lists, NEW ok \in BOOLEAN, Store(n, v, ok)
  PROVE  DataOK'
<1>1. CASE Write(n, v)
  BY <1>1, WriteKeepsLists
<1>2. CASE UNCHANGED data
  BY <1>2 DEF DataOK, data
<1> QED BY <1>1, <1>2 DEF Store

LEMMA TroubleIsCounted ==
  ASSUME happened \in [Troubles -> Nat], NEW t \in Troubles, Trouble(t)
  PROVE  happened' \in [Troubles -> Nat]
  BY DEF Trouble

LEMMA ReachIsCounted ==
  ASSUME happened \in [Troubles -> Nat], NEW o, NEW n, NEW ok \in BOOLEAN, Reach(o, n, ok)
  PROVE  happened' \in [Troubles -> Nat]
<1>1. "fault" \in Troubles
  BY DEF Troubles
<1> QED BY <1>1, TroubleIsCounted DEF Reach

LEMMA OwnerIn == RingOK => Owner \in Nodes /\ Owner \in members
  BY NextMemberIn, LeastIn DEF RingOK, Owner

LEMMA ReplicasAreNodes ==
  ASSUME RingOK, NEW o \in Calls
  PROVE  /\ Replicas(o) \in Seq(Nodes)
         /\ \A i \in 0 .. Len(Replicas(o)) - 1 : SubSeq(Replicas(o), 1, i) \in Seq(Nodes)
<1> DEFINE w == Chain(o.primary)
           r == Replicas(o)
<1>1. w \in Seq(Nodes) /\ Len(w) \in Nat /\ Len(w) >= 1
  BY ChainFacts DEF RingOK, Calls, Walks
<1>2. r = SubSeq(w, 2, Len(w))
  BY DEF Replicas
<1> HIDE DEF w
<1>3. r \in Seq(Nodes)
  BY <1>1, <1>2
<1> HIDE DEF r
<1>4. \A i \in 0 .. Len(r) - 1 : SubSeq(r, 1, i) \in Seq(Nodes)
  BY <1>3
<1> QED BY <1>3, <1>4 DEF r

LEMMA WritesAreCalls ==
  ASSUME RingOK, NEW o \in Calls, NEW v \in Lists, NEW w \in Writes(o, v)
  PROVE  w \in Calls
<1>0. o.item \in Items /\ Owner \in Nodes
  BY OwnerIn DEF Calls
<1>1. CASE o.kind = "register"
  <2> DEFINE r == NewTask(o.item)
  <2>1. r \in Lists
    BY <1>0, RecordsMade
  <2>2. w = [o EXCEPT !.step = "put", !.value = r, !.tries = 0, !.primary = Owner, !.target = Owner]
    BY <1>1 DEF Writes
  <2> HIDE DEF r
  <2> QED BY <1>0, <2>1, <2>2 DEF Calls, Steps
<1>2. CASE o.kind = "update"
  <2> DEFINE r == Patched(v, o.item)
  <2>1. r \in Lists /\ w = [o EXCEPT !.step = "put", !.value = r, !.tries = 0]
    BY <1>0, <1>2, RecordsMade DEF Writes
  <2> HIDE DEF r
  <2> QED BY <2>1 DEF Calls, Steps
<1>3. CASE o.kind = "deregister"
  <2> DEFINE r == Deleted(v)
  <2>1. r \in Lists /\ w = [o EXCEPT !.step = "put", !.value = r, !.tries = 0]
    BY <1>0, <1>3, RecordsMade DEF Writes
  <2> HIDE DEF r
  <2> QED BY <2>1 DEF Calls, Steps
<1>4. CASE o.kind = "purge"
  <2>1. w = [o EXCEPT !.step = "del", !.value = None]
    BY <1>4 DEF Writes
  <2> QED BY <2>1, NoneIsNoRecord DEF Calls, Steps
<1>5. CASE o.kind = "remove"
  <2> DEFINE r == Without(v, o.item)
  <2>1. r \in Lists /\ w = [o EXCEPT !.step = "put", !.value = r]
    BY <1>0, <1>5, RecordsMade DEF Writes
  <2> HIDE DEF r
  <2> QED BY <2>1 DEF Calls, Steps
<1> QED BY <1>1, <1>2, <1>3, <1>4, <1>5 DEF Writes

LEMMA AfterReadKeepsLists ==
  ASSUME ListInv, NEW c \in Clients, NEW o \in Calls, NEW v \in Lists, AfterRead(c, o, v)
  PROVE  /\ op' \in [Clients -> Calls] /\ latest' \in Lists \cup {Unsure}
         /\ lock' \in [Nodes -> Clients \cup {None}]
<1>1. CASE Writes(o, v) = {}
  <2> DEFINE x == [o EXCEPT !.value = v]
  <2>1. x \in Calls
    BY DEF Calls
  <2>2. Finish(c, x, latest) /\ latest \in Lists \cup {Unsure}
    BY <1>1 DEF AfterRead, ListInv
  <2> HIDE DEF x
  <2> QED BY <2>1, <2>2, FinishKeepsLists
<1>2. ASSUME NEW w \in Writes(o, v), Go(c, w)
      PROVE  /\ op' \in [Clients -> Calls] /\ latest' \in Lists \cup {Unsure}
             /\ lock' \in [Nodes -> Clients \cup {None}]
  <2>1. w \in Calls
    BY WritesAreCalls DEF ListInv
  <2> QED BY <1>2, <2>1, GoKeepsLists
<1> QED BY <1>1, <1>2 DEF AfterRead

Kept == /\ op' \in [Clients -> Calls] /\ latest' \in Lists \cup {Unsure}
        /\ lock' \in [Nodes -> Clients \cup {None}]

LEMMA ClientStepKeepsLists ==
  ASSUME ListInv, Kept, DataOK', happened' \in [Troubles -> Nat], unlocked' \in BOOLEAN,
         assigned' \in SUBSET Items, UNCHANGED <<service, ring, calls>>
  PROVE  ListInv'
<1>1. RingOK'
  BY DEF ListInv, RingOK, ring
<1> QED BY <1>1 DEF ListInv, Kept

LEMMA AgainIsCall ==
  ASSUME NEW o \in Calls, NEW t \in Nodes
  PROVE  /\ [o EXCEPT !.tries = @ + 1] \in Calls
         /\ [o EXCEPT !.tries = @ + 1, !.target = t] \in Calls
         /\ [o EXCEPT !.tries = @ + 1, !.target = t, !.alone = FALSE] \in Calls
         /\ [o EXCEPT !.step = "lock", !.tries = @ + 1, !.target = t, !.todo = << >>] \in Calls
         /\ [o EXCEPT !.step = "chain", !.tries = 0] \in Calls
         /\ [o EXCEPT !.alone = FALSE] \in Calls
<1> DEFINE k == o.tries + 1
           e == << >>
<1>1. k \in Nat /\ e \in Seq(Nodes)
  BY DEF Calls
<1> HIDE DEF k, e
<1>2. [o EXCEPT !.tries = k] \in Calls /\ [o EXCEPT !.tries = k, !.target = t] \in Calls
  BY <1>1 DEF Calls
<1>3. [o EXCEPT !.tries = k, !.target = t, !.alone = FALSE] \in Calls
  BY <1>1 DEF Calls
<1>4. [o EXCEPT !.step = "lock", !.tries = k, !.target = t, !.todo = e] \in Calls
  BY <1>1 DEF Calls, Steps
<1>5. [o EXCEPT !.step = "chain", !.tries = 0] \in Calls
  BY DEF Calls, Steps
<1>6. [o EXCEPT !.alone = FALSE] \in Calls
  BY DEF Calls
<1> QED BY <1>2, <1>3, <1>4, <1>5, <1>6 DEF k, e

LEMMA ReadPrimaryKeepsLists ==
  ASSUME ListInv, NEW c \in Clients, NEW ok \in BOOLEAN, ReadPrimary(c, ok)
  PROVE  ListInv'
<1> DEFINE o == op[c]
           v == IF ok THEN store[o.target] ELSE None
           heard == [o EXCEPT !.alone = @ /\ ok]
           again == [heard EXCEPT !.tries = @ + 1, !.target = Owner]
           r == Replicas(o)
           ask == [heard EXCEPT !.step = "replicas", !.todo = r]
<1>1. o \in Calls /\ o.target \in Nodes /\ Owner \in Nodes /\ r \in Seq(Nodes) /\ v \in Lists
  <2>1. o \in Calls
    BY DEF ListInv
  <2>2. o.target \in Nodes
    BY <2>1 DEF Calls
  <2>3. v \in Lists
    BY <2>2, NoneIsNoRecord DEF ListInv, DataOK
  <2> QED BY <2>1, <2>2, <2>3, OwnerIn, ReplicasAreNodes DEF ListInv
<1>2. heard \in Calls
  BY <1>1 DEF Calls
<1>3. Go(c, again) \/ Go(c, ask) \/ AfterRead(c, heard, v)
  BY DEF ReadPrimary
<1> HIDE DEF r, v, heard
<1>4. again \in Calls
  BY <1>1, <1>2, AgainIsCall, Zenon
<1>5. ask \in Calls
  BY <1>1, <1>2 DEF Calls, Steps
<1> HIDE DEF again, ask
<1>6. Kept
  BY <1>1, <1>2, <1>3, <1>4, <1>5, GoKeepsLists, AfterReadKeepsLists DEF Kept
<1>7. happened' \in [Troubles -> Nat]
  BY ReachIsCounted DEF ReadPrimary, ListInv
<1>8. DataOK' /\ unlocked' \in BOOLEAN /\ assigned' \in SUBSET Items /\ UNCHANGED <<service, ring, calls>>
  BY DEF ReadPrimary, ListInv, DataOK, data
<1> QED BY <1>6, <1>7, <1>8, ClientStepKeepsLists

LEMMA ReadReplicaKeepsLists ==
  ASSUME ListInv, NEW c \in Clients, NEW ok \in BOOLEAN, ReadReplica(c, ok)
  PROVE  ListInv'
<1> DEFINE o == op[c]
           v == IF ok THEN store[Head(o.todo)] ELSE None
           t == Tail(o.todo)
           rest == [o EXCEPT !.todo = t, !.alone = @ /\ ok]
<1>1. o \in Calls /\ o.todo \in Seq(Nodes) /\ o.todo # << >>
  BY DEF ListInv, ReadReplica, Calls
<1>2. Head(o.todo) \in Nodes /\ t \in Seq(Nodes)
  BY <1>1
<1>3. v \in Lists
  BY <1>2, NoneIsNoRecord DEF ListInv, DataOK
<1>4. AfterRead(c, rest, v) \/ Go(c, rest)
  BY DEF ReadReplica
<1> HIDE DEF v, t
<1>5. rest \in Calls
  BY <1>1, <1>2 DEF Calls
<1> HIDE DEF rest
<1>6. Kept
  BY <1>3, <1>4, <1>5, GoKeepsLists, AfterReadKeepsLists DEF Kept
<1>7. happened' \in [Troubles -> Nat]
  BY ReachIsCounted DEF ReadReplica, ListInv
<1>8. DataOK' /\ unlocked' \in BOOLEAN /\ assigned' \in SUBSET Items /\ UNCHANGED <<service, ring, calls>>
  BY DEF ReadReplica, ListInv, DataOK, data
<1> QED BY <1>6, <1>7, <1>8, ClientStepKeepsLists

LEMMA NoReplicaKeepsLists ==
  ASSUME ListInv, NEW c \in Clients, NoReplica(c)
  PROVE  ListInv'
<1>1. op[c] \in Calls /\ AfterRead(c, op[c], None)
  BY DEF ListInv, NoReplica
<1>2. Kept
  BY <1>1, NoneIsNoRecord, AfterReadKeepsLists DEF Kept
<1>3. /\ DataOK' /\ unlocked' \in BOOLEAN /\ assigned' \in SUBSET Items
      /\ happened' \in [Troubles -> Nat] /\ UNCHANGED <<service, ring, calls>>
  BY DEF NoReplica, ListInv, DataOK, data
<1> QED BY <1>2, <1>3, ClientStepKeepsLists

LEMMA PutPrimaryKeepsLists ==
  ASSUME ListInv, NEW c \in Clients, NEW ok \in BOOLEAN, PutPrimary(c, ok)
  PROVE  ListInv'
<1> DEFINE o == op[c]
           late == [o EXCEPT !.alone = FALSE]
           more == [o EXCEPT !.step = "chain", !.tries = 0]
           again == [o EXCEPT !.tries = @ + 1, !.target = Owner, !.alone = FALSE]
<1>1. o \in Calls /\ o.target \in Nodes /\ o.value \in Lists /\ Owner \in Nodes
  BY OwnerIn DEF ListInv, Calls
<1>2. late \in Calls /\ more \in Calls /\ again \in Calls
  BY <1>1, AgainIsCall, Zenon
<1>3. \/ \E l \in Lists \cup {Unsure} : Finish(c, o, l)
      \/ Go(c, more) \/ Finish(c, late, Unsure) \/ Go(c, again)
  BY <1>1 DEF PutPrimary
<1> HIDE DEF late, more, again
<1>4. Kept
  BY <1>1, <1>2, <1>3, GoKeepsLists, FinishKeepsLists DEF Kept
<1>5. DataOK'
  BY <1>1, StoreKeepsLists DEF PutPrimary, ListInv
<1>6. happened' \in [Troubles -> Nat]
  BY ReachIsCounted DEF PutPrimary, ListInv
<1>7. unlocked' \in BOOLEAN /\ assigned' \in SUBSET Items /\ UNCHANGED <<service, ring, calls>>
  BY DEF PutPrimary, ListInv
<1> QED BY <1>4, <1>5, <1>6, <1>7, ClientStepKeepsLists

LEMMA DeletePrimaryKeepsLists ==
  ASSUME ListInv, NEW c \in Clients, NEW ok \in BOOLEAN, DeletePrimary(c, ok)
  PROVE  ListInv'
<1> DEFINE o == op[c]
           heard == [o EXCEPT !.alone = @ /\ ok]
           again == [heard EXCEPT !.tries = @ + 1, !.target = Owner]
           more == [heard EXCEPT !.step = "chain", !.tries = 0]
<1>1. o \in Calls /\ o.target \in Nodes /\ Owner \in Nodes
  BY OwnerIn DEF ListInv, Calls
<1>2. heard \in Calls
  BY <1>1 DEF Calls
<1>3. \/ Go(c, again) \/ Go(c, more)
      \/ \E l \in Lists \cup {Unsure} : Finish(c, heard, l)
  BY NoneIsNoRecord DEF DeletePrimary
<1> HIDE DEF heard
<1>4. again \in Calls /\ more \in Calls
  BY <1>1, <1>2, AgainIsCall, Zenon
<1> HIDE DEF again, more
<1>5. Kept
  BY <1>2, <1>3, <1>4, GoKeepsLists, FinishKeepsLists DEF Kept
<1>6. DataOK'
  BY <1>1, NoneIsNoRecord, StoreKeepsLists DEF DeletePrimary, ListInv
<1>7. happened' \in [Troubles -> Nat]
  BY ReachIsCounted DEF DeletePrimary, ListInv
<1>8. unlocked' \in BOOLEAN /\ assigned' \in SUBSET Items /\ UNCHANGED <<service, ring, calls>>
  BY DEF DeletePrimary, ListInv
<1> QED BY <1>5, <1>6, <1>7, <1>8, ClientStepKeepsLists

LEMMA AppendAgainIsCall ==
  ASSUME RingOK, NEW o \in Calls
  PROVE  [AppendAgain(o) EXCEPT !.alone = FALSE] \in Calls
<1> DEFINE over == [o EXCEPT !.step = "done", !.todo = << >>]
           again == [o EXCEPT !.step = "lock", !.tries = @ + 1, !.target = Owner, !.todo = << >>]
<1>1. Owner \in Nodes
  BY OwnerIn
<1>2. over \in Calls
  BY DoneIsCall
<1>3. again \in Calls
  BY <1>1, AgainIsCall, Zenon
<1>4. AppendAgain(o) \in {over, again}
  BY DEF AppendAgain
<1> HIDE DEF over, again
<1> QED BY <1>2, <1>3, <1>4 DEF Calls

LEMMA AppendFailsKeepsLists ==
  ASSUME ListInv, NEW c \in Clients, AppendFails(c) \/ AnswerLost(c)
  PROVE  ListInv'
<1> DEFINE x == [AppendAgain(op[c]) EXCEPT !.alone = FALSE]
<1>1. x \in Calls
  BY AppendAgainIsCall DEF ListInv
<1>2. Set(c, x) /\ latest' = Unsure
  BY DEF AppendFails, AnswerLost
<1> HIDE DEF x
<1>3. op' \in [Clients -> Calls] /\ latest' \in Lists \cup {Unsure}
  BY <1>1, <1>2, SetKeepsCalls DEF ListInv
<1>4. lock' \in [Nodes -> Clients \cup {None}]
  BY DEF AppendFails, AnswerLost, ListInv
<1>5. "fault" \in Troubles
  BY DEF Troubles
<1>6. happened' \in [Troubles -> Nat]
  <2>1. CASE AppendFails(c)
    BY <2>1, ReachIsCounted DEF AppendFails, ListInv
  <2>2. CASE AnswerLost(c)
    BY <1>5, <2>2, TroubleIsCounted DEF AnswerLost, ListInv
  <2> QED BY <2>1, <2>2
<1>7. DataOK' /\ unlocked' \in BOOLEAN /\ assigned' \in SUBSET Items /\ UNCHANGED <<service, ring, calls>>
  BY DEF AppendFails, AnswerLost, ListInv, DataOK, data
<1> QED BY <1>3, <1>4, <1>6, <1>7, ClientStepKeepsLists DEF Kept

LEMMA AcquireKeepsLists ==
  ASSUME ListInv, LockInv, NEW c \in Clients, Acquire(c)
  PROVE  ListInv'
<1> DEFINE o == op[c]
           n == LockNode(o)
           v == store[n]
           p == IF o.target = o.home THEN o.primary ELSE Owner
           w == CASE o.kind = "append" -> Appended(v, o.item)
                  [] o.kind = "remove" -> Without(v, o.item)
                  [] OTHER -> None
           s == IF o.kind = "drop" THEN "del" ELSE "locked"
           x == [o EXCEPT !.step = s, !.primary = p, !.value = w]
<1>1. o \in Calls /\ Placed(o) /\ o.step = "lock" /\ Owner \in Nodes
  BY OwnerIn DEF ListInv, LockInv, Acquire
<1>2. o.item \in Items /\ n \in Nodes /\ p \in Nodes /\ s \in Steps
  BY <1>1 DEF Calls, LockNode, Steps
<1>3. v \in Lists
  BY <1>2 DEF ListInv, DataOK
<1>4. o.kind \in {"append", "drop", "remove"}
  BY <1>1 DEF Placed
<1>5. (Finish(c, o, latest) /\ latest \in Lists \cup {Unsure})
      \/ (w \in Lists /\ lock' = [lock EXCEPT ![n] = c] /\ UNCHANGED latest /\ Set(c, x))
  <2>1. CASE o.kind # "drop" /\ (o.kind = "append") = Has(v, o.item)
    BY <2>1 DEF Acquire, ListInv
  <2>2. CASE ~(o.kind # "drop" /\ (o.kind = "append") = Has(v, o.item))
    <3>1. w \in Lists
      <4>1. CASE o.kind = "append"
        <5>1. ~Has(v, o.item)
          BY <2>2, <4>1 DEF Has
        <5> QED BY <1>2, <1>3, <4>1, <5>1, RecordsMade
      <4>2. CASE o.kind = "remove"
        <5>1. Has(v, o.item)
          BY <2>2, <4>2 DEF Has
        <5> QED BY <1>2, <1>3, <4>2, <5>1, RecordsMade
      <4>3. CASE o.kind = "drop"
        BY <4>3, NoneIsNoRecord
      <4> QED BY <1>4, <4>1, <4>2, <4>3
    <3> HIDE DEF w, s, p
    <3>2. lock' = [lock EXCEPT ![n] = c] /\ UNCHANGED latest /\ Set(c, x)
      BY <2>2 DEF Acquire, w, s, p
    <3> QED BY <3>1, <3>2
  <2> QED BY <2>1, <2>2
<1> HIDE DEF w, s, p, v, n
<1>6. Kept
  <2>1. CASE Finish(c, o, latest) /\ latest \in Lists \cup {Unsure}
    BY <1>1, <2>1, FinishKeepsLists DEF Kept
  <2>2. CASE w \in Lists /\ lock' = [lock EXCEPT ![n] = c] /\ UNCHANGED latest /\ Set(c, x)
    <3>1. x \in Calls
      BY <1>1, <1>2, <2>2 DEF Calls
    <3> HIDE DEF x
    <3> QED BY <1>2, <2>2, <3>1, SetKeepsCalls DEF Kept, ListInv
  <2> QED BY <1>5, <2>1, <2>2
<1>7. assigned' \in SUBSET Items
  BY <1>2 DEF Acquire, ListInv, Acknowledged
<1>8. DataOK' /\ unlocked' \in BOOLEAN /\ happened' \in [Troubles -> Nat] /\ UNCHANGED <<service, ring, calls>>
  BY DEF Acquire, ListInv, DataOK, data
<1> QED BY <1>6, <1>7, <1>8, ClientStepKeepsLists

LEMMA ReplicationKeepsLists ==
  ASSUME ListInv, NEW c \in Clients,
         PutLocked(c) \/ WalkChain(c) \/ Replicated(c) \/ \E ok \in BOOLEAN : CopyReplica(c, ok)
  PROVE  ListInv'
<1> DEFINE o == op[c]
<1>1. /\ o \in Calls /\ o.target \in Nodes /\ o.value \in Lists /\ o.todo \in Seq(Nodes)
      /\ o.item \in Items /\ o.missed \in Nat
  BY DEF ListInv, Calls
<1>2. CASE PutLocked(c)
  <2> DEFINE x == [o EXCEPT !.step = "chain"]
  <2>1. x \in Calls
    BY <1>1 DEF Calls, Steps
  <2>2. Go(c, x)
    BY <1>2 DEF PutLocked
  <2> HIDE DEF x
  <2>3. Kept
    BY <2>1, <2>2, GoKeepsLists DEF Kept
  <2>4. DataOK'
    BY <1>1, <1>2, WriteKeepsLists DEF PutLocked, ListInv
  <2>5. /\ unlocked' \in BOOLEAN /\ assigned' \in SUBSET Items
        /\ happened' \in [Troubles -> Nat] /\ UNCHANGED <<service, ring, calls>>
    BY <1>2 DEF PutLocked, ListInv
  <2> QED BY <2>3, <2>4, <2>5, ClientStepKeepsLists
<1>3. CASE WalkChain(c)
  <2> DEFINE all == Replicas(o)
             x(s) == [o EXCEPT !.step = "copy", !.todo = s]
             y(s) == [o EXCEPT !.step = "copy", !.todo = s, !.missed = @ + 1]
  <2>1. all \in Seq(Nodes) /\ \A i \in 0 .. Len(all) - 1 : SubSeq(all, 1, i) \in Seq(Nodes)
    BY <1>1, ReplicasAreNodes DEF ListInv
  <2>2. ASSUME NEW s \in Seq(Nodes) PROVE x(s) \in Calls /\ y(s) \in Calls
    <3> DEFINE k == o.missed + 1
    <3>1. k \in Nat
      BY <1>1
    <3> HIDE DEF k
    <3>2. x(s) \in Calls
      BY <1>1, <2>2 DEF Calls, Steps
    <3>3. [o EXCEPT !.step = "copy", !.todo = s, !.missed = k] \in Calls
      BY <1>1, <2>2, <3>1 DEF Calls, Steps
    <3> QED BY <3>2, <3>3 DEF k
  <2>3. (\E s \in Seq(Nodes) : Go(c, x(s))) \/ (\E s \in Seq(Nodes) : Go(c, y(s)))
    BY <1>3, <2>1 DEF WalkChain
  <2> HIDE DEF x, y
  <2>4. Kept
    BY <2>2, <2>3, GoKeepsLists DEF Kept
  <2>5. "fault" \in Troubles
    BY DEF Troubles
  <2>6. happened' \in [Troubles -> Nat]
    BY <1>3, <2>5, TroubleIsCounted DEF WalkChain, ListInv
  <2>7. /\ DataOK' /\ unlocked' \in BOOLEAN /\ assigned' \in SUBSET Items
        /\ UNCHANGED <<service, ring, calls>>
    BY <1>3 DEF WalkChain, ListInv, DataOK, data
  <2> QED BY <2>4, <2>6, <2>7, ClientStepKeepsLists
<1>4. CASE Replicated(c)
  <2>1. Kept
    BY <1>1, <1>4, FinishKeepsLists DEF Replicated, Kept
  <2>2. assigned' \in SUBSET Items
    BY <1>1, <1>4 DEF Replicated, Acknowledged, ListInv
  <2>3. /\ DataOK' /\ unlocked' \in BOOLEAN
        /\ happened' \in [Troubles -> Nat] /\ UNCHANGED <<service, ring, calls>>
    BY <1>4 DEF Replicated, ListInv, DataOK, data
  <2> QED BY <2>1, <2>2, <2>3, ClientStepKeepsLists
<1>5. ASSUME NEW ok \in BOOLEAN, CopyReplica(c, ok) PROVE ListInv'
  <2>1. o.todo # << >> /\ Store(Head(o.todo), o.value, ok) /\ Reach(o, Head(o.todo), ok)
    BY <1>5 DEF CopyReplica
  <2> DEFINE t == Tail(o.todo)
             k == o.tries + 1
             j == o.missed + 1
             z == IF service = "task" THEN 0 ELSE o.tries
             x1 == [o EXCEPT !.todo = t, !.tries = z]
             x2 == [o EXCEPT !.tries = k]
             x3 == [o EXCEPT !.todo = t, !.missed = j, !.tries = z]
  <2>2. Head(o.todo) \in Nodes /\ t \in Seq(Nodes)
    BY <1>1, <2>1
  <2>3. k \in Nat /\ j \in Nat /\ z \in Nat
    BY <1>1 DEF Calls
  <2>4. Go(c, x1) \/ Go(c, x2) \/ Go(c, x3)
    BY <1>5 DEF CopyReplica
  <2> HIDE DEF t, k, j, z
  <2>5. x1 \in Calls /\ x2 \in Calls
    BY <1>1, <2>2, <2>3 DEF Calls
  <2>6. x3 \in Calls
    BY <1>1, <2>2, <2>3 DEF Calls
  <2> HIDE DEF x1, x2, x3
  <2>7. Kept
    BY <2>4, <2>5, <2>6, GoKeepsLists DEF Kept
  <2>8. DataOK'
    BY <1>1, <2>1, <2>2, StoreKeepsLists DEF ListInv
  <2>9. happened' \in [Troubles -> Nat]
    BY <2>1, ReachIsCounted DEF ListInv
  <2>10. unlocked' \in BOOLEAN /\ assigned' \in SUBSET Items /\ UNCHANGED <<service, ring, calls>>
    BY <1>5 DEF CopyReplica, ListInv
  <2> QED BY <2>7, <2>8, <2>9, <2>10, ClientStepKeepsLists
<1> QED BY <1>2, <1>3, <1>4, <1>5

(***************************************************************************)
(* Steps that touch several calls                                          *)
(***************************************************************************)
LEMMA DisturbedAreCalls ==
  ASSUME op \in [Clients -> Calls], NEW c \in Clients
  PROVE  [op[c] EXCEPT !.alone = FALSE] \in Calls
<1>1. op[c] \in Calls
  OBVIOUS
<1> QED BY <1>1 DEF Calls

LEMMA NoOpIsCall == NoOp \in Calls
<1> DEFINE i == SomeItem
           l == Least(Founders)
           e == << >>
<1>1. i \in Items
  BY StoreAssumption DEF SomeItem
<1>2. l \in Nodes
  BY LeastIn, StoreAssumption
<1>3. e \in Seq(Nodes)
  OBVIOUS
<1>4. NoOp = [kind |-> "get", step |-> "idle", item |-> i, home |-> l, primary |-> l,
              target |-> l, tries |-> 0, value |-> None, todo |-> e, missed |-> 0,
              alone |-> FALSE]
  BY DEF NoOp
<1> HIDE DEF i, l, e
<1> QED BY <1>1, <1>2, <1>3, <1>4, NoneIsNoRecord DEF Calls, Steps, Kinds

LEMMA StartKeepsLists ==
  ASSUME ListInv, NEW c \in Clients, NEW kind \in Kinds, NEW h \in Homes, NEW x \in Items,
         Start(c, kind, h, x)
  PROVE  ListInv'
<1> DEFINE v == IF kind = "put" THEN [version |-> 1, deleted |-> FALSE, items |-> <<x>>] ELSE None
           e == << >>
           f == FirstStep(kind, h)
           q == Quiet
           o == [kind |-> kind, step |-> f, item |-> x, home |-> h,
                 primary |-> Owner, target |-> Owner, tries |-> 0, value |-> v,
                 todo |-> e, missed |-> 0, alone |-> q]
<1>1. op' = [d \in Clients |-> IF d = c THEN o ELSE [op[d] EXCEPT !.alone = FALSE]]
  BY DEF Start
<1>2. /\ v \in Lists /\ e \in Seq(Nodes) /\ h \in Nodes /\ Owner \in Nodes
      /\ f \in Steps /\ q \in BOOLEAN
  <2>1. v \in Lists
    BY RecordsMade, NoneIsNoRecord
  <2>2. f \in Steps
    BY DEF FirstStep, Steps
  <2>3. h \in Nodes /\ Owner \in Nodes
    BY OwnerIn, StoreAssumption DEF ListInv
  <2>4. q \in BOOLEAN
    BY DEF Quiet
  <2> QED BY <2>1, <2>2, <2>3, <2>4
<1> HIDE DEF v, e, f, q
<1>3. o \in Calls
  BY <1>2 DEF Calls
<1> HIDE DEF o
<1>4. op' \in [Clients -> Calls]
  BY <1>1, <1>3, DisturbedAreCalls DEF ListInv
<1>5. calls' \in 0 .. MaxCalls
  BY StoreAssumption DEF Start, ListInv
<1>6. assigned' \in SUBSET Items
  BY DEF Start, ListInv
<1>7. /\ DataOK' /\ RingOK' /\ UNCHANGED <<service, lock, latest, unlocked, happened>>
  BY DEF Start, ListInv, DataOK, RingOK, data, ring
<1> QED BY <1>4, <1>5, <1>6, <1>7 DEF ListInv

LEMMA RingChangeKeepsLists ==
  ASSUME ListInv, NEW n \in Nodes, Forget(n) \/ Join(n) \/ \E ok \in BOOLEAN : Leave(n, ok)
  PROVE  ListInv'
<1>1. op' \in [Clients -> Calls]
  <2>1. op' = Disturbed
    BY DEF Forget, Join, Leave
  <2> QED BY <2>1, DisturbedAreCalls DEF Disturbed, ListInv
<1>2. {"join", "leave"} \subseteq Troubles
  BY DEF Troubles
<1>3. NextMember(n) \in Nodes
  BY NextMemberIn DEF ListInv, RingOK
<1>4. CASE Forget(n)
  <2>1. RingOK' /\ DataOK'
    BY <1>4 DEF Forget, ListInv, RingOK, DataOK, data
  <2> QED BY <1>1, <1>4, <2>1 DEF Forget, ListInv, history
<1>5. CASE Join(n)
  <2>1. RingOK' /\ DataOK'
    BY <1>5 DEF Join, ListInv, RingOK, DataOK
  <2>2. happened' \in [Troubles -> Nat]
    BY <1>2, <1>5, TroubleIsCounted DEF Join, ListInv
  <2> QED BY <1>1, <1>5, <2>1, <2>2 DEF Join, ListInv, history
<1>6. ASSUME NEW ok \in BOOLEAN, Leave(n, ok) PROVE ListInv'
  <2>1. RingOK'
    BY <1>6 DEF Leave, ListInv, RingOK
  <2>2. DataOK'
    <3> DEFINE handed(s) == IF ok /\ store[n] # None THEN [s EXCEPT ![NextMember(n)] = store[n]] ELSE s
    <3>1. store' = handed(store) /\ disk' = handed(disk)
      BY <1>6 DEF Leave
    <3> QED BY <1>3, <3>1 DEF ListInv, DataOK
  <2>3. happened' \in [Troubles -> Nat]
    BY <1>2, <1>6, TroubleIsCounted DEF Leave, ListInv
  <2>4. latest' \in Lists \cup {Unsure}
    BY <1>6 DEF Leave, ListInv
  <2> QED BY <1>1, <1>6, <2>1, <2>2, <2>3, <2>4 DEF Leave, ListInv
<1> QED BY <1>4, <1>5, <1>6

LEMMA HaltKeepsLists ==
  ASSUME ListInv, NEW n \in Nodes, Halt(n), UNCHANGED members,
         happened' \in [Troubles -> Nat]
  PROVE  ListInv'
<1>1. op' \in [Clients -> Calls]
  <2>1. \A c \in Clients : /\ [op[c] EXCEPT !.alone = FALSE] \in Calls
                           /\ [AppendAgain(op[c]) EXCEPT !.alone = FALSE] \in Calls
    BY DisturbedAreCalls, AppendAgainIsCall DEF ListInv
  <2> QED BY <2>1, NoOpIsCall DEF Halt
<1>2. DataOK' /\ RingOK'
  BY NoneIsNoRecord DEF Halt, ListInv, DataOK, RingOK
<1>3. lock' \in [Nodes -> Clients \cup {None}]
  BY DEF Halt, ListInv
<1>4. latest' \in Lists \cup {Unsure}
  BY DEF Halt, ListInv
<1> QED BY <1>1, <1>2, <1>3, <1>4 DEF Halt, ListInv

LEMMA ListsAtFirst == Init => ListInv
<1> SUFFICES ASSUME Init PROVE ListInv
  OBVIOUS
<1>1. op \in [Clients -> Calls]
  BY NoOpIsCall DEF Init
<1>2. DataOK /\ RingOK
  BY NoneIsNoRecord, StoreAssumption DEF Init, DataOK, RingOK
<1>3. lock \in [Nodes -> Clients \cup {None}] /\ happened \in [Troubles -> Nat]
  BY DEF Init
<1>4. calls \in 0 .. MaxCalls
  BY StoreAssumption DEF Init
<1>5. latest \in Lists \cup {Unsure} /\ assigned \in SUBSET Items /\ unlocked \in BOOLEAN
      /\ service \in Services
  BY NoneIsNoRecord DEF Init
<1> QED BY <1>1, <1>2, <1>3, <1>4, <1>5 DEF ListInv

LEMMA StepKeepsLists == LockInv /\ ListInv /\ [Next]_vars => ListInv'
<1> SUFFICES ASSUME LockInv, ListInv, [Next]_vars PROVE ListInv'
  OBVIOUS
<1>1. ASSUME NEW c \in Clients, Work(c) PROVE ListInv'
  BY <1>1, ReadPrimaryKeepsLists, ReadReplicaKeepsLists, NoReplicaKeepsLists,
     PutPrimaryKeepsLists, DeletePrimaryKeepsLists, AppendFailsKeepsLists, AcquireKeepsLists,
     ReplicationKeepsLists
     DEF Work
<1>2. ASSUME NEW c \in Clients, NEW kind \in Kinds, NEW h \in Homes, NEW x \in Items,
             Start(c, kind, h, x)
      PROVE  ListInv'
  BY <1>2, StartKeepsLists
<1>3. ASSUME NEW n \in Nodes, Crash(n) \/ Exit(n) PROVE ListInv'
  <2>1. "crash" \in Troubles
    BY DEF Troubles
  <2>2. happened' \in [Troubles -> Nat] /\ Halt(n) /\ UNCHANGED members
    BY <1>3, <2>1, TroubleIsCounted DEF Crash, Exit, ListInv
  <2> QED BY <2>2, HaltKeepsLists
<1>4. ASSUME NEW n \in Nodes, Forget(n) \/ Join(n) \/ \E ok \in BOOLEAN : Leave(n, ok) PROVE ListInv'
  BY <1>4, RingChangeKeepsLists
<1>5. CASE UNCHANGED vars
  BY <1>5 DEF vars, ring, data, history, ListInv, DataOK, RingOK
<1> QED BY <1>1, <1>2, <1>3, <1>4, <1>5 DEF Next

(* For every ring, chain length, number of clients, retries and troubles:  *)
(* the state stays well formed; in particular the walk along the successor *)
(* pointers is a chain of nodes, and no retry counter or record leaves its *)
(* type.                                                                   *)
THEOREM StoreTypeCorrect == Spec => []TypeOK
<1>1. LockInv /\ ListInv => TypeOK
  BY ListsAreTyped
<1> QED BY <1>1, LocksAtFirst, StepKeepsLocks, ListsAtFirst, StepKeepsLists, PTL DEF Spec

(* For every ring and every schedule of lost answers, crashes, handoffs    *)
(* and restarts from a snapshot: no list of a worker names a task twice,   *)
(* although an append is made again whenever its caller saw it fail.       *)
THEOREM ListsStayDistinct == Spec => []NoTaskTwice
<1>1. LockInv /\ ListInv => NoTaskTwice
  BY ListsNameNoTaskTwice
<1> QED BY <1>1, LocksAtFirst, StepKeepsLocks, ListsAtFirst, StepKeepsLists, PTL DEF Spec

(***************************************************************************)
(* The lists of HT2 and their replicas                                     *)
(***************************************************************************)
(* What the two properties assume: lists written under their lock only, no *)
(* call failed, and nothing happened to the ring but one crash.            *)
Orderly ==
  /\ service = "worker" /\ ~unlocked /\ happened["fault"] = 0
  /\ happened["join"] = 0 /\ happened["leave"] = 0
  /\ happened["crash"] <= 1 /\ (K = 1 => happened["crash"] = 0)
Unharmed == happened["crash"] = 0

(* A call that changes a list under its lock, and when it has written.     *)
Writer(o) == o.kind \in {"append", "remove"} /\ o.step \in {"locked", "chain", "copy"}
Written(o) == Writer(o) /\ o.step # "locked"
Holds(n) == \A x \in assigned : Has(store[n], x)

(* At most one member is down, and only after a crash.                     *)
OneDown ==
  /\ up \subseteq members /\ (Unharmed => members \subseteq up /\ members = Founders)
  /\ \A m, n \in members \ up : m = n
(* Calls are aimed at the owner, or at a node that is gone.                *)
Aimed(o) ==
  /\ o.kind \in KindsOf("worker") /\ (o.kind = "drop" => o.step \notin {"chain", "copy"})
  /\ o.kind = "get" => o.step \in {"idle", "read", "replicas", "done"}
  /\ o.target = Owner \/ (~Unharmed /\ o.target \notin up)
  /\ o.primary = Owner \/ (~Unharmed /\ o.primary \notin up)
(* What a writer has in hand: a list with every assigned task and the one  *)
(* it appends, once written also at the owner.                             *)
InHand(o) ==
  Writer(o) =>
    /\ o.target \in up /\ \A x \in assigned : Has(o.value, x)
    /\ o.kind = "append" => Has(o.value, o.item)
    /\ Written(o) => store[Owner] = o.value
    /\ o.step = "copy" => Owner \notin Names(o.todo)
(* What is being removed is not assigned.                                  *)
Removed(o) ==
  o.step \notin {"idle", "done"} =>
    /\ o.kind = "remove" => o.item \notin assigned
    /\ o.kind = "drop" => assigned = {}
(* The node that owns the list, or will own it next, has every task.       *)
Heirs ==
  /\ Owner \in up => Holds(Owner)
  /\ K >= 2 /\ NextMember(Owner) \in up /\ (Unharmed \/ Owner \notin up)
       => Holds(NextMember(Owner))
(* Before any crash the replicas follow the owner.                         *)
Follow ==
  Unharmed =>
    /\ (\A c \in Clients : ~Written(op[c]))
         => \A n \in Names(Chain(Owner)) : store[n] = store[Owner]
    /\ \A c \in Clients : Written(op[c]) /\ op[c].step = "copy"
         => \A n \in Names(Chain(Owner)) \ Names(op[c].todo) : store[n] = op[c].value

Kernel ==
  /\ OneDown /\ Heirs /\ Follow
  /\ \A c \in Clients : Aimed(op[c]) /\ InHand(op[c]) /\ Removed(op[c])
ListsInv == Orderly => Kernel

LEMMA RingStays ==
  ASSUME UNCHANGED <<up, members>>
  PROVE  /\ Owner' = Owner /\ NextMember(Owner)' = NextMember(Owner)
         /\ Chain(Owner)' = Chain(Owner)
<1>1. Owner' = Owner /\ NextMember(Owner)' = NextMember(Owner)
  BY DEF NextMember, Owner, Least
<1>2. Chain(Owner)' = Chain(Owner)
  BY DEF Chain, Extended, NextMember, Owner, Least
<1> QED BY <1>1, <1>2

(* A step of one call that is not under a lock and writes nothing.         *)
LEMMA CallStepKeepsKernel ==
  ASSUME Kernel, op = [d \in Clients |-> op[d]], NEW c \in Clients, NEW w, Set(c, w),
         UNCHANGED <<store, assigned, up, members>>, UNCHANGED happened["crash"],
         w.kind = op[c].kind, w.item = op[c].item,
         w.target \in {op[c].target, Owner}, w.primary \in {op[c].primary, Owner},
         ~Writer(w), ~Writer(op[c]),
         w.kind = "get" => w.step \in {"read", "replicas", "done"},
         w.kind = "drop" => w.step \notin {"chain", "copy"},
         w.step = "done" \/ op[c].step \notin {"idle", "done"}
  PROVE  Kernel'
<1>1. /\ Owner' = Owner /\ NextMember(Owner)' = NextMember(Owner)
      /\ Chain(Owner)' = Chain(Owner) /\ (Unharmed' <=> Unharmed)
      /\ \A d \in Clients : op'[d] = IF d = c THEN w ELSE op[d]
  BY RingStays DEF Unharmed, Set
<1>2. OneDown'
  BY <1>1 DEF Kernel, OneDown
<1>3. Heirs'
  BY <1>1 DEF Kernel, Heirs, Holds
<1>4. Follow'
  <2>1. \A d \in Clients : Written(op'[d]) <=> Written(op[d])
    BY <1>1 DEF Written
  <2>2. \A d \in Clients : Written(op[d]) => op'[d] = op[d]
    BY <1>1 DEF Written
  <2> QED BY <1>1, <2>1, <2>2 DEF Kernel, Follow
<1>5. ASSUME NEW d \in Clients PROVE Aimed(op[d])'
  BY <1>1 DEF Kernel, Aimed
<1>6. ASSUME NEW d \in Clients PROVE InHand(op[d])'
  <2>1. CASE d = c
    BY <1>1, <2>1 DEF InHand
  <2>2. CASE d # c
    BY <1>1, <2>2 DEF Kernel, InHand
  <2> QED BY <2>1, <2>2
<1>7. ASSUME NEW d \in Clients PROVE Removed(op[d])'
  BY <1>1 DEF Kernel, Removed
<1> QED BY <1>2, <1>3, <1>4, <1>5, <1>6, <1>7 DEF Kernel

(* The invariants of the locks, of the types and of the lists together.     *)
Known == LockInv /\ ListInv /\ Kernel /\ Orderly

LEMMA NoFault ==
  ASSUME ListInv, Orderly, Orderly'
  PROVE  ~Trouble("fault") /\ ~Trouble("join") /\ ~Trouble("leave")
<1> {"fault", "join", "leave"} \subseteq Troubles
  BY DEF Troubles
<1> QED BY DEF ListInv, Orderly, Trouble

LEMMA ReachIsTrue ==
  ASSUME ListInv, Orderly, Orderly', NEW o, NEW n, NEW ok \in BOOLEAN, Reach(o, n, ok)
  PROVE  UNCHANGED happened /\ (ok <=> n \in up)
  BY NoFault DEF Reach

(* A read leads to the end of the call, or a remote remove to its write.   *)
LEMMA AfterReadGoesOn ==
  ASSUME NEW c \in Clients, NEW o, NEW v, IsCall(o), o.kind \in {"get", "remove"}, AfterRead(c, o, v)
  PROVE  \E w : /\ Set(c, w) /\ w.kind = o.kind /\ w.item = o.item
                /\ w.target = o.target /\ w.primary = o.primary
                /\ w.step = "done" \/ (w.step = "put" /\ o.kind = "remove")
<1>1. CASE Writes(o, v) = {}
  <2> DEFINE x == [o EXCEPT !.value = v]
             y == [x EXCEPT !.step = "done", !.todo = << >>]
  <2>1. Set(c, y)
    BY <1>1 DEF AfterRead, Finish
  <2>2. /\ IsCall(x) /\ x.kind = o.kind /\ x.item = o.item
        /\ x.target = o.target /\ x.primary = o.primary
    BY DEF IsCall, Fields
  <2> HIDE DEF x
  <2>3. /\ y.kind = o.kind /\ y.item = o.item /\ y.step = "done"
        /\ y.target = o.target /\ y.primary = o.primary
    BY <2>2 DEF IsCall, Fields
  <2> HIDE DEF y
  <2> QED BY <2>1, <2>3
<1>2. ASSUME NEW w \in Writes(o, v), Go(c, w)
      PROVE  /\ Set(c, w) /\ w.kind = o.kind /\ w.item = o.item
             /\ w.target = o.target /\ w.primary = o.primary
             /\ w.step = "put" /\ o.kind = "remove"
  <2>1. o.kind = "remove" /\ w = [o EXCEPT !.step = "put", !.value = Without(v, o.item)]
    BY <1>2 DEF Writes
  <2> QED BY <1>2, <2>1 DEF Go, IsCall, Fields
<1> QED BY <1>1, <1>2 DEF AfterRead

LEMMA ReadsKeepKernel ==
  ASSUME Known, Orderly', NEW c \in Clients,
         NoReplica(c) \/ \E ok \in BOOLEAN : ReadPrimary(c, ok) \/ ReadReplica(c, ok)
  PROVE  Kernel'
<1> DEFINE o == op[c]
<1>1. /\ IsCall(o) /\ Placed(o) /\ o.step \in {"read", "replicas"} /\ o.kind \in KindsOf("worker")
      /\ UNCHANGED <<store, assigned, up, members>> /\ op = [d \in Clients |-> op[d]]
      /\ service = "worker"
  BY DEF Known, LockInv, Kernel, Aimed, Orderly, ReadPrimary, ReadReplica, NoReplica, data, ring
<1>2. o.kind \in {"get", "remove"} /\ (o.step = "replicas" => o.kind = "get")
  BY <1>1 DEF Placed, KindsOf
<1>3. UNCHANGED happened
  BY ReachIsTrue DEF Known, ReadPrimary, ReadReplica, NoReplica
<1> DEFINE goal ==
          \E w :
             /\ Set(c, w) /\ w.kind = o.kind /\ w.item = o.item
             /\ w.target = o.target /\ w.primary = o.primary
             /\ \/ w.step = "done"
                \/ w.step = "put" /\ o.kind = "remove"
                \/ w.step = "replicas" /\ o.kind = "get"
<1>4. goal
  <2>1. ASSUME NEW ok \in BOOLEAN, ReadPrimary(c, ok)
        PROVE  goal
    <3> DEFINE v == IF ok THEN store[o.target] ELSE None
               heard == [o EXCEPT !.alone = @ /\ ok]
               r == Replicas(o)
               ask == [heard EXCEPT !.step = "replicas", !.todo = r]
    <3>1. (Go(c, ask) /\ o.kind = "get") \/ AfterRead(c, heard, v)
      BY <1>1, <1>2, <2>1 DEF ReadPrimary
    <3>2. /\ IsCall(heard) /\ heard.kind = o.kind /\ heard.item = o.item
          /\ heard.target = o.target /\ heard.primary = o.primary
      BY <1>1 DEF IsCall, Fields
    <3> HIDE DEF v, heard, r
    <3>3. /\ ask.kind = o.kind /\ ask.item = o.item /\ ask.step = "replicas"
          /\ ask.target = o.target /\ ask.primary = o.primary
      BY <3>2 DEF IsCall, Fields
    <3> HIDE DEF ask
    <3>4. CASE Go(c, ask) /\ o.kind = "get"
      BY <3>3, <3>4 DEF Go
    <3>5. CASE AfterRead(c, heard, v)
      BY <1>2, <3>2, <3>5, AfterReadGoesOn
    <3> QED BY <3>1, <3>4, <3>5
  <2>2. ASSUME NEW ok \in BOOLEAN, ReadReplica(c, ok)
        PROVE  goal
    <3> DEFINE v == IF ok THEN store[Head(o.todo)] ELSE None
               t == Tail(o.todo)
               rest == [o EXCEPT !.todo = t, !.alone = @ /\ ok]
    <3>1. (Go(c, rest) \/ AfterRead(c, rest, v)) /\ o.step = "replicas"
      BY <2>2 DEF ReadReplica
    <3> HIDE DEF v, t
    <3>2. /\ IsCall(rest) /\ rest.kind = o.kind /\ rest.item = o.item /\ rest.step = o.step
          /\ rest.target = o.target /\ rest.primary = o.primary
      BY <1>1 DEF IsCall, Fields
    <3> HIDE DEF rest
    <3>3. CASE Go(c, rest)
      BY <1>2, <3>1, <3>2, <3>3 DEF Go
    <3>4. CASE AfterRead(c, rest, v)
      BY <1>2, <3>2, <3>4, AfterReadGoesOn
    <3> QED BY <3>1, <3>3, <3>4
  <2>3. CASE NoReplica(c)
    BY <1>1, <1>2, <2>3, AfterReadGoesOn DEF NoReplica
  <2> QED BY <2>1, <2>2, <2>3
<1>5. PICK w : /\ Set(c, w) /\ w.kind = o.kind /\ w.item = o.item
               /\ w.target = o.target /\ w.primary = o.primary
               /\ \/ w.step = "done"
                  \/ w.step = "put" /\ o.kind = "remove"
                  \/ w.step = "replicas" /\ o.kind = "get"
  BY <1>4
<1>6. ~Writer(w) /\ ~Writer(o)
  BY <1>1, <1>5 DEF Writer
<1>7. Kernel /\ UNCHANGED happened["crash"]
  BY <1>3 DEF Known
<1> QED BY <1>1, <1>2, <1>5, <1>6, <1>7, CallStepKeepsKernel

(* A write without the lock is not orderly, so these do not happen.        *)
LEMMA UnlockedWritesAreNotOrderly ==
  ASSUME Known, Orderly', NEW c \in Clients, NEW ok \in BOOLEAN,
         PutPrimary(c, ok) \/ DeletePrimary(c, ok)
  PROVE  FALSE
<1>1. CASE PutPrimary(c, ok)
  <2>1. op[c].step = "put" /\ op[c].kind # "remove"
    BY <1>1 DEF PutPrimary, Orderly
  <2>2. op[c].kind \in KindsOf("worker") /\ (op[c].kind = "get" => op[c].step # "put") /\ Placed(op[c])
    BY DEF Known, Kernel, Aimed, LockInv
  <2> QED BY <2>1, <2>2 DEF KindsOf, Placed
<1>2. CASE DeletePrimary(c, ok)
  BY <1>2 DEF DeletePrimary, Known, Orderly
<1> QED BY <1>1, <1>2

LEMMA AppendFailsKeepsKernel ==
  ASSUME Known, Orderly', NEW c \in Clients, AppendFails(c) \/ AnswerLost(c)
  PROVE  Kernel'
<1> DEFINE o == op[c]
           x == [AppendAgain(o) EXCEPT !.alone = FALSE]
<1>1. AppendFails(c)
  BY NoFault DEF AnswerLost, Known
<1>2. /\ IsCall(o) /\ o.kind = "append" /\ o.step = "lock" /\ Set(c, x)
      /\ UNCHANGED <<store, assigned, up, members>> /\ op = [d \in Clients |-> op[d]]
  BY <1>1 DEF Known, LockInv, AppendFails, data, ring
<1>3. UNCHANGED happened["crash"] /\ Kernel
  BY <1>1, ReachIsTrue DEF AppendFails, Known
<1>4. x.kind = o.kind /\ x.item = o.item /\ x.primary = o.primary
      /\ x.target \in {o.target, Owner} /\ x.step \in {"lock", "done"}
  <2> DEFINE over == [o EXCEPT !.step = "done", !.todo = << >>]
             again == [o EXCEPT !.step = "lock", !.tries = @ + 1, !.target = Owner, !.todo = << >>]
  <2>1. /\ IsCall(over) /\ over.step = "done" /\ over.kind = o.kind /\ over.item = o.item
        /\ over.primary = o.primary /\ over.target = o.target
    BY <1>2 DEF IsCall, Fields
  <2>2. /\ IsCall(again) /\ again.step = "lock" /\ again.kind = o.kind /\ again.item = o.item
        /\ again.primary = o.primary /\ again.target = Owner
    BY <1>2 DEF IsCall, Fields
  <2>3. AppendAgain(o) \in {over, again}
    BY DEF AppendAgain
  <2> HIDE DEF over, again
  <2> QED BY <2>1, <2>2, <2>3 DEF IsCall, Fields
<1> HIDE DEF x
<1>5. ~Writer(x) /\ ~Writer(o)
  BY <1>2, <1>4 DEF Writer
<1> QED BY <1>2, <1>3, <1>4, <1>5, CallStepKeepsKernel

(* What the lists of a call in hand contain.                               *)
LEMMA HasAfter ==
  ASSUME NEW v \in Lists, NEW x \in Items, NEW y \in Items
  PROVE  /\ Has(Appended(v, x), x) /\ (Has(v, y) => Has(Appended(v, x), y))
         /\ Has(v, x) /\ Has(v, y) /\ y # x => Has(Without(v, x), y)
<1>1. ASSUME NEW r \in Record, NEW z PROVE Has(r, z) <=> z \in Names(r.items)
  <2>1. r # None
    BY RecordAssumption
  <2> QED BY <2>1 DEF Has, Names
<1>2. ASSUME v # None PROVE v \in Record /\ v.items \in Seq(Items)
  BY <1>2 DEF Lists, Record
<1>3. Has(Appended(v, x), x) /\ (Has(v, y) => Has(Appended(v, x), y))
  <2>1. CASE v = None
    <3> DEFINE one == <<x>>
               r == [version |-> 1, deleted |-> FALSE, items |-> one]
    <3>1. Appended(v, x) = r
      BY <2>1 DEF Appended
    <3>2. one \in Seq(Items) /\ Names(one) = {x}
      BY OneItem
    <3> HIDE DEF one
    <3>3. r \in Record /\ r.items = one
      BY <3>2 DEF Record
    <3>4. ~Has(v, y)
      BY <2>1 DEF Has
    <3> QED BY <1>1, <3>1, <3>2, <3>3, <3>4
  <2>2. CASE v # None
    <3> DEFINE t == Append(v.items, x)
               r == [v EXCEPT !.version = @ + 1, !.items = t]
    <3>1. t \in Seq(Items) /\ Names(t) = Names(v.items) \cup {x}
      BY <1>2, <2>2, AppendNames
    <3>2. Appended(v, x) = r
      BY <1>2, <2>2 DEF Appended, Record
    <3> HIDE DEF t
    <3>3. r \in Record /\ r.items = t
      <4> DEFINE k == v.version + 1
      <4>1. k \in Nat
        BY <1>2, <2>2 DEF Record
      <4> HIDE DEF k
      <4>2. [v EXCEPT !.version = k, !.items = t] \in Record
            /\ [v EXCEPT !.version = k, !.items = t].items = t
        BY <1>2, <2>2, <3>1, <4>1 DEF Record
      <4> QED BY <4>2 DEF k
    <3> HIDE DEF r
    <3> QED BY <1>1, <1>2, <2>2, <3>1, <3>2, <3>3
  <2> QED BY <2>1, <2>2
<1>4. ASSUME Has(v, x), Has(v, y), y # x PROVE Has(Without(v, x), y)
  <2>1. v \in Record /\ v.items \in Seq(Items)
    BY <1>2, <1>4 DEF Has
  <2> DEFINE t == Filtered(v.items, x)
             r == [v EXCEPT !.version = @ + 1, !.items = t]
  <2>2. t \in Seq(Items) /\ Names(t) = Names(v.items) \ {x}
    BY <2>1, FilteredNames
  <2>3. Without(v, x) = r
    BY <2>1 DEF Without, Record
  <2> HIDE DEF t
  <2>4. r \in Record /\ r.items = t
    <3> DEFINE k == v.version + 1
    <3>1. k \in Nat
      BY <2>1 DEF Record
    <3> HIDE DEF k
    <3>2. [v EXCEPT !.version = k, !.items = t] \in Record
          /\ [v EXCEPT !.version = k, !.items = t].items = t
      BY <2>1, <2>2, <3>1 DEF Record
    <3> QED BY <3>2 DEF k
  <2> HIDE DEF r
  <2> QED BY <1>1, <1>4, <2>1, <2>2, <2>3, <2>4
<1> QED BY <1>3, <1>4

(* A writer works at the owner under the owner's lock, and there is one.   *)
LEMMA OneWriter ==
  ASSUME Known, NEW c \in Clients, Writer(op[c])
  PROVE  /\ op[c].target = Owner /\ Owner \in up /\ lock[Owner] = c
         /\ \A d \in Clients : Writer(op[d]) => d = c
<1>1. ASSUME NEW d \in Clients, Writer(op[d])
      PROVE  op[d].target = Owner /\ Owner \in up /\ lock[Owner] = d
  <2>1. op[d].target \in up /\ op[d].target = Owner
    BY <1>1 DEF Known, Kernel, InHand, Aimed
  <2>2. Critical(op[d]) /\ LockNode(op[d]) = Owner
    BY <1>1, <2>1 DEF Writer, Critical, LockNode
  <2> QED BY <2>1, <2>2 DEF Known, LockInv, LockDiscipline
<1> QED BY <1>1

(* The next member is the first replica.                                   *)
LEMMA NextIsReplica ==
  ASSUME RingOK, K >= 2, Owner \in up
  PROVE  NextMember(Owner) \in Names(Chain(Owner)) /\ Owner \in Names(Chain(Owner))
<1>1. /\ Chain(Owner) \in Walks(Owner)
      /\ NextMember(Owner) # Owner => Len(Chain(Owner)) >= 2 /\ Chain(Owner)[2] = NextMember(Owner)
  <2>1. Owner \in Nodes
    BY OwnerIn
  <2> QED BY <2>1, ChainFacts DEF RingOK
<1>2. Len(Chain(Owner)) \in Nat /\ Len(Chain(Owner)) >= 1 /\ Chain(Owner)[1] = Owner
  BY <1>1 DEF Walks
<1> QED BY <1>1, <1>2 DEF Names

(* A call ends, and its task may be assigned: the owner and its replicas   *)
(* have it.                                                                *)
LEMMA EndKeepsKernel ==
  ASSUME Known, NEW c \in Clients, NEW w, Set(c, w),
         UNCHANGED <<store, up, members>>, UNCHANGED happened,
         w.kind = op[c].kind, w.step = "done",
         w.target = op[c].target, w.primary = op[c].primary,
         Owner \in up, \A d \in Clients : Writer(op[d]) => d = c,
         Unharmed => \A n \in Names(Chain(Owner)) : store[n] = store[Owner],
         \/ UNCHANGED assigned
         \/ Has(store[Owner], op[c].item) /\ assigned' = Acknowledged(op[c])
  PROVE  Kernel'
<1>1. /\ Owner' = Owner /\ NextMember(Owner)' = NextMember(Owner)
      /\ Chain(Owner)' = Chain(Owner) /\ (Unharmed' <=> Unharmed)
  BY RingStays DEF Unharmed
<1>2. \A d \in Clients : op'[d] = IF d = c THEN w ELSE op[d]
  BY DEF Set, Known, LockInv
<1>3. Kernel /\ RingOK
  BY DEF Known, ListInv
<1>4. OneDown'
  BY <1>1, <1>3 DEF Kernel, OneDown
<1>5. assigned \subseteq assigned' /\ \A x \in assigned' : x \in assigned \/ Has(store[Owner], x)
  BY DEF Acknowledged
<1>6. Heirs'
  <2>1. Holds(Owner)
    BY <1>3 DEF Kernel, Heirs
  <2>2. \A x \in assigned' : Has(store[Owner], x)
    BY <1>5, <2>1 DEF Holds
  <2>3. K >= 2 /\ Unharmed => store[NextMember(Owner)] = store[Owner]
    BY <1>3, NextIsReplica
  <2> QED BY <1>1, <2>2, <2>3 DEF Heirs, Holds
<1>7. \A d \in Clients : ~Writer(op'[d])
  BY <1>2 DEF Writer
<1>8. Follow'
  BY <1>1, <1>7 DEF Follow, Written
<1>9. ASSUME NEW d \in Clients PROVE Aimed(op[d])'
  BY <1>1, <1>2, <1>3 DEF Kernel, Aimed
<1>10. ASSUME NEW d \in Clients PROVE Removed(op[d])'
  <2>1. CASE d = c
    BY <1>2, <2>1 DEF Removed
  <2>2. CASE d # c
    <3>1. op'[d] = op[d] /\ Removed(op[d])
      BY <1>2, <1>3, <2>2 DEF Kernel
    <3>2. CASE UNCHANGED assigned
      BY <3>1, <3>2 DEF Removed
    <3>3. CASE assigned' = Acknowledged(op[c]) /\ ~UNCHANGED assigned
      <4>1. Removing(op[c].item) = {} /\ assigned' = assigned \cup {op[c].item}
        BY <3>3 DEF Acknowledged
      <4>2. ASSUME op[d].step \notin {"idle", "done"}
            PROVE  op[d].kind # "drop" /\ (op[d].kind = "remove" => op[d].item # op[c].item)
        BY <4>1, <4>2 DEF Removing
      <4> QED BY <3>1, <4>1, <4>2 DEF Removed
    <3> QED BY <3>2, <3>3
  <2> QED BY <2>1, <2>2
<1>11. \A d \in Clients : InHand(op[d])'
  BY <1>7 DEF InHand
<1> QED BY <1>4, <1>6, <1>8, <1>9, <1>10, <1>11 DEF Kernel

LEMMA FinishedCall ==
  ASSUME NEW c \in Clients, NEW o, NEW l, IsCall(o), Finish(c, o, l)
  PROVE  \E w : /\ Set(c, w) /\ w.kind = o.kind /\ w.item = o.item /\ w.step = "done"
                /\ w.target = o.target /\ w.primary = o.primary
<1> DEFINE w == [o EXCEPT !.step = "done", !.todo = << >>]
<1>1. Set(c, w)
  BY DEF Finish
<1>2. /\ w.kind = o.kind /\ w.item = o.item /\ w.step = "done"
      /\ w.target = o.target /\ w.primary = o.primary
  BY DEF IsCall, Fields
<1> HIDE DEF w
<1> QED BY <1>1, <1>2

LEMMA AcquireKeepsKernel ==
  ASSUME Known, Orderly', NEW c \in Clients, Acquire(c)
  PROVE  Kernel'
<1> DEFINE o == op[c]
           n == LockNode(o)
           v == store[n]
           p == IF o.target = o.home THEN o.primary ELSE Owner
           r == CASE o.kind = "append" -> Appended(v, o.item)
                  [] o.kind = "remove" -> Without(v, o.item)
                  [] OTHER -> None
           s == IF o.kind = "drop" THEN "del" ELSE "locked"
           x == [o EXCEPT !.step = s, !.primary = p, !.value = r]
<1>1. /\ IsCall(o) /\ Placed(o) /\ Aimed(o) /\ Removed(o) /\ o.step = "lock" /\ n \in up
      /\ lock[n] = None /\ UNCHANGED <<store, up, members, happened>> /\ o.item \in Items
      /\ op = [d \in Clients |-> op[d]] /\ Kernel
  <2>1. o \in Calls
    BY DEF Known, ListInv
  <2> QED BY <2>1 DEF Known, LockInv, Kernel, Acquire, data, ring, Calls
<1>2. o.kind \in {"append", "drop", "remove"} /\ ~Writer(o)
  BY <1>1 DEF Placed, Writer
<1>3. o.kind # "drop" => /\ n = Owner /\ Owner \in up
                         /\ \A d \in Clients : ~Writer(op[d])
  <2> SUFFICES ASSUME o.kind # "drop"
               PROVE  n = Owner /\ Owner \in up /\ \A d \in Clients : ~Writer(op[d])
    OBVIOUS
  <2>1. n = Owner /\ Owner \in up
    BY <1>1 DEF LockNode, Aimed
  <2>2. None \notin Clients
    BY StoreAssumption
  <2> QED BY <1>1, <2>1, <2>2, OneWriter
<1>4. CASE o.kind # "drop" /\ (o.kind = "append") = Has(v, o.item)
  <2>1. Finish(c, o, latest)
    BY <1>4 DEF Acquire
  <2>2. PICK w : /\ Set(c, w) /\ w.kind = o.kind /\ w.item = o.item /\ w.step = "done"
                 /\ w.target = o.target /\ w.primary = o.primary
    BY <1>1, <2>1, FinishedCall
  <2>3. \A d \in Clients : ~Written(op[d])
    BY <1>3, <1>4 DEF Written
  <2>4. Unharmed => \A m \in Names(Chain(Owner)) : store[m] = store[Owner]
    BY <1>1, <2>3 DEF Kernel, Follow
  <2>5. \/ UNCHANGED assigned
        \/ Has(store[Owner], o.item) /\ assigned' = Acknowledged(o)
    BY <1>3, <1>4 DEF Acquire
  <2> QED BY <1>1, <1>3, <1>4, <2>2, <2>4, <2>5, EndKeepsKernel
<1>5. CASE ~(o.kind # "drop" /\ (o.kind = "append") = Has(v, o.item))
  <2>1. Set(c, x) /\ UNCHANGED assigned
    <3>1. ~(o.kind = "append" /\ Has(v, o.item))
      BY <1>5 DEF Has
    <3> QED BY <1>5, <3>1 DEF Acquire
  <2>2. /\ x.kind = o.kind /\ x.item = o.item /\ x.target = o.target /\ x.primary = p
        /\ x.step = s /\ x.value = r
    <3> HIDE DEF p, r, s
    <3> QED BY <1>1 DEF IsCall, Fields
  <2>3. x.primary \in {o.primary, Owner}
    BY <2>2
  <2> HIDE DEF x, p
  <2>4. CASE o.kind = "drop"
    <3>1. x.step = "del" /\ ~Writer(x)
      BY <2>2, <2>4 DEF Writer
    <3> HIDE DEF s, r
    <3> QED BY <1>1, <1>2, <2>1, <2>2, <2>3, <2>4, <3>1, CallStepKeepsKernel
  <2>5. CASE o.kind # "drop"
    <3>1. /\ Owner' = Owner /\ NextMember(Owner)' = NextMember(Owner)
          /\ Chain(Owner)' = Chain(Owner) /\ (Unharmed' <=> Unharmed)
          /\ \A d \in Clients : op'[d] = IF d = c THEN x ELSE op[d]
      BY <1>1, <2>1, RingStays DEF Unharmed, Set
    <3>2. OneDown' /\ Heirs'
      BY <1>1, <2>1, <3>1 DEF Kernel, OneDown, Heirs, Holds
    <3>3. x.step = "locked"
      BY <2>2, <2>5
    <3>4. Follow'
      <4>1. \A d \in Clients : ~Written(op'[d]) /\ ~Written(op[d])
        BY <1>2, <1>3, <2>5, <3>1, <3>3 DEF Written
      <4> QED BY <1>1, <3>1, <4>1 DEF Kernel, Follow
    <3>5. ASSUME NEW d \in Clients PROVE Aimed(op[d])' /\ Removed(op[d])'
      <4>1. CASE d = c
        BY <1>1, <1>2, <2>1, <2>2, <2>3, <3>1, <3>3, <4>1 DEF Aimed, Removed
      <4>2. CASE d # c
        BY <1>1, <2>1, <3>1, <4>2 DEF Kernel, Aimed, Removed
      <4> QED BY <4>1, <4>2
    <3>6. v \in Lists /\ \A y \in assigned : y \in Items /\ Has(v, y)
      <4>1. n \in Nodes
        BY <1>1 DEF Known, LockInv
      <4>2. v \in Lists /\ assigned \subseteq Items
        BY <4>1 DEF Known, ListInv, DataOK
      <4> QED BY <1>1, <1>3, <2>5, <4>2 DEF Kernel, Heirs, Holds
    <3>7. (\A y \in assigned : Has(r, y)) /\ (o.kind = "append" => Has(r, o.item))
      <4>1. CASE o.kind = "append"
        BY <1>1, <3>6, <4>1, HasAfter
      <4>2. CASE o.kind = "remove"
        <5>1. Has(v, o.item) /\ o.item \notin assigned /\ r = Without(v, o.item)
          BY <1>1, <1>5, <4>2 DEF Removed, Has
        <5> QED BY <1>1, <3>6, <4>2, <5>1, HasAfter
      <4> QED BY <1>2, <2>5, <4>1, <4>2
    <3> HIDE DEF r, s
    <3>8. ASSUME NEW d \in Clients PROVE InHand(op[d])'
      <4>1. CASE d = c
        <5>1. o.target = Owner
          BY <1>1, <1>3, <2>5 DEF LockNode
        <5> QED BY <1>1, <1>3, <2>1, <2>2, <2>5, <3>1, <3>3, <3>7, <4>1, <5>1 DEF InHand, Written
      <4>2. CASE d # c
        BY <1>3, <2>5, <3>1, <4>2 DEF InHand
      <4> QED BY <4>1, <4>2
    <3> QED BY <3>2, <3>4, <3>5, <3>8 DEF Kernel
  <2> QED BY <2>4, <2>5
<1> QED BY <1>4, <1>5

LEMMA PutLockedKeepsKernel ==
  ASSUME Known, Orderly', NEW c \in Clients, PutLocked(c)
  PROVE  Kernel'
<1> DEFINE o == op[c]
           x == [o EXCEPT !.step = "chain"]
<1>1. /\ IsCall(o) /\ Placed(o) /\ Aimed(o) /\ Removed(o) /\ InHand(o) /\ o.step = "locked"
      /\ UNCHANGED <<up, members, happened, assigned>> /\ Write(o.target, o.value) /\ Set(c, x)
      /\ op = [d \in Clients |-> op[d]] /\ Kernel
  BY DEF Known, LockInv, Kernel, PutLocked, Go, ring
<1>2. Writer(o)
  BY <1>1 DEF Placed, Writer
<1>3. /\ o.target = Owner /\ Owner \in up /\ \A d \in Clients : Writer(op[d]) => d = c
  BY <1>2, OneWriter
<1>4. x.kind = o.kind /\ x.item = o.item /\ x.target = o.target /\ x.primary = o.primary
      /\ x.step = "chain" /\ x.value = o.value
  BY <1>1 DEF IsCall, Fields
<1> HIDE DEF x
<1>5. /\ Owner' = Owner /\ NextMember(Owner)' = NextMember(Owner)
      /\ Chain(Owner)' = Chain(Owner) /\ (Unharmed' <=> Unharmed)
      /\ \A d \in Clients : op'[d] = IF d = c THEN x ELSE op[d]
  BY <1>1, RingStays DEF Unharmed, Set
<1>6. \A n \in Nodes : store'[n] = IF n = Owner THEN o.value ELSE store[n]
  BY <1>1, <1>3 DEF Write, Known, ListInv, DataOK
<1>7. Owner \in Nodes /\ NextMember(Owner) \in Nodes
  BY OwnerIn, NextMemberIn DEF Known, ListInv, RingOK
<1>8. OneDown'
  BY <1>1, <1>5 DEF Kernel, OneDown
<1>9. Heirs'
  <2>1. \A y \in assigned : Has(o.value, y)
    BY <1>1, <1>2 DEF InHand
  <2> QED BY <1>1, <1>5, <1>6, <1>7, <2>1 DEF Kernel, Heirs, Holds
<1>10. Follow'
  <2>1. Written(x) /\ \A d \in Clients \ {c} : ~Written(op'[d])
    BY <1>2, <1>3, <1>4, <1>5 DEF Writer, Written
  <2> QED BY <1>4, <1>5, <2>1 DEF Follow
<1>11. ASSUME NEW d \in Clients PROVE Aimed(op[d])' /\ Removed(op[d])'
  <2>1. CASE d = c
    BY <1>1, <1>2, <1>4, <1>5, <2>1 DEF Aimed, Removed, Writer
  <2>2. CASE d # c
    BY <1>1, <1>5, <2>2 DEF Kernel, Aimed, Removed
  <2> QED BY <2>1, <2>2
<1>12. ASSUME NEW d \in Clients PROVE InHand(op[d])'
  <2>1. CASE d = c
    BY <1>1, <1>2, <1>4, <1>5, <1>6, <1>7, <2>1 DEF InHand
  <2>2. CASE d # c
    BY <1>3, <1>5, <2>2 DEF InHand
  <2> QED BY <2>1, <2>2
<1> QED BY <1>8, <1>9, <1>10, <1>11, <1>12 DEF Kernel

(* A node that does not answer ends the chain at once.                     *)
LEMMA ChainOfDead ==
  ASSUME members \in SUBSET Nodes, members # {}, NEW p \in Nodes, p \notin up
  PROVE  Len(Chain(p)) = 1
<1>1. PICK f \in [0 .. K - 1 -> Walks(p)] :
           /\ f[0] = <<p>> /\ \A i \in 1 .. K - 1 : f[i] = Extended(f[i - 1])
           /\ Chain(p) = f[K - 1]
  BY ChainIsWalk
<1> DEFINE m == K - 1
           T == {i \in 0 .. m : f[i] = <<p>>}
<1>2. m \in Nat /\ 0 \in T
  BY <1>1, StoreAssumption
<1>3. Extended(<<p>>) = <<p>>
  BY DEF Extended
<1>4. ASSUME NEW i \in 1 .. m, i - 1 \in T PROVE i \in T
  BY <1>1, <1>3, <1>4
<1>5. 0 .. m \subseteq T
  <2> HIDE DEF T, m
  <2> QED BY <1>2, <1>4, IntervalInduction
<1>6. m \in T
  BY <1>2, <1>5
<1>7. Chain(p) = <<p>>
  BY <1>1, <1>6
<1> QED BY <1>7

(* The replicas a writer goes to: never the owner, and without a crash all *)
(* the others of its chain.                                                *)
LEMMA ReplicasOfWriter ==
  ASSUME Known, NEW c \in Clients, Writer(op[c])
  PROVE  /\ Replicas(op[c]) \in Seq(Nodes)
         /\ Owner \notin Names(Replicas(op[c]))
         /\ Unharmed => Names(Chain(Owner)) \subseteq {Owner} \cup Names(Replicas(op[c]))
<1> DEFINE p == op[c].primary
           w == Chain(p)
           r == Replicas(op[c])
<1>1. RingOK /\ op[c] \in Calls /\ p \in Nodes
  BY DEF Known, ListInv, Calls
<1>2. w \in Walks(p)
  BY <1>1, ChainFacts DEF RingOK
<1>3. w \in Seq(Nodes) /\ Len(w) \in Nat /\ Len(w) >= 1 /\ w[1] = p
      /\ \A i, j \in 1 .. Len(w) : w[i] = w[j] => i = j
  BY <1>2 DEF Walks
<1>4. r = SubSeq(w, 2, Len(w))
  BY DEF Replicas
<1>5. p = Owner \/ (p \notin up /\ ~Unharmed)
  BY DEF Known, Kernel, Aimed
<1>6. p \notin up => Len(w) = 1
  BY <1>1, ChainOfDead DEF RingOK
<1> HIDE DEF w
<1>7. r \in Seq(Nodes) /\ Len(r) = Len(w) - 1 /\ \A i \in 1 .. Len(r) : r[i] = w[i + 1]
  <2>1. r \in Seq(Nodes)
    BY <1>3, <1>4
  <2>2. Len(r) = Len(w) - 1
    <3> DEFINE n == Len(w)
    <3>1. n \in Nat /\ n >= 1 /\ r = SubSeq(w, 2, n)
      BY <1>3, <1>4
    <3> HIDE DEF n
    <3>2. Len(r) = IF 2 <= n THEN n - 2 + 1 ELSE 0
      BY <3>1
    <3>3. Len(r) = n - 1
      BY <3>1, <3>2
    <3> QED BY <3>3 DEF n
  <2>3. ASSUME NEW i \in 1 .. Len(r) PROVE r[i] = w[i + 1]
    <3>1. i \in 1 .. (Len(w) - 2 + 1)
      BY <1>3, <2>2
    <3>2. r[i] = w[2 + i - 1] /\ 2 + i - 1 = i + 1
      BY <1>3, <1>4, <3>1
    <3> QED BY <3>2
  <2> QED BY <2>1, <2>2, <2>3
<1> HIDE DEF r
<1>8. Owner \notin Names(r)
  <2> SUFFICES ASSUME NEW i \in 1 .. Len(r), r[i] = Owner PROVE FALSE
    BY DEF Names
  <2>1. i + 1 \in 1 .. Len(w) /\ w[i + 1] = Owner /\ Len(w) # 1
    BY <1>3, <1>7
  <2>2. p = Owner
    BY <1>5, <1>6, <2>1
  <2>3. 1 \in 1 .. Len(w) /\ w[1] = w[i + 1]
    BY <1>3, <2>1, <2>2
  <2>4. i + 1 = 1
    BY <1>3, <2>1, <2>3
  <2> QED BY <1>7, <2>4
<1>9. ASSUME Unharmed PROVE Names(Chain(Owner)) \subseteq {Owner} \cup Names(r)
  <2>1. p = Owner
    BY <1>5, <1>9
  <2>2. Chain(Owner) = w
    BY <2>1 DEF w
  <2>3. ASSUME NEW i \in 1 .. Len(w) PROVE w[i] \in {Owner} \cup Names(r)
    <3>1. CASE i = 1
      BY <1>3, <2>1, <3>1
    <3>2. CASE i # 1
      <4>1. i - 1 \in 1 .. Len(r) /\ r[i - 1] = w[(i - 1) + 1] /\ (i - 1) + 1 = i
        BY <1>3, <1>7, <3>2
      <4> QED BY <4>1 DEF Names
    <3> QED BY <3>1, <3>2
  <2> QED BY <2>2, <2>3 DEF Names
<1> QED BY <1>7, <1>8, <1>9 DEF r

LEMMA NamesOfTail ==
  ASSUME NEW S, NEW s \in Seq(S), s # << >>
  PROVE  Names(s) = {Head(s)} \cup Names(Tail(s)) /\ Head(s) \in S
<1> DEFINE t == Tail(s)
<1>1. /\ t \in Seq(S) /\ Len(t) = Len(s) - 1 /\ Len(s) \in Nat /\ Len(s) >= 1
      /\ \A i \in 1 .. Len(t) : t[i] = s[i + 1]
  OBVIOUS
<1>2. Head(s) = s[1] /\ Head(s) \in S
  OBVIOUS
<1> HIDE DEF t
<1>3. ASSUME NEW i \in 1 .. Len(s) PROVE s[i] \in {s[1]} \cup Names(t)
  <2>1. CASE i = 1
    BY <2>1
  <2>2. CASE i # 1
    <3>1. i - 1 \in 1 .. Len(t) /\ t[i - 1] = s[(i - 1) + 1] /\ (i - 1) + 1 = i
      BY <1>1, <2>2
    <3> QED BY <3>1 DEF Names
  <2> QED BY <2>1, <2>2
<1>4. ASSUME NEW i \in 1 .. Len(t) PROVE t[i] \in Names(s)
  <2>1. i + 1 \in 1 .. Len(s) /\ t[i] = s[i + 1]
    BY <1>1
  <2> QED BY <2>1 DEF Names
<1>5. s[1] \in Names(s)
  BY <1>1 DEF Names
<1>6. Names(s) = {s[1]} \cup Names(t)
  <2>1. ASSUME NEW y \in Names(s) PROVE y \in {s[1]} \cup Names(t)
    BY <1>3 DEF Names
  <2>2. ASSUME NEW y \in Names(t) PROVE y \in Names(s)
    BY <1>4 DEF Names
  <2> QED BY <1>5, <2>1, <2>2
<1> QED BY <1>2, <1>6 DEF t

(* A writer goes on: what it has in hand and where it is aimed stay.       *)
LEMMA WriterGoesOn ==
  ASSUME Known, NEW c \in Clients, NEW w, Set(c, w), Writer(op[c]), Written(w),
         UNCHANGED <<up, members, happened, assigned>>, store' \in [Nodes -> Lists],
         w.kind = op[c].kind, w.item = op[c].item, w.value = op[c].value,
         w.target = op[c].target, w.primary = op[c].primary,
         store'[Owner] = op[c].value,
         \A n \in Nodes : store'[n] = store[n] \/ store'[n] = op[c].value,
         w.step = "copy" => Owner \notin Names(w.todo),
         Unharmed /\ w.step = "copy"
           => \A n \in Names(Chain(Owner)) \ Names(w.todo) : store'[n] = op[c].value
  PROVE  Kernel'
<1>1. /\ Owner' = Owner /\ NextMember(Owner)' = NextMember(Owner)
      /\ Chain(Owner)' = Chain(Owner) /\ (Unharmed' <=> Unharmed)
      /\ \A d \in Clients : op'[d] = IF d = c THEN w ELSE op[d]
  BY RingStays DEF Unharmed, Set, Known, LockInv
<1>2. op[c].target = Owner /\ Owner \in up /\ \A d \in Clients : Writer(op[d]) => d = c
  BY OneWriter
<1>3. Kernel /\ Owner \in Nodes /\ NextMember(Owner) \in Nodes
  BY OwnerIn, NextMemberIn DEF Known, ListInv, RingOK
<1>4. /\ \A y \in assigned : Has(op[c].value, y)
      /\ op[c].kind = "append" => Has(op[c].value, op[c].item)
  BY <1>3 DEF Kernel, InHand
<1>5. OneDown'
  BY <1>1, <1>3 DEF Kernel, OneDown
<1>6. Heirs'
  BY <1>1, <1>3, <1>4 DEF Kernel, Heirs, Holds
<1>7. Follow'
  <2>1. \A d \in Clients \ {c} : ~Written(op'[d])
    BY <1>1, <1>2 DEF Written
  <2>2. op'[c] = w /\ Written(op'[c])
    BY <1>1
  <2> QED BY <1>1, <2>1, <2>2 DEF Follow
<1>8. ASSUME NEW d \in Clients PROVE Aimed(op[d])' /\ Removed(op[d])'
  <2>1. CASE d = c
    <3>1. Aimed(op[c]) /\ Removed(op[c]) /\ op[c].step \notin {"idle", "done"}
          /\ w.kind \in {"append", "remove"}
      BY <1>3 DEF Kernel, Writer
    <3> QED BY <1>1, <2>1, <3>1 DEF Aimed, Removed
  <2>2. CASE d # c
    BY <1>1, <1>3, <2>2 DEF Kernel, Aimed, Removed
  <2> QED BY <2>1, <2>2
<1>9. ASSUME NEW d \in Clients PROVE InHand(op[d])'
  <2>1. CASE d = c
    BY <1>1, <1>2, <1>4, <2>1 DEF InHand
  <2>2. CASE d # c
    BY <1>1, <1>2, <2>2 DEF InHand
  <2> QED BY <2>1, <2>2
<1> QED BY <1>5, <1>6, <1>7, <1>8, <1>9 DEF Kernel

LEMMA WalkChainKeepsKernel ==
  ASSUME Known, Orderly', NEW c \in Clients, WalkChain(c)
  PROVE  Kernel'
<1> DEFINE o == op[c]
           r == Replicas(o)
           x == [o EXCEPT !.step = "copy", !.todo = r]
<1>1. /\ IsCall(o) /\ Placed(o) /\ Aimed(o) /\ InHand(o) /\ o.step = "chain" /\ Kernel
      /\ UNCHANGED <<up, members, assigned, store>> /\ store \in [Nodes -> Lists]
  BY DEF Known, LockInv, Kernel, WalkChain, data, ring, ListInv, DataOK
<1>2. Writer(o)
  BY <1>1 DEF Aimed, KindsOf, Writer
<1>3. Set(c, x) /\ UNCHANGED happened
  BY NoFault DEF WalkChain, Known, Go
<1>4. r \in Seq(Nodes) /\ Owner \notin Names(r)
      /\ (Unharmed => Names(Chain(Owner)) \subseteq {Owner} \cup Names(r))
  BY <1>2, ReplicasOfWriter
<1> HIDE DEF r
<1>5. /\ x.kind = o.kind /\ x.item = o.item /\ x.target = o.target /\ x.primary = o.primary
      /\ x.step = "copy" /\ x.value = o.value /\ x.todo = r
  BY <1>1 DEF IsCall, Fields
<1> HIDE DEF x
<1>6. store[Owner] = o.value
  BY <1>1, <1>2 DEF InHand, Written
<1>7. Written(x)
  BY <1>2, <1>5 DEF Writer, Written
<1>8. \A n \in Names(Chain(Owner)) \ Names(x.todo) : Unharmed => store'[n] = o.value
  BY <1>1, <1>4, <1>5, <1>6
<1> QED BY <1>1, <1>2, <1>3, <1>4, <1>5, <1>6, <1>7, <1>8, WriterGoesOn

LEMMA CopyReplicaKeepsKernel ==
  ASSUME Known, Orderly', NEW c \in Clients, NEW ok \in BOOLEAN, CopyReplica(c, ok)
  PROVE  Kernel'
<1> DEFINE o == op[c]
           h == Head(o.todo)
           t == Tail(o.todo)
           j == o.missed + 1
           k == o.tries
           x == IF ok THEN [o EXCEPT !.todo = t, !.tries = k]
                ELSE [o EXCEPT !.todo = t, !.missed = j, !.tries = k]
<1>1. /\ IsCall(o) /\ Placed(o) /\ Aimed(o) /\ InHand(o) /\ o.step = "copy" /\ Kernel
      /\ UNCHANGED <<up, members, assigned>> /\ o.todo # << >> /\ service = "worker"
      /\ Reach(o, h, ok) /\ Store(h, o.value, ok)
  BY DEF Known, LockInv, Kernel, CopyReplica, ring, Orderly
<1>2. Writer(o) /\ o \in Calls /\ o.todo \in Seq(Nodes) /\ o.value \in Lists
  BY <1>1 DEF Aimed, KindsOf, Writer, Known, ListInv, Calls
<1>3. UNCHANGED happened /\ (ok <=> h \in up)
  BY <1>1, ReachIsTrue DEF Known
<1>4. Set(c, x)
  BY <1>1 DEF CopyReplica, Go
<1>5. Names(o.todo) = {h} \cup Names(t) /\ h \in Nodes
  BY <1>1, <1>2, NamesOfTail
<1>6. /\ IsCall(x) /\ x.kind = o.kind /\ x.item = o.item /\ x.target = o.target
      /\ x.primary = o.primary /\ x.step = "copy" /\ x.value = o.value /\ x.todo = t
  <2> HIDE DEF t, j, k
  <2> QED BY <1>1 DEF IsCall, Fields
<1> HIDE DEF x, t, h
<1>7. store' \in [Nodes -> Lists]
  BY <1>1, <1>2, <1>5, StoreKeepsLists DEF Known, ListInv, DataOK
<1>8. \A n \in Nodes : store'[n] = IF n = h /\ ok THEN o.value ELSE store[n]
  BY <1>1, <1>3 DEF Store, Write, data, Known, ListInv, DataOK
<1>9. store[Owner] = o.value /\ Owner \notin Names(o.todo) /\ Owner \in Nodes
  BY <1>1, <1>2, OwnerIn DEF InHand, Written, Known, ListInv
<1>10. Written(x)
  BY <1>2, <1>6 DEF Writer, Written
<1>11. ASSUME Unharmed, NEW n \in Names(Chain(Owner)) \ Names(t) PROVE store'[n] = o.value
  <2>1. n \in members /\ n \in Nodes
    <3>1. Chain(Owner) \in Walks(Owner) /\ Owner \in members
      BY <1>9, ChainFacts, OwnerIn DEF Known, ListInv, RingOK
    <3>2. \A i \in 1 .. Len(Chain(Owner)) : Chain(Owner)[i] \in members
      BY <3>1 DEF Walks
    <3> QED BY <3>2 DEF Names, Known, ListInv, RingOK
  <2>2. n \in up
    BY <1>1, <1>11, <2>1 DEF Kernel, OneDown
  <2>3. CASE n = h
    BY <1>3, <1>8, <2>1, <2>2, <2>3
  <2>4. CASE n # h
    <3>1. n \notin Names(o.todo)
      BY <1>5, <2>4
    <3>2. Written(o) /\ o.step = "copy"
      BY <1>1, <1>2 DEF Written
    <3>3. store[n] = o.value
      BY <1>1, <1>11, <3>1, <3>2 DEF Kernel, Follow
    <3> QED BY <1>8, <2>1, <2>4, <3>3
  <2> QED BY <2>3, <2>4
<1>12. store'[Owner] = o.value /\ Owner \notin Names(x.todo)
  BY <1>5, <1>6, <1>8, <1>9
<1> QED BY <1>1, <1>2, <1>3, <1>4, <1>6, <1>7, <1>8, <1>10, <1>11, <1>12, WriterGoesOn

LEMMA ReplicatedKeepsKernel ==
  ASSUME Known, Orderly', NEW c \in Clients, Replicated(c)
  PROVE  Kernel'
<1> DEFINE o == op[c]
<1>1. /\ IsCall(o) /\ Placed(o) /\ Aimed(o) /\ InHand(o) /\ o.step = "copy" /\ Kernel
      /\ UNCHANGED <<up, members, store, happened>> /\ o.todo = << >>
  BY DEF Known, LockInv, Kernel, Replicated, ring, data
<1>2. Writer(o) /\ Written(o)
  BY <1>1 DEF Aimed, KindsOf, Writer, Written
<1>3. Owner \in up /\ \A d \in Clients : Writer(op[d]) => d = c
  BY <1>2, OneWriter
<1>4. Names(o.todo) = {}
  BY <1>1 DEF Names
<1>5. \E l : Finish(c, o, l)
  BY DEF Replicated
<1>6. PICK w : /\ Set(c, w) /\ w.kind = o.kind /\ w.item = o.item /\ w.step = "done"
               /\ w.target = o.target /\ w.primary = o.primary
  BY <1>1, <1>5, FinishedCall
<1>7. store[Owner] = o.value
  BY <1>1, <1>2 DEF InHand
<1>8. Unharmed => \A n \in Names(Chain(Owner)) : store[n] = store[Owner]
  BY <1>1, <1>2, <1>4, <1>7 DEF Kernel, Follow
<1>9. \/ UNCHANGED assigned
      \/ Has(store[Owner], o.item) /\ assigned' = Acknowledged(o)
  <2>1. o.kind = "append" => Has(o.value, o.item)
    BY <1>1, <1>2 DEF InHand
  <2> QED BY <1>7, <2>1 DEF Replicated
<1> QED BY <1>1, <1>3, <1>6, <1>8, <1>9, EndKeepsKernel

(***************************************************************************)
(* Steps that touch several calls, and the ring                            *)
(***************************************************************************)
LEMMA DisturbedSame ==
  ASSUME Known, NEW c \in Clients
  PROVE  LET x == [op[c] EXCEPT !.alone = FALSE]
         IN /\ x.kind = op[c].kind /\ x.step = op[c].step /\ x.item = op[c].item
            /\ x.target = op[c].target /\ x.primary = op[c].primary
            /\ x.value = op[c].value /\ x.todo = op[c].todo
<1>1. IsCall(op[c])
  BY DEF Known, LockInv
<1> QED BY <1>1 DEF IsCall, Fields

LEMMA StartKeepsKernel ==
  ASSUME Known, NEW c \in Clients, NEW kind \in Kinds, NEW h \in Homes, NEW x \in Items,
         Start(c, kind, h, x)
  PROVE  Kernel'
<1> DEFINE v == IF kind = "put" THEN [version |-> 1, deleted |-> FALSE, items |-> <<x>>] ELSE None
           e == << >>
           f == FirstStep(kind, h)
           q == Quiet
           o == [kind |-> kind, step |-> f, item |-> x, home |-> h,
                 primary |-> Owner, target |-> Owner, tries |-> 0, value |-> v,
                 todo |-> e, missed |-> 0, alone |-> q]
<1>1. /\ op[c].step \in {"idle", "done"} /\ UNCHANGED <<store, up, members, happened>>
      /\ kind \in KindsOf("worker")
      /\ op' = [d \in Clients |-> IF d = c THEN o ELSE [op[d] EXCEPT !.alone = FALSE]]
  BY DEF Start, ring, data, Known, Orderly
<1> HIDE DEF v, e, f, q
<1>2. o.kind = kind /\ o.step = f /\ o.item = x /\ o.target = Owner /\ o.primary = Owner
  OBVIOUS
<1> HIDE DEF o
<1>3. /\ kind \in {"append", "drop"} => f = "lock"
      /\ kind = "remove" => f \in {"lock", "read"}
      /\ kind = "get" => f = "read"
      /\ kind \in {"get", "append", "remove", "drop"}
  BY <1>1 DEF FirstStep, f, KindsOf
<1>4. /\ assigned' \subseteq assigned
      /\ kind = "remove" => x \notin assigned'
      /\ kind = "drop" => assigned' = {}
  BY DEF Start
<1>5. /\ Owner' = Owner /\ NextMember(Owner)' = NextMember(Owner)
      /\ Chain(Owner)' = Chain(Owner) /\ (Unharmed' <=> Unharmed) /\ Kernel
  BY <1>1, RingStays DEF Unharmed, Known
<1>6. ASSUME NEW d \in Clients \ {c}
      PROVE  /\ op'[d].kind = op[d].kind /\ op'[d].step = op[d].step /\ op'[d].item = op[d].item
             /\ op'[d].target = op[d].target /\ op'[d].primary = op[d].primary
             /\ op'[d].value = op[d].value /\ op'[d].todo = op[d].todo
  <2>1. op'[d] = [op[d] EXCEPT !.alone = FALSE]
    BY <1>1
  <2> QED BY <2>1, DisturbedSame
<1>7. op'[c] = o
  BY <1>1
<1>8. ~Writer(o) /\ ~Writer(op[c])
  BY <1>1, <1>2, <1>3 DEF Writer
<1>9. \A d \in Clients : Written(op'[d]) <=> Written(op[d])
  BY <1>6, <1>7, <1>8 DEF Written, Writer
<1>10. OneDown' /\ Heirs'
  BY <1>1, <1>4, <1>5 DEF Kernel, OneDown, Heirs, Holds
<1>11. Follow'
  <2>1. \A d \in Clients : Written(op[d]) =>
          op'[d].step = op[d].step /\ op'[d].todo = op[d].todo /\ op'[d].value = op[d].value
    BY <1>6, <1>8 DEF Written
  <2> QED BY <1>1, <1>5, <1>9, <2>1, ZenonT(60) DEF Kernel, Follow
<1>12. ASSUME NEW d \in Clients PROVE Aimed(op[d])' /\ Removed(op[d])' /\ InHand(op[d])'
  <2>1. CASE d = c
    <3>1. /\ op'[c].kind = kind /\ op'[c].step = f /\ op'[c].item = x
          /\ op'[c].target = Owner /\ op'[c].primary = Owner
      BY <1>2, <1>7
    <3>2. ~Writer(op'[c])
      BY <1>7, <1>8
    <3>3. Aimed(op[c])'
      BY <1>1, <1>3, <1>5, <3>1 DEF Aimed
    <3>4. Removed(op[c])' /\ InHand(op[c])'
      BY <1>4, <3>1, <3>2 DEF Removed, InHand
    <3> QED BY <2>1, <3>3, <3>4
  <2>2. CASE d # c
    <3>1. Aimed(op[d]) /\ Removed(op[d]) /\ InHand(op[d]) /\ d \in Clients \ {c}
      BY <1>5, <2>2 DEF Kernel
    <3>2. Aimed(op[d])'
      BY <1>1, <1>5, <1>6, <3>1 DEF Aimed
    <3>3. Removed(op[d])'
      BY <1>4, <1>6, <3>1 DEF Removed
    <3>4. InHand(op[d])'
      BY <1>1, <1>4, <1>5, <1>6, <3>1 DEF InHand, Written, Writer
    <3> QED BY <3>2, <3>3, <3>4
  <2> QED BY <2>1, <2>2
<1> QED BY <1>10, <1>11, <1>12 DEF Kernel

(* The owner after a member is forgotten.                                  *)
LEMMA LeastIs ==
  ASSUME NEW T, T \subseteq Nodes, NEW x \in T, \A y \in T : x <= y
  PROVE  Least(T) = x
<1>1. Least(T) \in T /\ Least(T) <= x /\ x <= Least(T)
  BY LeastIn
<1>2. Nodes \subseteq Nat
  BY StoreAssumption DEF Nodes
<1> DEFINE l == Least(T)
<1>3. l \in Nat /\ x \in Nat /\ l <= x /\ x <= l
  BY <1>1, <1>2
<1> HIDE DEF l
<1>4. l = x
  BY <1>3
<1> QED BY <1>4 DEF l

LEMMA OwnerAfterForget ==
  ASSUME RingOK, NEW n \in members, members' = members \ {n}, members' # {}
  PROVE  /\ n # Owner => Owner' = Owner
         /\ n = Owner => Owner' = NextMember(Owner) /\ Owner' # n
         /\ Owner' \in members'
<1>1. members' \subseteq Nodes /\ members \subseteq Nodes /\ Nodes \subseteq Int
  BY StoreAssumption DEF RingOK, Nodes
<1>2. Owner \in members /\ \A m \in members : Owner <= m
  BY <1>1, LeastIn DEF Owner
<1>3. Owner' \in members'
  BY <1>1, LeastIn DEF Owner
<1>4. ASSUME n # Owner PROVE Owner' = Owner
  <2>1. Owner \in members' /\ \A m \in members' : Owner <= m
    BY <1>2, <1>4
  <2>2. Least(members') = Owner
    BY <1>1, <2>1, LeastIs
  <2> QED BY <2>2 DEF Owner
<1>5. ASSUME n = Owner PROVE Owner' = NextMember(Owner)
  <2>1. \A m \in members : m > Owner <=> m # Owner
    BY <1>1, <1>2
  <2>2. {m \in members : m > Owner} = members'
    BY <1>5, <2>1
  <2>3. NextMember(Owner) = Least(members')
    BY <2>2 DEF NextMember
  <2> QED BY <2>3 DEF Owner
<1> QED BY <1>3, <1>4, <1>5

LEMMA ForgetKeepsKernel ==
  ASSUME Known, Orderly', NEW n \in Nodes, Forget(n)
  PROVE  Kernel'
<1>1. /\ n \in members /\ n \notin up /\ members' = members \ {n} /\ members' # {}
      /\ op' = Disturbed /\ UNCHANGED <<store, up, happened, assigned>>
      /\ Kernel /\ RingOK
  BY DEF Forget, data, history, Known, ListInv
<1>2. /\ n # Owner => Owner' = Owner
      /\ n = Owner => Owner' = NextMember(Owner) /\ Owner' # n
      /\ Owner' \in members'
  BY <1>1, OwnerAfterForget
<1>3. ~Unharmed /\ ~Unharmed' /\ up \subseteq members /\ \A m \in members \ {n} : m \in up
  BY <1>1 DEF Kernel, OneDown, Unharmed
<1>4. K >= 2
  BY <1>3, StoreAssumption DEF Known, Orderly, Unharmed
<1>5. Owner' \in up
  BY <1>1, <1>2, <1>3
<1>6. OneDown'
  BY <1>1, <1>3 DEF OneDown
<1>7. Holds(Owner')
  BY <1>1, <1>2, <1>4, <1>5 DEF Kernel, Heirs
<1>8. Heirs'
  BY <1>1, <1>3, <1>5, <1>7 DEF Heirs, Holds
<1>9. Follow'
  BY <1>3 DEF Follow
<1>10. ASSUME NEW d \in Clients PROVE Aimed(op[d])' /\ Removed(op[d])' /\ InHand(op[d])'
  <2>1. op'[d] = [op[d] EXCEPT !.alone = FALSE]
    BY <1>1 DEF Disturbed
  <2>2. /\ op'[d].kind = op[d].kind /\ op'[d].step = op[d].step /\ op'[d].item = op[d].item
        /\ op'[d].target = op[d].target /\ op'[d].primary = op[d].primary
        /\ op'[d].value = op[d].value /\ op'[d].todo = op[d].todo
    BY <2>1, DisturbedSame
  <2>3. Aimed(op[d]) /\ Removed(op[d]) /\ InHand(op[d])
    BY <1>1 DEF Kernel
  <2>4. op[d].target = Owner' \/ op[d].target \notin up
    BY <1>1, <1>2, <2>3 DEF Aimed
  <2>5. op[d].primary = Owner' \/ op[d].primary \notin up
    BY <1>1, <1>2, <2>3 DEF Aimed
  <2>6. Aimed(op[d])'
    BY <1>1, <1>3, <2>2, <2>3, <2>4, <2>5 DEF Aimed
  <2>7. Removed(op[d])'
    BY <1>1, <2>2, <2>3 DEF Removed
  <2>8. Writer(op[d]) => Owner' = Owner
    BY <1>1, <1>2, <2>3, OneWriter
  <2>9. InHand(op[d])'
    BY <1>1, <2>2, <2>3, <2>8 DEF InHand, Written, Writer
  <2> QED BY <2>6, <2>7, <2>9
<1> QED BY <1>6, <1>8, <1>9, <1>10 DEF Kernel

(* The call that a process takes along, seen by its caller.                *)
LEMMA AppendAgainFields ==
  ASSUME NEW o, IsCall(o)
  PROVE  LET x == [AppendAgain(o) EXCEPT !.alone = FALSE]
         IN /\ x.kind = o.kind /\ x.item = o.item /\ x.primary = o.primary
            /\ x.target \in {o.target, Owner} /\ x.step \in {"lock", "done"}
<1> DEFINE over == [o EXCEPT !.step = "done", !.todo = << >>]
           again == [o EXCEPT !.step = "lock", !.tries = @ + 1, !.target = Owner, !.todo = << >>]
<1>1. /\ IsCall(over) /\ over.step = "done" /\ over.kind = o.kind /\ over.item = o.item
      /\ over.primary = o.primary /\ over.target = o.target
  BY DEF IsCall, Fields
<1>2. /\ IsCall(again) /\ again.step = "lock" /\ again.kind = o.kind /\ again.item = o.item
      /\ again.primary = o.primary /\ again.target = Owner
  BY DEF IsCall, Fields
<1>3. AppendAgain(o) \in {over, again}
  BY DEF AppendAgain
<1> HIDE DEF over, again
<1> QED BY <1>1, <1>2, <1>3 DEF IsCall, Fields

LEMMA CrashKeepsKernel ==
  ASSUME Known, Orderly', NEW n \in Nodes, Crash(n)
  PROVE  Kernel'
<1> DEFINE busy == {c \in Clients : op[c].step \notin {"idle", "done"}}
           hit(c) == c \in busy /\ At(op[c]) = n
<1>1. /\ n \in up /\ up' = up \ {n} /\ store' = [store EXCEPT ![n] = None]
      /\ UNCHANGED <<members, assigned>> /\ Kernel /\ RingOK /\ store \in [Nodes -> Lists]
  BY DEF Crash, Halt, Known, ListInv, DataOK
<1>2. \A c \in Clients : op'[c] = IF hit(c)
                                  THEN IF op[c].home = n THEN NoOp
                                       ELSE [AppendAgain(op[c]) EXCEPT !.alone = FALSE]
                                  ELSE [op[c] EXCEPT !.alone = FALSE]
  BY DEF Crash, Halt
<1>3. Unharmed /\ ~Unharmed'
  <2>1. happened["crash"] \in Nat /\ happened' = [happened EXCEPT !["crash"] = @ + 1]
        /\ happened \in [Troubles -> Nat] /\ "crash" \in Troubles
    BY DEF Crash, Trouble, Known, ListInv, Troubles
  <2>2. happened'["crash"] = happened["crash"] + 1
    BY <2>1
  <2> QED BY <2>1, <2>2 DEF Unharmed, Orderly
<1>4. Owner' = Owner /\ NextMember(Owner)' = NextMember(Owner)
  BY <1>1 DEF Owner, NextMember, Least
<1>5. up = members /\ members = Founders
  BY <1>1, <1>3 DEF Kernel, OneDown
<1>6. OneDown'
  BY <1>1, <1>3, <1>5 DEF OneDown
<1>7. Owner \in Nodes /\ NextMember(Owner) \in Nodes /\ \A m \in Nodes \ {n} : store'[m] = store[m]
  BY <1>1, OwnerIn, NextMemberIn DEF RingOK
<1>8. Heirs'
  BY <1>1, <1>3, <1>4, <1>7 DEF Kernel, Heirs, Holds
<1>9. Follow'
  BY <1>3 DEF Follow
<1>10. ASSUME NEW d \in Clients PROVE Aimed(op[d])' /\ Removed(op[d])' /\ InHand(op[d])'
  <2>1. /\ Aimed(op[d]) /\ Removed(op[d]) /\ InHand(op[d])
        /\ op[d].target = Owner /\ op[d].primary = Owner
    BY <1>1, <1>3 DEF Kernel, Aimed
  <2>2. IsCall(op[d]) /\ Placed(op[d])
    BY DEF Known, LockInv
  <2>3. CASE hit(d) /\ op[d].home = n
    <3>1. op'[d] = NoOp
      BY <1>2, <2>3
    <3>2. /\ NoOp.kind = "get" /\ NoOp.step = "idle" /\ NoOp.target = Owner
          /\ NoOp.primary = Owner
      BY <1>5 DEF NoOp, Owner
    <3> QED BY <1>3, <1>4, <3>1, <3>2 DEF Aimed, Removed, InHand, Writer, KindsOf
  <2>4. CASE hit(d) /\ op[d].home # n
    <3> DEFINE x == [AppendAgain(op[d]) EXCEPT !.alone = FALSE]
    <3>1. op'[d] = x /\ op[d].kind = "append"
      BY <1>2, <2>4 DEF At
    <3>2. /\ x.kind = op[d].kind /\ x.item = op[d].item /\ x.primary = Owner
          /\ x.target = Owner /\ x.step \in {"lock", "done"}
      BY <2>1, <2>2, AppendAgainFields
    <3> HIDE DEF x
    <3> QED BY <1>4, <2>1, <3>1, <3>2 DEF Aimed, Removed, InHand, Writer
  <2>5. CASE ~hit(d)
    <3>1. op'[d] = [op[d] EXCEPT !.alone = FALSE]
      BY <1>2, <2>5
    <3>2. /\ op'[d].kind = op[d].kind /\ op'[d].step = op[d].step /\ op'[d].item = op[d].item
          /\ op'[d].target = op[d].target /\ op'[d].primary = op[d].primary
          /\ op'[d].value = op[d].value /\ op'[d].todo = op[d].todo
      BY <3>1, DisturbedSame
    <3>3. Aimed(op[d])' /\ Removed(op[d])'
      BY <1>1, <1>3, <1>4, <2>1, <3>2 DEF Aimed, Removed
    <3>4. ASSUME Writer(op[d]) PROVE Owner # n /\ Owner \in up
      <4>1. d \in busy
        BY <3>4 DEF Writer
      <4>2. At(op[d]) = op[d].target
        BY <2>2, <3>4 DEF Writer, At, Placed
      <4> QED BY <2>1, <2>5, <3>4, <4>1, <4>2 DEF InHand
    <3>5. InHand(op[d])'
      BY <1>1, <1>4, <1>7, <2>1, <3>2, <3>4 DEF InHand, Written, Writer
    <3> QED BY <3>3, <3>5
  <2> QED BY <2>3, <2>4, <2>5
<1> QED BY <1>6, <1>8, <1>9, <1>10 DEF Kernel

(***************************************************************************)
(* The theorems                                                            *)
(***************************************************************************)
LEMMA KernelAtFirst == Init => ListsInv
<1> SUFFICES ASSUME Init PROVE Kernel
  BY DEF ListsInv
<1>1. \A c \in Clients : op[c] = NoOp
  BY DEF Init
<1>2. members = Founders /\ up = Founders /\ assigned = {} /\ Unharmed
      /\ \A n \in Nodes : store[n] = None
  BY DEF Init, Unharmed, Troubles
<1>3. /\ NoOp.kind = "get" /\ NoOp.step = "idle" /\ NoOp.target = Owner
      /\ NoOp.primary = Owner
  BY <1>2 DEF NoOp, Owner
<1>4. \A c \in Clients : Aimed(op[c]) /\ InHand(op[c]) /\ Removed(op[c]) /\ ~Written(op[c])
  BY <1>1, <1>3 DEF Aimed, InHand, Removed, Written, Writer, KindsOf
<1>5. OneDown /\ Heirs
  BY <1>2 DEF OneDown, Heirs, Holds
<1>6. Follow
  <2>1. RingOK /\ Owner \in Nodes
    BY <1>2, StoreAssumption, OwnerIn DEF RingOK
  <2>2. Chain(Owner) \in Seq(Nodes)
    BY <2>1, ChainFacts DEF RingOK, Walks
  <2>3. Names(Chain(Owner)) \subseteq Nodes
    BY <2>2 DEF Names
  <2> QED BY <1>2, <1>4, <2>1, <2>3 DEF Follow
<1> QED BY <1>4, <1>5, <1>6 DEF Kernel

(* What ends the conditions of the properties does not come back.          *)
LEMMA TroublesAreCounted ==
  ASSUME LockInv, ListInv, [Next]_vars
  PROVE  /\ UNCHANGED service /\ (unlocked => unlocked')
         /\ happened \in [Troubles -> Nat] /\ happened' \in [Troubles -> Nat]
         /\ \A t \in Troubles : happened[t] <= happened'[t]
         /\ {"join", "leave", "crash", "fault"} \subseteq Troubles
<1>1. happened \in [Troubles -> Nat]
  BY DEF ListInv
<1> DEFINE counts == UNCHANGED happened \/ \E t \in Troubles : Trouble(t)
           keeps == UNCHANGED service /\ (unlocked => unlocked')
<1>2. {"join", "leave", "crash", "fault"} \subseteq Troubles
  BY DEF Troubles
<1>3. counts /\ keeps
  <2>1. ASSUME NEW c \in Clients, Work(c) PROVE counts /\ keeps
    <3>1. ASSUME NEW ok \in BOOLEAN, ReadPrimary(c, ok) \/ ReadReplica(c, ok)
          PROVE  counts /\ keeps
      BY <1>2, <3>1 DEF ReadPrimary, ReadReplica, Reach
    <3>2. ASSUME NEW ok \in BOOLEAN, PutPrimary(c, ok) PROVE counts /\ keeps
      BY <1>2, <3>2 DEF PutPrimary, Reach
    <3>3. ASSUME NEW ok \in BOOLEAN, DeletePrimary(c, ok) PROVE counts /\ keeps
      BY <1>2, <3>3 DEF DeletePrimary, Reach
    <3>4. ASSUME NEW ok \in BOOLEAN, CopyReplica(c, ok) PROVE counts /\ keeps
      BY <1>2, <3>4 DEF CopyReplica, Reach
    <3>5. CASE NoReplica(c) \/ Acquire(c) \/ PutLocked(c) \/ Replicated(c)
      BY <3>5 DEF NoReplica, Acquire, PutLocked, Replicated
    <3>6. CASE AppendFails(c)
      BY <1>2, <3>6 DEF AppendFails, Reach
    <3>7. CASE AnswerLost(c)
      BY <1>2, <3>7 DEF AnswerLost
    <3>8. CASE WalkChain(c)
      BY <1>2, <3>8 DEF WalkChain
    <3> HIDE DEF counts, keeps
    <3> QED BY <2>1, <3>1, <3>2, <3>3, <3>4, <3>5, <3>6, <3>7, <3>8 DEF Work
  <2>2. ASSUME NEW c \in Clients, NEW kind \in Kinds, NEW h \in Homes, NEW x \in Items,
               Start(c, kind, h, x)
        PROVE  counts /\ keeps
    BY <2>2 DEF Start
  <2>3. ASSUME NEW n \in Nodes, Crash(n) \/ Exit(n) PROVE counts /\ keeps
    BY <1>2, <2>3 DEF Crash, Exit, Halt
  <2>4. ASSUME NEW n \in Nodes, Forget(n) \/ Join(n) PROVE counts /\ keeps
    BY <1>2, <2>4 DEF Forget, Join, history
  <2>5. ASSUME NEW n \in Nodes, NEW ok \in BOOLEAN, Leave(n, ok) PROVE counts /\ keeps
    BY <1>2, <2>5 DEF Leave
  <2>6. CASE UNCHANGED vars
    BY <2>6 DEF vars, history
  <2> HIDE DEF counts, keeps
  <2> QED BY <2>1, <2>2, <2>3, <2>4, <2>5, <2>6 DEF Next
<1>4. \A t \in Troubles : happened[t] <= happened'[t]
  BY <1>1, <1>3 DEF Trouble
<1>5. happened' \in [Troubles -> Nat]
  BY StepKeepsLists DEF ListInv
<1> QED BY <1>1, <1>2, <1>3, <1>4, <1>5

LEMMA OrderlyBefore ==
  ASSUME LockInv, ListInv, [Next]_vars, Orderly'
  PROVE  Orderly
  BY TroublesAreCounted, StoreAssumption DEF Orderly

LEMMA StepKeepsKernel == LockInv /\ ListInv /\ ListsInv /\ [Next]_vars => ListsInv'
<1> SUFFICES ASSUME LockInv, ListInv, ListsInv, [Next]_vars, Orderly' PROVE Kernel'
  BY DEF ListsInv
<1>1. Known
  BY OrderlyBefore DEF Known, ListsInv
<1>2. ASSUME NEW c \in Clients, Work(c) PROVE Kernel'
  BY <1>1, <1>2, ReadsKeepKernel, UnlockedWritesAreNotOrderly, AppendFailsKeepsKernel,
     AcquireKeepsKernel, PutLockedKeepsKernel, WalkChainKeepsKernel, CopyReplicaKeepsKernel,
     ReplicatedKeepsKernel
     DEF Work
<1>3. ASSUME NEW c \in Clients, NEW kind \in Kinds, NEW h \in Homes, NEW x \in Items,
             Start(c, kind, h, x)
      PROVE  Kernel'
  BY <1>1, <1>3, StartKeepsKernel
<1>4. ASSUME NEW n \in Nodes, Crash(n) \/ Forget(n) \/ Exit(n) \/ Join(n) PROVE Kernel'
  <2>1. ~Join(n)
    BY <1>1, NoFault DEF Join, Known
  <2>2. ~Exit(n)
    BY <1>1 DEF Exit, Known, Kernel, OneDown
  <2> QED BY <1>1, <1>4, <2>1, <2>2, CrashKeepsKernel, ForgetKeepsKernel
<1>5. ASSUME NEW n \in Nodes, NEW ok \in BOOLEAN, Leave(n, ok) PROVE Kernel'
  BY <1>1, <1>5, NoFault DEF Leave, Known
<1>6. CASE UNCHANGED vars
  <2>1. UNCHANGED <<up, members, store, op, assigned, happened>>
    BY <1>6 DEF vars, ring, data, history
  <2>2. /\ Owner' = Owner /\ NextMember(Owner)' = NextMember(Owner)
        /\ Chain(Owner)' = Chain(Owner) /\ (Unharmed' <=> Unharmed) /\ Kernel
    BY <1>1, <2>1, RingStays DEF Unharmed, Known
  <2>3. OneDown' /\ Heirs'
    BY <2>1, <2>2 DEF Kernel, OneDown, Heirs, Holds
  <2>4. Follow'
    BY <2>1, <2>2 DEF Kernel, Follow
  <2>5. \A c \in Clients : Aimed(op[c])' /\ InHand(op[c])' /\ Removed(op[c])'
    BY <2>1, <2>2 DEF Kernel, Aimed, InHand, Removed
  <2> QED BY <2>3, <2>4, <2>5 DEF Kernel
<1> QED BY <1>2, <1>3, <1>4, <1>5, <1>6 DEF Next

(* The conditions of the properties are those of the invariant.            *)
LEMMA TotalIsCounted ==
  ASSUME ListInv
  PROVE  /\ Total = 0 => happened["join"] = 0 /\ happened["leave"] = 0 /\ happened["crash"] = 0
         /\ Total = happened["crash"] => happened["join"] = 0 /\ happened["leave"] = 0
<1> {"join", "leave", "crash"} \subseteq Troubles
  BY DEF Troubles
<1> QED BY DEF ListInv, Total

(* For every ring and number of callers: a task whose append was           *)
(* acknowledged and that nobody removed is in its owner's list, also after *)
(* the owner crashed and its successor took over.                          *)
THEOREM AssignmentsAreKept == Spec => []AssignmentsKept
<1>1. LockInv /\ ListInv /\ ListsInv => AssignmentsKept
  <2> SUFFICES ASSUME ListInv, ListsInv, service = "worker", ~unlocked, happened["fault"] = 0,
                      K >= 2, Total = happened["crash"], Total <= 1, Owner \in up
               PROVE  \A x \in assigned : Has(store[Owner], x)
    BY DEF AssignmentsKept
  <2>1. Orderly
    BY TotalIsCounted DEF Orderly
  <2> QED BY <2>1 DEF ListsInv, Kernel, Heirs, Holds
<1> QED BY <1>1, LocksAtFirst, StepKeepsLocks, ListsAtFirst, StepKeepsLists,
           KernelAtFirst, StepKeepsKernel, PTL DEF Spec

(* For every ring, chain length and number of callers: while the list's    *)
(* lock is free, every replica of the chain holds exactly the owner's list. *)
THEOREM ReplicasAreFollowing == Spec => []ReplicasFollow
<1>1. LockInv /\ ListInv /\ ListsInv => ReplicasFollow
  <2> SUFFICES ASSUME LockInv, ListInv, ListsInv, service = "worker", ~unlocked,
                      happened["fault"] = 0, Total = 0, lock[Owner] = None
               PROVE  \A n \in Names(Chain(Owner)) : store[n] = store[Owner]
    BY DEF ReplicasFollow, Names
  <2>1. Orderly /\ Unharmed
    BY TotalIsCounted DEF Orderly, Unharmed
  <2>2. Known
    BY <2>1 DEF Known, ListsInv
  <2>3. None \notin Clients
    BY StoreAssumption
  <2>4. \A c \in Clients : ~Written(op[c])
    BY <2>2, <2>3, OneWriter DEF Written
  <2> QED BY <2>1, <2>2, <2>4 DEF Known, Kernel, Follow
<1> QED BY <1>1, LocksAtFirst, StepKeepsLocks, ListsAtFirst, StepKeepsLists,
           KernelAtFirst, StepKeepsKernel, PTL DEF Spec

(***************************************************************************)
(* The reads that nothing disturbs                                         *)
(***************************************************************************)
(* What the property assumes: /data keys only survive leaves, the others   *)
(* one change of the ring.                                                 *)
Covered ==
  IF service = "data" THEN Total = happened["leave"] ELSE K >= 2 /\ Total <= 1
Untouched == Total = 0

Busy(o) == o.step \notin {"idle", "done"}
(* A write that may have reached some nodes and not others, and leaves     *)
(* nobody certain unless it is alone.                                      *)
Unsettled(o) == o.step \in {"chain", "copy"} \/ (o.step \in {"put", "del"} /\ ~o.alone)
Settled == latest # Unsure /\ \A c \in Clients : ~Unsettled(op[c])
Near == Names(Chain(Owner))
OneOf(n) == store[n] \in {latest, None}

RingKept ==
  /\ happened["crash"] = 0 => members \subseteq up
  /\ happened["leave"] = 0 => up \subseteq members
  /\ \A m, n \in members \ up : m = n
(* The steps a call can be in.                                             *)
Sane(o) ==
  /\ o.kind \in KindsOf(service)
  /\ o.kind = "get" => o.step \in {"idle", "read", "replicas", "done"}
  /\ o.step = "del" => o.value = None
  /\ service = "data" => o.step \in {"idle", "read", "put", "del", "done"}
(* A call that nothing disturbs works with the ring as it is.              *)
Undisturbed(c) ==
  op[c].alone =>
    /\ \A d \in Clients \ {c} : ~Busy(op[d])
    /\ Busy(op[c]) => members \subseteq up /\ op[c].target = Owner /\ op[c].primary = Owner
(* ... and knows what it has read and written so far.                      *)
Progress(o) ==
  o.alone =>
    /\ o.step = "replicas" => /\ \A m \in Near : store[m] = None \/ m \in Names(o.todo)
                              /\ Names(o.todo) \subseteq Near
    /\ o.step = "chain" => store[Owner] = o.value
    /\ o.step = "copy" /\ o.missed = 0 => \A m \in Near : store[m] = o.value \/ m \in Names(o.todo)
    /\ o.step = "done" /\ o.kind = "get" => latest \in {o.value, Unsure}
Calling == \A c \in Clients : Sane(op[c]) /\ Undisturbed(c) /\ Progress(op[c])

(* /data: no member but the owner has the key.                             *)
OneCopy ==
  /\ \A c \in Clients : Busy(op[c]) => op[c].target = Owner \/ op[c].target \notin members
  /\ \A m \in members \ {Owner} : store[m] = None
  /\ Settled => store[Owner] = latest

(* Before the ring changes only the chain has the key.                     *)
ChainOnly ==
  /\ \A c \in Clients :
       /\ Busy(op[c]) => op[c].target = Owner /\ op[c].primary = Owner
       /\ op[c].step = "copy" => Names(op[c].todo) \subseteq Near
  /\ \A m \in Nodes \ Near : store[m] = None /\ disk[m] = None
  /\ Settled => \A m \in Near : store[m] = latest
(* Afterwards the owner has it, or else the next member.                   *)
Heir ==
  \/ Owner \in up /\ store[Owner] = latest
  \/ /\ store[Owner] = None /\ store[NextMember(Owner)] = latest
     /\ happened["crash"] = 0 \/ (Owner \notin up /\ NextMember(Owner) \in up)
  \/ members = {Owner} /\ Owner \notin up
ChainKept ==
  Settled =>
    /\ members \subseteq up => \A m \in Near : OneOf(m)
    /\ ~(members \subseteq up) => \A m \in Nodes : OneOf(m)
    /\ latest # None => Heir

Agreed ==
  /\ RingKept /\ Calling
  /\ service = "data" => OneCopy
  /\ service # "data" => IF Untouched THEN ChainOnly ELSE ChainKept
ReadInv == Covered => Agreed

(* The invariants of the locks, of the types and of the reads together.    *)
KnownReads == LockInv /\ ListInv /\ Covered /\ Agreed
RingUntouched ==
  UNCHANGED <<service, up, members, happened["join"], happened["leave"], happened["crash"]>>

(* The chain begins at the owner and names members.                        *)
LEMMA NearIn ==
  ASSUME RingOK
  PROVE  Owner \in Near /\ Near \subseteq members
<1>1. Owner \in Nodes /\ Owner \in members
  BY OwnerIn
<1>2. Chain(Owner) \in Walks(Owner)
  BY <1>1, ChainFacts DEF RingOK
<1>3. /\ Len(Chain(Owner)) \in Nat /\ Len(Chain(Owner)) >= 1 /\ Chain(Owner)[1] = Owner
      /\ \A i \in 2 .. Len(Chain(Owner)) : Chain(Owner)[i] \in members
  BY <1>2 DEF Walks
<1>4. \A i \in 1 .. Len(Chain(Owner)) : i = 1 \/ i \in 2 .. Len(Chain(Owner))
  BY <1>3
<1> QED BY <1>1, <1>3, <1>4 DEF Near, Names

(* The replicas of a call whose primary is the owner are the rest of the   *)
(* chain.                                                                  *)
LEMMA ReplicasOfOwner ==
  ASSUME RingOK, NEW o, o.primary = Owner
  PROVE  /\ Replicas(o) \in Seq(Nodes)
         /\ Names(Replicas(o)) \subseteq Near /\ Near \subseteq {Owner} \cup Names(Replicas(o))
         /\ \A i \in 0 .. Len(Replicas(o)) - 1 :
              /\ SubSeq(Replicas(o), 1, i) \in Seq(Nodes)
              /\ Names(SubSeq(Replicas(o), 1, i)) \subseteq Near
<1> DEFINE w == Chain(Owner)
           r == Replicas(o)
<1>1. Owner \in Nodes
  BY OwnerIn
<1>2. w \in Walks(Owner)
  BY <1>1, ChainFacts DEF RingOK
<1>3. w \in Seq(Nodes) /\ Len(w) \in Nat /\ Len(w) >= 1 /\ w[1] = Owner
  BY <1>2 DEF Walks
<1>4. r = SubSeq(w, 2, Len(w)) /\ Near = Names(w)
  BY DEF Replicas, Near
<1> HIDE DEF w
<1>5. r \in Seq(Nodes)
  BY <1>3, <1>4
<1>6. Len(r) = Len(w) - 1
  <2> DEFINE n == Len(w)
  <2>1. n \in Nat /\ n >= 1 /\ r = SubSeq(w, 2, n)
    BY <1>3, <1>4
  <2> HIDE DEF n
  <2>2. Len(r) = IF 2 <= n THEN n - 2 + 1 ELSE 0
    BY <2>1
  <2>3. Len(r) = n - 1
    BY <2>1, <2>2
  <2> QED BY <2>3 DEF n
<1>7. ASSUME NEW i \in 1 .. Len(r) PROVE r[i] = w[i + 1] /\ i + 1 \in 1 .. Len(w)
  <2>1. i \in 1 .. (Len(w) - 2 + 1)
    BY <1>3, <1>6
  <2>2. r[i] = w[2 + i - 1] /\ 2 + i - 1 = i + 1
    BY <1>3, <1>4, <2>1
  <2> QED BY <1>3, <1>6, <2>2
<1> HIDE DEF r
<1>8. Names(r) \subseteq Near
  BY <1>4, <1>7 DEF Names
<1>9. ASSUME NEW i \in 1 .. Len(w) PROVE w[i] \in {Owner} \cup Names(r)
  <2>1. CASE i = 1
    BY <1>3, <2>1
  <2>2. CASE i # 1
    <3>1. i - 1 \in 1 .. Len(r) /\ (i - 1) + 1 = i
      BY <1>3, <1>6, <2>2
    <3>2. r[i - 1] = w[i]
      BY <1>7, <3>1
    <3> QED BY <3>1, <3>2 DEF Names
  <2> QED BY <2>1, <2>2
<1>10. Near \subseteq {Owner} \cup Names(r)
  BY <1>4, <1>9 DEF Names
<1>11. ASSUME NEW i \in 0 .. Len(r) - 1
       PROVE  SubSeq(r, 1, i) \in Seq(Nodes) /\ Names(SubSeq(r, 1, i)) \subseteq Near
  <2> DEFINE q == SubSeq(r, 1, i)
  <2>1. Len(r) \in Nat /\ i \in Nat /\ i <= Len(r)
    BY <1>3, <1>6
  <2>2. q \in Seq(Nodes) /\ Len(q) = i /\ \A j \in 1 .. i : q[j] = r[j]
    BY <1>5, <2>1
  <2> HIDE DEF q
  <2>3. \A j \in 1 .. Len(q) : q[j] \in Names(r)
    BY <2>1, <2>2 DEF Names
  <2>4. Names(q) \subseteq Near
    BY <1>8, <2>3 DEF Names
  <2> QED BY <2>2, <2>4 DEF q
<1> QED BY <1>5, <1>8, <1>10, <1>11 DEF r

(* While the ring is as it was, so are the owner and its chain.            *)
LEMMA RingAsBefore ==
  ASSUME ListInv, RingUntouched
  PROVE  /\ Owner' = Owner /\ NextMember(Owner)' = NextMember(Owner) /\ Near' = Near
         /\ Untouched' = Untouched /\ RingKept' = RingKept /\ \A o : Sane(o)' = Sane(o)
<1>1. Owner' = Owner /\ NextMember(Owner)' = NextMember(Owner) /\ Chain(Owner)' = Chain(Owner)
  BY RingStays DEF RingUntouched
<1>2. \A o : Sane(o)' = Sane(o)
  BY DEF RingUntouched, Sane
<1>3. Untouched' = Untouched
  BY DEF RingUntouched, Untouched, Total
<1>4. RingKept' = RingKept
  BY DEF RingUntouched, RingKept
<1> QED BY <1>1, <1>2, <1>3, <1>4 DEF Near

(* Where a call may write, and what may become certain by its step.        *)
Writable(n) ==
  IF service = "data" THEN n = Owner \/ n \notin members ELSE Untouched => n \in Near
WritesOnly ==
  UNCHANGED data \/ \E n \in Nodes, v \in Lists : Writable(n) /\ Write(n, v)
Settles(c, w) ==
  \/ Unsettled(w)
  \/ latest' = Unsure
  \/ latest' = latest /\ UNCHANGED store /\ ~Unsettled(op[c])
  \/ IF service = "data" THEN store'[Owner] = latest'
     ELSE members \subseteq up /\ \A m \in Near : store'[m] = latest'

(* A step of one call.                                                     *)
LEMMA CallStepKeepsAgreed ==
  ASSUME KnownReads, NEW c \in Clients, NEW w, Set(c, w), Busy(op[c]), RingUntouched,
         Sane(w), w.alone => op[c].alone,
         Busy(w) => w.target \in {op[c].target, Owner} /\ w.primary \in {op[c].primary, Owner},
         Progress(w)', WritesOnly, Settles(c, w),
         Untouched /\ service # "data" /\ w.step = "copy" => Names(w.todo) \subseteq Near
  PROVE  Agreed'
<1>1. /\ Owner' = Owner /\ NextMember(Owner)' = NextMember(Owner) /\ Near' = Near
      /\ Untouched' = Untouched /\ RingKept' = RingKept /\ \A o : Sane(o)' = Sane(o)
      /\ UNCHANGED <<service, up, members, happened["crash"]>>
  BY RingAsBefore DEF KnownReads, RingUntouched
<1>2. \A d \in Clients : op'[d] = IF d = c THEN w ELSE op[d]
  <2>1. op = [d \in Clients |-> op[d]]
    BY DEF KnownReads, LockInv
  <2> QED BY <2>1 DEF Set
<1>3. \A d \in Clients \ {c} : ~op[d].alone
  BY DEF KnownReads, Agreed, Calling, Undisturbed
<1>4. Owner \in Near /\ Near \subseteq members /\ members \subseteq Nodes /\ DataOK /\ RingOK
  BY NearIn DEF KnownReads, ListInv, RingOK
<1>5. RingKept' /\ RingKept
  BY <1>1 DEF KnownReads, Agreed
<1>6. Calling'
  <2>1. ASSUME NEW d \in Clients PROVE Sane(op[d])' /\ Progress(op[d])'
    <3>1. CASE d = c
      BY <1>1, <1>2, <3>1 DEF Progress, Near
    <3>2. CASE d # c
      <4>1. ~op'[d].alone /\ op'[d] = op[d]
        BY <1>2, <1>3, <3>2
      <4> QED BY <1>1, <4>1 DEF KnownReads, Agreed, Calling, Progress
    <3> QED BY <3>1, <3>2
  <2>2. ASSUME NEW d \in Clients PROVE Undisturbed(d)'
    <3>1. CASE d = c
      <4>1. op'[c] = w /\ \A e \in Clients \ {c} : op'[e] = op[e]
        BY <1>2
      <4>2. Undisturbed(c)
        BY DEF KnownReads, Agreed, Calling
      <4> QED BY <1>1, <3>1, <4>1, <4>2 DEF Undisturbed, Busy
    <3>2. CASE d # c
      BY <1>2, <1>3, <3>2 DEF Undisturbed
    <3> QED BY <3>1, <3>2
  <2> QED BY <2>1, <2>2 DEF Calling
<1>7. Settled' => \/ UNCHANGED <<store, latest>> /\ Settled
                  \/ IF service = "data" THEN store'[Owner] = latest'
                     ELSE members \subseteq up /\ \A m \in Near : store'[m] = latest'
  <2> SUFFICES ASSUME Settled', UNCHANGED <<store, latest>>, ~Unsettled(op[c])
               PROVE  Settled
    BY <1>2 DEF Settles, Settled
  <2>1. ASSUME NEW d \in Clients PROVE ~Unsettled(op[d])
    BY <1>2 DEF Settled, Unsettled
  <2> QED BY <2>1 DEF Settled
<1>8. ASSUME service = "data" PROVE OneCopy'
  <2>1. OneCopy
    BY <1>8 DEF KnownReads, Agreed
  <2>2. \A d \in Clients : Busy(op'[d]) => op'[d].target = Owner \/ op'[d].target \notin members
    BY <1>2, <2>1 DEF OneCopy
  <2>3. ASSUME NEW m \in members \ {Owner} PROVE store'[m] = None
    <3>1. CASE UNCHANGED data
      BY <2>1, <2>3, <3>1 DEF OneCopy, data
    <3>2. ASSUME NEW n \in Nodes, NEW v \in Lists, Writable(n), Write(n, v) PROVE store'[m] = None
      <4>1. n # m
        BY <1>8, <2>3, <3>2 DEF Writable
      <4> QED BY <1>4, <2>1, <2>3, <3>2, <4>1 DEF OneCopy, Write, DataOK
    <3> QED BY <3>1, <3>2 DEF WritesOnly
  <2>4. Settled' => store'[Owner] = latest'
    BY <1>7, <1>8, <2>1 DEF OneCopy
  <2> QED BY <1>1, <2>2, <2>3, <2>4 DEF OneCopy
<1>9. ASSUME service # "data", Untouched PROVE ChainOnly'
  <2>1. ChainOnly
    BY <1>9 DEF KnownReads, Agreed
  <2>2. \A d \in Clients : Busy(op'[d]) => op'[d].target = Owner /\ op'[d].primary = Owner
    BY <1>2, <2>1 DEF ChainOnly
  <2>3. \A d \in Clients : op'[d].step = "copy" => Names(op'[d].todo) \subseteq Near
    BY <1>2, <1>9, <2>1 DEF ChainOnly
  <2>4. ASSUME NEW m \in Nodes \ Near PROVE store'[m] = None /\ disk'[m] = None
    <3>1. CASE UNCHANGED data
      BY <2>1, <2>4, <3>1 DEF ChainOnly, data
    <3>2. ASSUME NEW n \in Nodes, NEW v \in Lists, Writable(n), Write(n, v)
          PROVE  store'[m] = None /\ disk'[m] = None
      <4>1. n # m
        BY <1>9, <2>4, <3>2 DEF Writable
      <4> QED BY <1>4, <2>1, <2>4, <3>2, <4>1 DEF ChainOnly, Write, DataOK
    <3> QED BY <3>1, <3>2 DEF WritesOnly
  <2>5. Settled' => \A m \in Near : store'[m] = latest'
    BY <1>7, <1>9, <2>1 DEF ChainOnly
  <2> QED BY <1>1, <2>2, <2>3, <2>4, <2>5 DEF ChainOnly
<1>10. ASSUME service # "data", ~Untouched PROVE ChainKept'
  <2>1. ChainKept
    BY <1>10 DEF KnownReads, Agreed
  <2> SUFFICES ASSUME Settled' PROVE ChainKept'
    BY DEF ChainKept
  <2>2. CASE UNCHANGED <<store, latest>> /\ Settled
    BY <1>1, <2>1, <2>2 DEF ChainKept, Heir, OneOf
  <2>3. CASE members \subseteq up /\ \A m \in Near : store'[m] = latest'
    BY <1>1, <1>4, <2>3 DEF ChainKept, Heir, OneOf
  <2> QED BY <1>7, <1>10, <2>2, <2>3
<1> QED BY <1>1, <1>5, <1>6, <1>8, <1>9, <1>10 DEF Agreed

(* What the fields of a call that goes on or ends are.                     *)
LEMMA DoneFields ==
  ASSUME NEW o, IsCall(o)
  PROVE  \E w : /\ w = [o EXCEPT !.step = "done", !.todo = << >>] /\ w.step = "done"
                /\ w.kind = o.kind /\ w.value = o.value /\ w.alone = o.alone
                /\ w.target = o.target /\ w.primary = o.primary
<1> DEFINE e == << >>
           w == [o EXCEPT !.step = "done", !.todo = e]
<1> HIDE DEF e
<1>1. /\ w.step = "done" /\ w.kind = o.kind /\ w.value = o.value /\ w.alone = o.alone
      /\ w.target = o.target /\ w.primary = o.primary
  BY DEF IsCall, Fields
<1> HIDE DEF w
<1>2. w = [o EXCEPT !.step = "done", !.todo = << >>]
  BY DEF w, e
<1> QED BY <1>1, <1>2

(* A call that has read ends, or goes on to write.                         *)
LEMMA AfterReadKeepsAgreed ==
  ASSUME KnownReads, NEW c \in Clients, NEW o, NEW v, IsCall(o), AfterRead(c, o, v),
         op[c].step \in {"read", "replicas"}, o.kind = op[c].kind, o.alone => op[c].alone,
         o.target = op[c].target, o.primary = op[c].primary,
         UNCHANGED data, RingUntouched,
         o.kind = "get" /\ o.alone => latest \in {v, Unsure}
  PROVE  Agreed'
<1>1. /\ Busy(op[c]) /\ ~Unsettled(op[c]) /\ WritesOnly /\ UNCHANGED store
      /\ Sane(op[c]) /\ UNCHANGED service
  BY DEF Busy, Unsettled, WritesOnly, data, KnownReads, Agreed, Calling, RingUntouched
<1>2. CASE Writes(o, v) = {}
  <2>1. PICK x : x = [o EXCEPT !.value = v]
    OBVIOUS
  <2>2. /\ IsCall(x) /\ x.kind = o.kind /\ x.value = v /\ x.alone = o.alone
        /\ x.target = o.target /\ x.primary = o.primary
    BY <2>1 DEF IsCall, Fields
  <2>3. PICK w : /\ w = [x EXCEPT !.step = "done", !.todo = << >>] /\ w.step = "done"
                 /\ w.kind = x.kind /\ w.value = x.value /\ w.alone = x.alone
                 /\ w.target = x.target /\ w.primary = x.primary
    BY <2>2, DoneFields
  <2>4. Set(c, w) /\ latest' = latest
    BY <1>2, <2>1, <2>3 DEF AfterRead, Finish
  <2>5. Sane(w) /\ Settles(c, w) /\ Progress(w)'
    BY <1>1, <2>2, <2>3, <2>4 DEF Sane, Settles, Progress
  <2> QED BY <1>1, <2>2, <2>3, <2>4, <2>5, CallStepKeepsAgreed
<1>3. ASSUME NEW w \in Writes(o, v), Go(c, w) PROVE Agreed'
  <2>1. /\ w.kind = o.kind /\ w.alone = o.alone
        /\ w.target \in {o.target, Owner} /\ w.primary \in {o.primary, Owner}
        /\ w.step \in {"put", "del"} /\ (w.step = "del" => w.value = None) /\ w.kind # "get"
    <3>1. CASE o.kind = "register"
      BY <3>1 DEF Writes, IsCall, Fields
    <3>2. CASE o.kind = "update"
      BY <3>2 DEF Writes, IsCall, Fields
    <3>3. CASE o.kind = "deregister"
      BY <3>3 DEF Writes, IsCall, Fields
    <3>4. CASE o.kind = "purge"
      BY <3>4 DEF Writes, IsCall, Fields
    <3>5. CASE o.kind = "remove"
      BY <3>5 DEF Writes, IsCall, Fields
    <3> QED BY <3>1, <3>2, <3>3, <3>4, <3>5 DEF Writes
  <2>2. Set(c, w) /\ latest' = latest
    BY <1>3 DEF Go
  <2>3. Sane(w) /\ Settles(c, w) /\ Progress(w)'
    BY <1>1, <2>1, <2>2 DEF Sane, Settles, Progress
  <2> QED BY <1>1, <2>1, <2>2, <2>3, CallStepKeepsAgreed
<1> QED BY <1>2, <1>3 DEF AfterRead

(* What a read that nothing disturbs can find.                             *)
LEMMA AloneIsSettled ==
  ASSUME KnownReads, NEW c \in Clients, op[c].alone, op[c].step \in {"read", "replicas"},
         latest # Unsure
  PROVE  Settled
  BY DEF KnownReads, Agreed, Calling, Undisturbed, Settled, Unsettled, Busy

(* What a read that is alone finds in the chain.                           *)
LEMMA FoundIsLatest ==
  ASSUME KnownReads, NEW c \in Clients, op[c].alone, op[c].step \in {"read", "replicas"},
         latest # Unsure
  PROVE  /\ service = "data" => store[Owner] = latest
         /\ service # "data" => /\ \A m \in Near : OneOf(m)
                                /\ (\A m \in Near : store[m] = None) => latest = None
<1>1. Settled /\ members \subseteq up /\ RingOK
  BY AloneIsSettled DEF KnownReads, Agreed, Calling, Undisturbed, Busy, ListInv
<1>2. Owner \in Near /\ Near \subseteq members
  BY <1>1, NearIn
<1>3. CASE service = "data"
  BY <1>1, <1>3 DEF KnownReads, Agreed, OneCopy
<1>4. CASE service # "data" /\ Untouched
  BY <1>1, <1>2, <1>4 DEF KnownReads, Agreed, ChainOnly, OneOf
<1>5. CASE service # "data" /\ ~Untouched
  <2>1. ChainKept
    BY <1>5 DEF KnownReads, Agreed
  <2>2. NextMember(Owner) \in Near
    BY <1>1, <1>2, <1>5, NextIsReplica DEF KnownReads, Covered, Near
  <2>3. latest # None => Heir
    BY <1>1, <2>1 DEF ChainKept
  <2>4. (\A m \in Near : store[m] = None) => latest = None
    BY <1>1, <1>2, <2>2, <2>3 DEF Heir
  <2> QED BY <1>1, <1>5, <2>1, <2>4 DEF ChainKept
<1> QED BY <1>3, <1>4, <1>5

(* A call that fails changes nothing of the ring.                          *)
LEMMA FaultOnly ==
  ASSUME ListInv, NEW o, NEW n, NEW ok \in BOOLEAN, Reach(o, n, ok) \/ Trouble("fault")
  PROVE  /\ happened'["join"] = happened["join"] /\ happened'["leave"] = happened["leave"]
         /\ happened'["crash"] = happened["crash"]
<1> {"fault", "join", "leave", "crash"} \subseteq Troubles
  BY DEF Troubles
<1> QED BY DEF ListInv, Reach, Trouble

(* The owner is asked, or for /data the owner of when the call was made.   *)
LEMMA ReadPrimaryKeepsAgreed ==
  ASSUME KnownReads, NEW c \in Clients, NEW ok \in BOOLEAN, ReadPrimary(c, ok)
  PROVE  Agreed'
<1>1. PICK o : o = op[c]
  OBVIOUS
<1>2. PICK v : v = IF ok THEN store[o.target] ELSE None
  OBVIOUS
<1>3. PICK heard : heard = [o EXCEPT !.alone = @ /\ ok]
  OBVIOUS
<1>4. /\ IsCall(o) /\ o.step = "read" /\ UNCHANGED data /\ RingUntouched /\ UNCHANGED store
      /\ Sane(o) /\ Undisturbed(c) /\ Busy(o) /\ ~Unsettled(o) /\ WritesOnly /\ RingOK
  BY <1>1, FaultOnly DEF ReadPrimary, KnownReads, LockInv, ListInv, RingUntouched, data, ring,
     Agreed, Calling, Busy, Unsettled, WritesOnly
<1>5. /\ IsCall(heard) /\ heard.kind = o.kind /\ heard.alone = (o.alone /\ ok) /\ heard.step = o.step
      /\ heard.target = o.target /\ heard.primary = o.primary
  BY <1>3, <1>4 DEF IsCall, Fields
<1>6. o.alone => o.target = Owner /\ o.primary = Owner
  BY <1>1, <1>4 DEF Undisturbed
<1>7. CASE Go(c, [heard EXCEPT !.tries = @ + 1, !.target = Owner]) /\ service = "data"
  <2>1. PICK w : w = [heard EXCEPT !.tries = @ + 1, !.target = Owner]
    OBVIOUS
  <2>2. /\ w.kind = heard.kind /\ w.alone = heard.alone /\ w.step = heard.step
        /\ w.target = Owner /\ w.primary = heard.primary
    BY <1>5, <2>1 DEF IsCall, Fields
  <2>3. Set(c, w) /\ latest' = latest
    BY <1>7, <2>1 DEF Go
  <2>4. Sane(w) /\ Settles(c, w) /\ Progress(w)'
    BY <1>1, <1>4, <1>5, <1>7, <2>2, <2>3 DEF Sane, Settles, Progress
  <2> QED BY <1>1, <1>4, <1>5, <2>2, <2>3, <2>4, CallStepKeepsAgreed
<1>8. CASE /\ Go(c, [heard EXCEPT !.step = "replicas", !.todo = Replicas(o)])
           /\ v = None /\ service # "data" /\ o.kind # "remove"
  <2>1. PICK r : r = Replicas(o)
    OBVIOUS
  <2>2. PICK w : w = [heard EXCEPT !.step = "replicas", !.todo = r]
    OBVIOUS
  <2>3. /\ w.kind = heard.kind /\ w.alone = heard.alone /\ w.step = "replicas"
        /\ w.target = heard.target /\ w.primary = heard.primary /\ w.todo = r
    BY <1>5, <2>2 DEF IsCall, Fields
  <2>4. Set(c, w) /\ latest' = latest
    BY <1>8, <2>1, <2>2 DEF Go
  <2>5. Near' = Near /\ UNCHANGED service
    BY <1>4, RingAsBefore DEF KnownReads, RingUntouched
  <2>6. ASSUME w.alone
        PROVE  Names(r) \subseteq Near /\ \A m \in Near : store[m] = None \/ m \in Names(r)
    <3>1. o.alone /\ ok /\ o.primary = Owner /\ store[Owner] = None
      BY <1>2, <1>5, <1>6, <1>8, <2>3, <2>6
    <3> QED BY <1>4, <2>1, <3>1, ReplicasOfOwner
  <2>7. Sane(w)
    <3>1. o.kind \notin {"append", "drop", "put", "delete"} \/ TRUE
      OBVIOUS
    <3> QED BY <1>4, <1>5, <1>8, <2>3 DEF Sane
  <2>8. Settles(c, w) /\ Progress(w)'
    BY <1>1, <1>4, <2>3, <2>4, <2>5, <2>6 DEF Settles, Progress
  <2> QED BY <1>1, <1>4, <1>5, <2>3, <2>4, <2>7, <2>8, CallStepKeepsAgreed
<1>9. CASE AfterRead(c, heard, v) /\ (service = "data" \/ v # None \/ o.kind = "remove")
  <2>1. ASSUME heard.kind = "get", heard.alone, latest # Unsure PROVE v = latest
    <3>1. o.alone /\ ok /\ v = store[Owner] /\ o.kind = "get"
      BY <1>2, <1>5, <1>6, <2>1
    <3>2. Owner \in Near
      BY <1>4, NearIn
    <3> QED BY <1>1, <1>4, <1>9, <2>1, <3>1, <3>2, FoundIsLatest DEF OneOf
  <2> QED BY <1>1, <1>4, <1>5, <1>9, <2>1, AfterReadKeepsAgreed
<1> QED BY <1>1, <1>2, <1>3, <1>7, <1>8, <1>9 DEF ReadPrimary

(* The replicas of an owner that has nothing are asked one by one.         *)
LEMMA ReadReplicaKeepsAgreed ==
  ASSUME KnownReads, NEW c \in Clients, NEW ok \in BOOLEAN, ReadReplica(c, ok)
  PROVE  Agreed'
<1>1. PICK o : o = op[c]
  OBVIOUS
<1>2. PICK v : v = IF ok THEN store[Head(o.todo)] ELSE None
  OBVIOUS
<1>3. PICK t : t = Tail(o.todo)
  OBVIOUS
<1>4. PICK rest : rest = [o EXCEPT !.todo = t, !.alone = @ /\ ok]
  OBVIOUS
<1>5. /\ IsCall(o) /\ o.step = "replicas" /\ UNCHANGED data /\ RingUntouched /\ UNCHANGED store
      /\ Sane(o) /\ Undisturbed(c) /\ Progress(o) /\ Busy(o) /\ ~Unsettled(o) /\ WritesOnly /\ RingOK
      /\ o.todo # << >> /\ o.todo \in Seq(Nodes)
  BY <1>1, FaultOnly DEF ReadReplica, KnownReads, LockInv, ListInv, RingUntouched, data, ring,
     Agreed, Calling, Busy, Unsettled, WritesOnly, Calls
<1>6. /\ IsCall(rest) /\ rest.kind = o.kind /\ rest.alone = (o.alone /\ ok) /\ rest.step = o.step
      /\ rest.target = o.target /\ rest.primary = o.primary /\ rest.todo = t
  BY <1>4, <1>5 DEF IsCall, Fields
<1>7. Names(o.todo) = {Head(o.todo)} \cup Names(t)
  BY <1>3, <1>5, NamesOfTail
<1>8. CASE Go(c, rest) /\ v = None
  <2>1. Set(c, rest) /\ latest' = latest
    BY <1>8 DEF Go
  <2>2. Near' = Near
    BY <1>5, RingAsBefore DEF KnownReads
  <2>3. rest.alone => Names(t) \subseteq Near /\ \A m \in Near : store[m] = None \/ m \in Names(t)
    BY <1>2, <1>5, <1>6, <1>7, <1>8 DEF Progress
  <2>4. Sane(rest) /\ Settles(c, rest) /\ Progress(rest)'
    BY <1>1, <1>5, <1>6, <2>1, <2>2, <2>3 DEF Sane, Settles, Progress
  <2> QED BY <1>1, <1>5, <1>6, <2>1, <2>4, CallStepKeepsAgreed
<1>9. CASE AfterRead(c, rest, v) /\ (v # None \/ Len(o.todo) = 1)
  <2>1. ASSUME rest.kind = "get", rest.alone, latest # Unsure PROVE v = latest
    <3>1. o.alone /\ ok /\ v = store[Head(o.todo)] /\ Head(o.todo) \in Near
          /\ \A m \in Near : store[m] = None \/ m \in Names(o.todo)
      BY <1>2, <1>5, <1>6, <1>7, <2>1 DEF Progress
    <3>2. service # "data"
      BY <1>5 DEF Sane
    <3>3. /\ \A m \in Near : OneOf(m)
          /\ (\A m \in Near : store[m] = None) => latest = None
      BY <1>1, <1>5, <2>1, <3>1, <3>2, FoundIsLatest
    <3>4. ASSUME Len(o.todo) = 1, v = None PROVE latest = None
      <4>1. Names(t) = {}
        BY <1>3, <1>5, <3>4 DEF Names
      <4> QED BY <1>7, <3>1, <3>3, <3>4, <4>1
    <3> QED BY <1>9, <3>1, <3>3, <3>4 DEF OneOf
  <2> QED BY <1>1, <1>5, <1>6, <1>9, <2>1, AfterReadKeepsAgreed
<1> QED BY <1>1, <1>2, <1>3, <1>4, <1>8, <1>9 DEF ReadReplica

(* The chain is the owner alone: nothing is found.                         *)
LEMMA NoReplicaKeepsAgreed ==
  ASSUME KnownReads, NEW c \in Clients, NoReplica(c)
  PROVE  Agreed'
<1>1. PICK o : o = op[c]
  OBVIOUS
<1>2. /\ IsCall(o) /\ o.step = "replicas" /\ UNCHANGED data /\ RingUntouched
      /\ Sane(o) /\ Progress(o) /\ o.todo = << >> /\ AfterRead(c, o, None)
  BY <1>1 DEF NoReplica, KnownReads, LockInv, RingUntouched, ring, Agreed, Calling
<1>3. ASSUME o.kind = "get", o.alone, latest # Unsure PROVE latest = None
  <2>1. Names(o.todo) = {} /\ service # "data"
    BY <1>2 DEF Names, Sane
  <2>2. \A m \in Near : store[m] = None
    BY <1>2, <1>3, <2>1 DEF Progress
  <2> QED BY <1>1, <1>2, <1>3, <2>1, <2>2, FoundIsLatest
<1> QED BY <1>1, <1>2, <1>3, AfterReadKeepsAgreed

(* What is known of a call that is at work.                                *)
LEMMA AtWork ==
  ASSUME KnownReads, NEW c \in Clients, NEW o, o = op[c], Busy(o)
  PROVE  /\ IsCall(o) /\ Placed(o) /\ Sane(o) /\ Undisturbed(c) /\ Progress(o) /\ RingOK /\ DataOK
         /\ o.value \in Lists /\ o.target \in Nodes /\ o.todo \in Seq(Nodes) /\ o.missed \in Nat
         /\ Writable(o.target)
         /\ o.alone => members \subseteq up /\ o.target = Owner /\ o.primary = Owner
<1>1. /\ IsCall(o) /\ Placed(o) /\ Sane(o) /\ Undisturbed(c) /\ Progress(o) /\ RingOK /\ DataOK
      /\ o \in Calls
  BY DEF KnownReads, LockInv, ListInv, Agreed, Calling
<1>2. Owner \in Near
  BY <1>1, NearIn
<1>3. Writable(o.target)
  BY <1>2 DEF Writable, KnownReads, Agreed, OneCopy, ChainOnly
<1>4. o.alone => members \subseteq up /\ o.target = Owner /\ o.primary = Owner
  BY <1>1 DEF Undisturbed
<1> QED BY <1>1, <1>3, <1>4 DEF Calls

(* A write to where the call may write.                                    *)
LEMMA StoreOnly ==
  ASSUME NEW n \in Nodes, NEW v \in Lists, NEW ok \in BOOLEAN, Store(n, v, ok), Writable(n)
  PROVE  WritesOnly
  BY DEF Store, WritesOnly

(* An answered write is in the store.                                      *)
LEMMA WrittenThere ==
  ASSUME DataOK, NEW n \in Nodes, NEW v, Store(n, v, TRUE)
  PROVE  store'[n] = v
  BY DEF Store, Write, DataOK

(* The primary write: it is replicated next, or final, or made again.      *)
LEMMA PutPrimaryKeepsAgreed ==
  ASSUME KnownReads, NEW c \in Clients, NEW ok \in BOOLEAN, PutPrimary(c, ok)
  PROVE  Agreed'
<1>1. PICK o : o = op[c]
  OBVIOUS
<1>2. /\ o.step = "put" /\ Busy(o) /\ RingUntouched /\ Store(o.target, o.value, ok) /\ UNCHANGED service
  BY <1>1, FaultOnly DEF PutPrimary, KnownReads, RingUntouched, ring, Busy
<1>3. /\ IsCall(o) /\ Sane(o) /\ RingOK /\ DataOK /\ o.value \in Lists /\ o.target \in Nodes
      /\ Writable(o.target) /\ (o.alone => o.target = Owner)
  BY <1>1, <1>2, AtWork
<1>4. WritesOnly /\ o.kind # "get" /\ Owner' = Owner
  BY <1>2, <1>3, StoreOnly, RingAsBefore DEF Sane, KnownReads
<1>5. ok /\ o.alone => store'[Owner] = o.value
  BY <1>2, <1>3, WrittenThere
<1> DEFINE single == o.kind = "remove"
<1>6. CASE /\ ok /\ (single \/ service = "data")
           /\ Finish(c, o, IF o.alone /\ ~single THEN o.value ELSE Unsure)
  <2>1. PICK w : /\ w = [o EXCEPT !.step = "done", !.todo = << >>] /\ w.step = "done"
                 /\ w.kind = o.kind /\ w.value = o.value /\ w.alone = o.alone
                 /\ w.target = o.target /\ w.primary = o.primary
    BY <1>3, DoneFields
  <2>2. Set(c, w) /\ latest' = IF o.alone /\ ~single THEN o.value ELSE Unsure
    BY <1>6, <2>1 DEF Finish
  <2>3. Sane(w) /\ Progress(w)' /\ Settles(c, w)
    BY <1>3, <1>4, <1>5, <1>6, <2>1, <2>2 DEF Sane, Progress, Settles
  <2> QED BY <1>1, <1>2, <1>4, <2>1, <2>2, <2>3, CallStepKeepsAgreed
<1>7. CASE ok /\ ~single /\ service # "data" /\ Go(c, [o EXCEPT !.step = "chain", !.tries = 0])
  <2>1. PICK w : w = [o EXCEPT !.step = "chain", !.tries = 0]
    OBVIOUS
  <2>2. /\ w.step = "chain" /\ w.kind = o.kind /\ w.value = o.value /\ w.alone = o.alone
        /\ w.target = o.target /\ w.primary = o.primary
    BY <1>3, <2>1 DEF IsCall, Fields
  <2>3. Set(c, w)
    BY <1>7, <2>1 DEF Go
  <2>4. Sane(w) /\ Progress(w)' /\ Settles(c, w)
    BY <1>3, <1>4, <1>5, <1>7, <2>2 DEF Sane, Progress, Settles, Unsettled
  <2> QED BY <1>1, <1>2, <1>4, <2>2, <2>3, <2>4, CallStepKeepsAgreed
<1>8. CASE Finish(c, [o EXCEPT !.alone = FALSE], Unsure)
  <2>1. PICK x : x = [o EXCEPT !.alone = FALSE]
    OBVIOUS
  <2>2. /\ IsCall(x) /\ x.kind = o.kind /\ ~x.alone /\ x.target = o.target /\ x.primary = o.primary
    BY <1>3, <2>1 DEF IsCall, Fields
  <2>3. PICK w : /\ w = [x EXCEPT !.step = "done", !.todo = << >>] /\ w.step = "done"
                 /\ w.kind = x.kind /\ w.value = x.value /\ w.alone = x.alone
                 /\ w.target = x.target /\ w.primary = x.primary
    BY <2>2, DoneFields
  <2>4. Set(c, w) /\ latest' = Unsure
    BY <1>8, <2>1, <2>3 DEF Finish
  <2>5. Sane(w) /\ Progress(w)' /\ Settles(c, w)
    BY <1>3, <2>2, <2>3, <2>4 DEF Sane, Progress, Settles
  <2> QED BY <1>1, <1>2, <1>4, <2>2, <2>3, <2>4, <2>5, CallStepKeepsAgreed
<1>9. CASE Go(c, [o EXCEPT !.tries = @ + 1, !.target = Owner, !.alone = FALSE])
  <2>1. PICK w : w = [o EXCEPT !.tries = @ + 1, !.target = Owner, !.alone = FALSE]
    OBVIOUS
  <2>2. /\ w.step = "put" /\ w.kind = o.kind /\ w.value = o.value /\ ~w.alone
        /\ w.target = Owner /\ w.primary = o.primary
    BY <1>2, <1>3, <2>1 DEF IsCall, Fields
  <2>3. Set(c, w)
    BY <1>9, <2>1 DEF Go
  <2>4. Sane(w) /\ Progress(w)' /\ Settles(c, w)
    BY <1>2, <1>3, <1>4, <2>2 DEF Sane, Progress, Settles, Unsettled
  <2> QED BY <1>1, <1>2, <1>4, <2>2, <2>3, <2>4, CallStepKeepsAgreed
<1> QED BY <1>1, <1>6, <1>7, <1>8, <1>9 DEF PutPrimary

(* The same for the delete, which /del repeats and the others ignore.      *)
LEMMA DeletePrimaryKeepsAgreed ==
  ASSUME KnownReads, NEW c \in Clients, NEW ok \in BOOLEAN, DeletePrimary(c, ok)
  PROVE  Agreed'
<1>1. PICK o : o = op[c]
  OBVIOUS
<1>2. PICK heard : heard = [o EXCEPT !.alone = @ /\ ok]
  OBVIOUS
<1>3. /\ o.step = "del" /\ Busy(o) /\ RingUntouched /\ Store(o.target, None, ok) /\ UNCHANGED service
  BY <1>1, FaultOnly DEF DeletePrimary, KnownReads, RingUntouched, ring, Busy
<1>4. /\ IsCall(o) /\ Sane(o) /\ RingOK /\ DataOK /\ o.target \in Nodes
      /\ Writable(o.target) /\ (o.alone => o.target = Owner)
  BY <1>1, <1>3, AtWork
<1>5. WritesOnly /\ o.kind # "get" /\ Owner' = Owner /\ o.value = None
  BY <1>3, <1>4, StoreOnly, NoneIsNoRecord, RingAsBefore DEF Sane, KnownReads
<1>6. ok /\ o.alone => store'[Owner] = None
  BY <1>3, <1>4, WrittenThere
<1>7. /\ IsCall(heard) /\ heard.kind = o.kind /\ heard.alone = (o.alone /\ ok) /\ heard.step = "del"
      /\ heard.target = o.target /\ heard.primary = o.primary /\ heard.value = None
  BY <1>2, <1>3, <1>4, <1>5 DEF IsCall, Fields
<1>8. CASE ~ok /\ Go(c, [heard EXCEPT !.tries = @ + 1, !.target = Owner])
  <2>1. PICK w : w = [heard EXCEPT !.tries = @ + 1, !.target = Owner]
    OBVIOUS
  <2>2. /\ w.step = "del" /\ w.kind = o.kind /\ w.value = None /\ ~w.alone
        /\ w.target = Owner /\ w.primary = o.primary
    BY <1>7, <1>8, <2>1 DEF IsCall, Fields
  <2>3. Set(c, w)
    BY <1>8, <2>1 DEF Go
  <2>4. Sane(w) /\ Progress(w)' /\ Settles(c, w)
    BY <1>3, <1>4, <1>5, <2>2 DEF Sane, Progress, Settles, Unsettled
  <2> QED BY <1>1, <1>3, <1>5, <2>2, <2>3, <2>4, CallStepKeepsAgreed
<1>9. CASE /\ service = "data" \/ ~ok
           /\ Finish(c, heard, IF heard.alone THEN None ELSE Unsure)
  <2>1. PICK w : /\ w = [heard EXCEPT !.step = "done", !.todo = << >>] /\ w.step = "done"
                 /\ w.kind = heard.kind /\ w.value = heard.value /\ w.alone = heard.alone
                 /\ w.target = heard.target /\ w.primary = heard.primary
    BY <1>7, DoneFields
  <2>2. Set(c, w) /\ latest' = IF heard.alone THEN None ELSE Unsure
    BY <1>9, <2>1 DEF Finish
  <2>3. Sane(w) /\ Progress(w)' /\ Settles(c, w)
    BY <1>4, <1>5, <1>6, <1>7, <1>9, <2>1, <2>2 DEF Sane, Progress, Settles
  <2> QED BY <1>1, <1>3, <1>5, <1>7, <2>1, <2>2, <2>3, CallStepKeepsAgreed
<1>10. CASE service # "data" /\ Go(c, [heard EXCEPT !.step = "chain", !.tries = 0])
  <2>1. PICK w : w = [heard EXCEPT !.step = "chain", !.tries = 0]
    OBVIOUS
  <2>2. /\ w.step = "chain" /\ w.kind = o.kind /\ w.value = None /\ w.alone = (o.alone /\ ok)
        /\ w.target = o.target /\ w.primary = o.primary
    BY <1>7, <2>1 DEF IsCall, Fields
  <2>3. Set(c, w)
    BY <1>10, <2>1 DEF Go
  <2>4. Sane(w) /\ Progress(w)' /\ Settles(c, w)
    BY <1>4, <1>5, <1>6, <1>10, <2>2 DEF Sane, Progress, Settles, Unsettled
  <2> QED BY <1>1, <1>3, <1>5, <2>2, <2>3, <2>4, CallStepKeepsAgreed
<1> QED BY <1>1, <1>2, <1>8, <1>9, <1>10 DEF DeletePrimary

(* An append that failed at its caller is made again, or given up.         *)
LEMMA AgainFields ==
  ASSUME NEW o, IsCall(o)
  PROVE  \E w : /\ w = [AppendAgain(o) EXCEPT !.alone = FALSE] /\ w.step \in {"lock", "done"}
                /\ w.kind = o.kind /\ ~w.alone
                /\ w.target \in {o.target, Owner} /\ w.primary = o.primary
<1>1. PICK x : x = AppendAgain(o)
  OBVIOUS
<1>2. PICK k : k = o.tries + 1
  OBVIOUS
<1> DEFINE e == << >>
<1> HIDE DEF e
<1>3. \/ x = [o EXCEPT !.step = "done", !.todo = e]
      \/ x = [o EXCEPT !.step = "lock", !.tries = k, !.target = Owner, !.todo = e]
  BY <1>1, <1>2 DEF AppendAgain, e
<1>4. /\ IsCall(x) /\ x.step \in {"lock", "done"} /\ x.kind = o.kind
      /\ x.target \in {o.target, Owner} /\ x.primary = o.primary
  BY <1>3 DEF IsCall, Fields
<1>5. PICK w : w = [x EXCEPT !.alone = FALSE]
  OBVIOUS
<1>6. /\ w.step = x.step /\ w.kind = x.kind /\ ~w.alone /\ w.target = x.target /\ w.primary = x.primary
  BY <1>4, <1>5 DEF IsCall, Fields
<1> QED BY <1>1, <1>4, <1>5, <1>6

(* An append that is made again leaves nobody certain.                     *)
LEMMA AppendsKeepAgreed ==
  ASSUME KnownReads, NEW c \in Clients, AppendFails(c) \/ AnswerLost(c)
  PROVE  Agreed'
<1>1. PICK o : o = op[c]
  OBVIOUS
<1>2. /\ Busy(o) /\ RingUntouched /\ UNCHANGED data /\ latest' = Unsure
      /\ Set(c, [AppendAgain(o) EXCEPT !.alone = FALSE]) /\ o.kind = "append"
  BY <1>1, FaultOnly DEF AppendFails, AnswerLost, KnownReads, RingUntouched, ring, Busy
<1>3. IsCall(o) /\ Sane(o) /\ service # "data"
  BY <1>1, <1>2, AtWork DEF Sane, KindsOf
<1>4. PICK w : /\ w = [AppendAgain(o) EXCEPT !.alone = FALSE] /\ w.step \in {"lock", "done"}
               /\ w.kind = o.kind /\ ~w.alone
               /\ w.target \in {o.target, Owner} /\ w.primary = o.primary
  BY <1>3, AgainFields
<1>5. Set(c, w) /\ Sane(w) /\ Progress(w)' /\ Settles(c, w) /\ WritesOnly
  BY <1>2, <1>3, <1>4 DEF Sane, Progress, Settles, WritesOnly
<1> QED BY <1>1, <1>2, <1>4, <1>5, CallStepKeepsAgreed

(* A call takes the lock, or has nothing to do.                            *)
LEMMA AcquireKeepsAgreed ==
  ASSUME KnownReads, NEW c \in Clients, Acquire(c)
  PROVE  Agreed'
<1>1. PICK o : o = op[c]
  OBVIOUS
<1>2. o.step = "lock" /\ Busy(o) /\ RingUntouched /\ UNCHANGED data /\ UNCHANGED store /\ ~Unsettled(o)
  BY <1>1 DEF Acquire, RingUntouched, ring, Busy, Unsettled, data
<1>3. IsCall(o) /\ Sane(o) /\ Placed(o) /\ service # "data" /\ UNCHANGED service /\ WritesOnly
  BY <1>1, <1>2, AtWork DEF Sane, WritesOnly, RingUntouched
<1>4. o.kind \in {"append", "drop", "remove"}
  BY <1>2, <1>3 DEF Placed
<1>5. CASE Finish(c, o, latest)
  <2>1. PICK w : /\ w = [o EXCEPT !.step = "done", !.todo = << >>] /\ w.step = "done"
                 /\ w.kind = o.kind /\ w.value = o.value /\ w.alone = o.alone
                 /\ w.target = o.target /\ w.primary = o.primary
    BY <1>3, DoneFields
  <2>2. Set(c, w) /\ latest' = latest
    BY <1>5, <2>1 DEF Finish
  <2>3. Sane(w) /\ Progress(w)' /\ Settles(c, w)
    BY <1>1, <1>2, <1>3, <1>4, <2>1, <2>2 DEF Sane, Progress, Settles
  <2> QED BY <1>1, <1>2, <1>3, <2>1, <2>2, <2>3, CallStepKeepsAgreed
<1>6. CASE ~Finish(c, o, latest)
  <2>1. PICK s : s = IF o.kind = "drop" THEN "del" ELSE "locked"
    OBVIOUS
  <2>2. PICK p : p = IF o.target = o.home THEN o.primary ELSE Owner
    OBVIOUS
  <2>3. PICK r : r = CASE o.kind = "append" -> Appended(store[LockNode(o)], o.item)
                       [] o.kind = "remove" -> Without(store[LockNode(o)], o.item)
                       [] OTHER -> None
    OBVIOUS
  <2>4. PICK w : w = [o EXCEPT !.step = s, !.primary = p, !.value = r]
    OBVIOUS
  <2>5. Set(c, w) /\ latest' = latest
    <3>1. Set(c, [o EXCEPT !.step = s, !.primary = p, !.value = r]) /\ latest' = latest
      BY <1>1, <1>6, <2>1, <2>2, <2>3 DEF Acquire
    <3> QED BY <2>4, <3>1
  <2>6. /\ w.step = s /\ w.primary = p /\ w.value = r
        /\ w.kind = o.kind /\ w.alone = o.alone /\ w.target = o.target
    BY <1>3, <2>4 DEF IsCall, Fields
  <2>7. s = "del" => r = None
    BY <1>4, <2>1, <2>3
  <2>8. Sane(w) /\ Progress(w)' /\ Settles(c, w)
    BY <1>1, <1>2, <1>3, <1>4, <2>1, <2>5, <2>6, <2>7 DEF Sane, Progress, Settles
  <2> QED BY <1>1, <1>2, <1>3, <2>1, <2>2, <2>5, <2>6, <2>8, CallStepKeepsAgreed
<1> QED BY <1>5, <1>6

(* The write under the lock is replicated next.                            *)
LEMMA PutLockedKeepsAgreed ==
  ASSUME KnownReads, NEW c \in Clients, PutLocked(c)
  PROVE  Agreed'
<1>1. PICK o : o = op[c]
  OBVIOUS
<1>2. o.step = "locked" /\ Busy(o) /\ RingUntouched /\ Write(o.target, o.value)
  BY <1>1 DEF PutLocked, RingUntouched, ring, Busy
<1>3. /\ IsCall(o) /\ Sane(o) /\ service # "data" /\ RingOK /\ DataOK /\ o.value \in Lists
      /\ o.target \in Nodes /\ Writable(o.target) /\ (o.alone => o.target = Owner) /\ o.kind # "get"
  BY <1>1, <1>2, AtWork DEF Sane
<1>4. WritesOnly /\ Owner' = Owner /\ UNCHANGED service
  BY <1>2, <1>3, RingAsBefore DEF WritesOnly, KnownReads, RingUntouched
<1>5. PICK w : w = [o EXCEPT !.step = "chain"]
  OBVIOUS
<1>6. Set(c, w)
  BY <1>1, <1>5 DEF PutLocked, Go
<1>7. /\ w.step = "chain" /\ w.kind = o.kind /\ w.value = o.value /\ w.alone = o.alone
      /\ w.target = o.target /\ w.primary = o.primary
  BY <1>3, <1>5 DEF IsCall, Fields
<1>8. o.alone => store'[Owner] = o.value
  BY <1>2, <1>3 DEF Write, DataOK
<1>9. Sane(w) /\ Progress(w)' /\ Settles(c, w)
  BY <1>3, <1>4, <1>7, <1>8 DEF Sane, Progress, Settles, Unsettled
<1> QED BY <1>1, <1>2, <1>4, <1>6, <1>7, <1>9, CallStepKeepsAgreed

(* The replicas are looked up, all of them or the first few.               *)
LEMMA WalkChainKeepsAgreed ==
  ASSUME KnownReads, NEW c \in Clients, WalkChain(c)
  PROVE  Agreed'
<1>1. PICK o : o = op[c]
  OBVIOUS
<1>2. o.step = "chain" /\ Busy(o) /\ RingUntouched /\ UNCHANGED <<data, store>>
  BY <1>1, FaultOnly DEF WalkChain, RingUntouched, ring, data, Busy, KnownReads
<1>3. /\ IsCall(o) /\ Sane(o) /\ service # "data" /\ RingOK /\ o.kind # "get" /\ Progress(o)
      /\ o.missed \in Nat /\ (o.alone => o.primary = Owner)
  BY <1>1, <1>2, AtWork DEF Sane
<1>4. WritesOnly /\ Owner' = Owner /\ Near' = Near /\ UNCHANGED service
  BY <1>2, <1>3, RingAsBefore DEF WritesOnly, KnownReads, RingUntouched
<1>5. Untouched => o.primary = Owner
  BY <1>1, <1>2, <1>3 DEF KnownReads, Agreed, ChainOnly
<1>6. ASSUME NEW t, NEW k, Set(c, [o EXCEPT !.step = "copy", !.todo = t, !.missed = k]),
             Untouched => Names(t) \subseteq Near,
             o.alone /\ k = 0 => Near \subseteq {Owner} \cup Names(t)
      PROVE  Agreed'
  <2>1. PICK w : w = [o EXCEPT !.step = "copy", !.todo = t, !.missed = k]
    OBVIOUS
  <2>2. /\ w.step = "copy" /\ w.kind = o.kind /\ w.value = o.value /\ w.alone = o.alone
        /\ w.target = o.target /\ w.primary = o.primary /\ w.todo = t /\ w.missed = k
    BY <1>3, <2>1 DEF IsCall, Fields
  <2>3. o.alone => store[Owner] = o.value
    BY <1>2, <1>3 DEF Progress
  <2>4. Sane(w) /\ Progress(w)' /\ Settles(c, w)
    BY <1>2, <1>3, <1>4, <1>6, <2>2, <2>3 DEF Sane, Progress, Settles, Unsettled
  <2> QED BY <1>1, <1>2, <1>4, <1>6, <2>1, <2>2, <2>4, CallStepKeepsAgreed
<1>7. CASE Go(c, [o EXCEPT !.step = "copy", !.todo = Replicas(o)])
  <2>1. PICK r : r = Replicas(o)
    OBVIOUS
  <2>2. PICK k : k = o.missed
    OBVIOUS
  <2>3. [o EXCEPT !.step = "copy", !.todo = r] = [o EXCEPT !.step = "copy", !.todo = r, !.missed = k]
    BY <1>3, <2>2 DEF IsCall, Fields
  <2>4. Set(c, [o EXCEPT !.step = "copy", !.todo = r, !.missed = k])
    BY <1>7, <2>1, <2>3 DEF Go
  <2>5. o.primary = Owner => Names(r) \subseteq Near /\ Near \subseteq {Owner} \cup Names(r)
    BY <1>3, <2>1, ReplicasOfOwner
  <2> QED BY <1>3, <1>5, <1>6, <2>4, <2>5
<1>8. ASSUME NEW i \in 0 .. Len(Replicas(o)) - 1,
             Go(c, [o EXCEPT !.step = "copy", !.todo = SubSeq(Replicas(o), 1, i), !.missed = @ + 1])
      PROVE  Agreed'
  <2>1. PICK r : r = SubSeq(Replicas(o), 1, i)
    OBVIOUS
  <2>2. PICK k : k = o.missed + 1
    OBVIOUS
  <2>3. Set(c, [o EXCEPT !.step = "copy", !.todo = r, !.missed = k])
    BY <1>8, <2>1, <2>2 DEF Go
  <2>4. o.primary = Owner => Names(r) \subseteq Near
    BY <1>3, <1>8, <2>1, ReplicasOfOwner
  <2>5. k # 0
    BY <1>3, <2>2
  <2>6. Untouched => Names(r) \subseteq Near
    BY <1>5, <2>4
  <2>7. o.alone /\ k = 0 => Near \subseteq {Owner} \cup Names(r)
    BY <2>5
  <2> QED BY <1>6, <2>3, <2>6, <2>7
<1> QED BY <1>1, <1>7, <1>8 DEF WalkChain

(* The next replica is written, tried again or given up.                   *)
LEMMA CopyReplicaKeepsAgreed ==
  ASSUME KnownReads, NEW c \in Clients, NEW ok \in BOOLEAN, CopyReplica(c, ok)
  PROVE  Agreed'
<1>1. PICK o : o = op[c]
  OBVIOUS
<1>2. PICK h : h = Head(o.todo)
  OBVIOUS
<1>3. PICK t : t = Tail(o.todo)
  OBVIOUS
<1>4. /\ o.step = "copy" /\ Busy(o) /\ RingUntouched /\ o.todo # << >> /\ Store(h, o.value, ok)
      /\ UNCHANGED service
  BY <1>1, <1>2, FaultOnly DEF CopyReplica, RingUntouched, ring, Busy, KnownReads
<1>5. /\ IsCall(o) /\ Sane(o) /\ service # "data" /\ RingOK /\ DataOK /\ o.kind # "get" /\ Progress(o)
      /\ o.missed \in Nat /\ o.value \in Lists /\ o.todo \in Seq(Nodes)
  BY <1>1, <1>4, AtWork DEF Sane
<1>6. Names(o.todo) = {h} \cup Names(t) /\ h \in Nodes
  BY <1>2, <1>3, <1>4, <1>5, NamesOfTail
<1>7. Untouched => Names(o.todo) \subseteq Near
  BY <1>1, <1>4, <1>5 DEF KnownReads, Agreed, ChainOnly
<1>8. WritesOnly /\ Owner' = Owner /\ Near' = Near
  <2>1. Writable(h)
    BY <1>5, <1>6, <1>7 DEF Writable
  <2> QED BY <1>4, <1>5, <1>6, <2>1, StoreOnly, RingAsBefore DEF KnownReads
<1>9. \A m \in Nodes : store[m] = o.value => store'[m] = o.value
  BY <1>4, <1>5, <1>6 DEF Store, Write, DataOK, data
<1>10. Near \subseteq Nodes
  BY <1>5, NearIn DEF RingOK
<1>11. ok => store'[h] = o.value
  BY <1>4, <1>5, <1>6, WrittenThere
<1>12. ASSUME NEW w, Set(c, w), w.step = "copy", w.kind = o.kind, w.value = o.value, w.alone = o.alone,
              w.target = o.target, w.primary = o.primary,
              Names(w.todo) \subseteq Names(o.todo),
              w.missed = 0 => /\ o.missed = 0
                              /\ \A m \in Names(o.todo) : m \in Names(w.todo) \/ (m = h /\ ok)
       PROVE  Agreed'
  <2>1. Progress(w)'
    <3> SUFFICES ASSUME w.alone, w.missed = 0, NEW m \in Near
                 PROVE  store'[m] = w.value \/ m \in Names(w.todo)
      BY <1>8, <1>12 DEF Progress
    <3>1. store[m] = o.value \/ m \in Names(o.todo)
      BY <1>4, <1>5, <1>12 DEF Progress
    <3> QED BY <1>9, <1>10, <1>11, <1>12, <3>1
  <2>2. Sane(w) /\ Settles(c, w)
    BY <1>5, <1>12 DEF Sane, Settles, Unsettled
  <2> QED BY <1>1, <1>4, <1>7, <1>8, <1>12, <2>1, <2>2, CallStepKeepsAgreed
<1>13. PICK z : z = IF service = "task" THEN 0 ELSE o.tries
  OBVIOUS
<1>14. CASE ok
  <2>1. PICK w : w = [o EXCEPT !.todo = t, !.tries = z]
    OBVIOUS
  <2>2. Set(c, w)
    BY <1>1, <1>3, <1>13, <1>14, <2>1 DEF CopyReplica, Go
  <2>3. /\ w.step = "copy" /\ w.kind = o.kind /\ w.value = o.value /\ w.alone = o.alone
        /\ w.target = o.target /\ w.primary = o.primary /\ w.todo = t /\ w.missed = o.missed
    BY <1>4, <1>5, <2>1 DEF IsCall, Fields
  <2> QED BY <1>6, <1>12, <1>14, <2>2, <2>3
<1>15. CASE ~ok /\ service = "task" /\ o.tries < ReplicaRetries
  <2>1. PICK w : w = [o EXCEPT !.tries = @ + 1]
    OBVIOUS
  <2>2. Set(c, w)
    BY <1>1, <1>15, <2>1 DEF CopyReplica, Go
  <2>3. /\ w.step = "copy" /\ w.kind = o.kind /\ w.value = o.value /\ w.alone = o.alone
        /\ w.target = o.target /\ w.primary = o.primary /\ w.todo = o.todo /\ w.missed = o.missed
    BY <1>4, <1>5, <2>1 DEF IsCall, Fields
  <2> QED BY <1>12, <2>2, <2>3
<1>16. CASE ~ok /\ ~(service = "task" /\ o.tries < ReplicaRetries)
  <2>1. PICK k : k = o.missed + 1
    OBVIOUS
  <2>2. PICK w : w = [o EXCEPT !.todo = t, !.missed = k, !.tries = z]
    OBVIOUS
  <2>3. Set(c, w)
    BY <1>1, <1>3, <1>13, <1>16, <2>1, <2>2 DEF CopyReplica, Go
  <2>4. /\ w.step = "copy" /\ w.kind = o.kind /\ w.value = o.value /\ w.alone = o.alone
        /\ w.target = o.target /\ w.primary = o.primary /\ w.todo = t /\ w.missed = k
    BY <1>4, <1>5, <2>2 DEF IsCall, Fields
  <2>5. k # 0
    BY <1>5, <2>1
  <2> QED BY <1>6, <1>12, <2>3, <2>4, <2>5
<1> QED BY <1>14, <1>15, <1>16

(* All are written, or some are missing.                                   *)
LEMMA ReplicatedKeepsAgreed ==
  ASSUME KnownReads, NEW c \in Clients, Replicated(c)
  PROVE  Agreed'
<1>1. PICK o : o = op[c]
  OBVIOUS
<1>2. o.step = "copy" /\ Busy(o) /\ RingUntouched /\ UNCHANGED <<data, store>> /\ o.todo = << >>
  BY <1>1 DEF Replicated, RingUntouched, ring, data, Busy
<1>3. /\ IsCall(o) /\ Sane(o) /\ service # "data" /\ RingOK /\ o.kind # "get" /\ Progress(o)
      /\ (o.alone => members \subseteq up) /\ UNCHANGED service /\ WritesOnly
  BY <1>1, <1>2, AtWork DEF Sane, RingUntouched, WritesOnly
<1>4. PICK w : /\ w = [o EXCEPT !.step = "done", !.todo = << >>] /\ w.step = "done"
               /\ w.kind = o.kind /\ w.value = o.value /\ w.alone = o.alone
               /\ w.target = o.target /\ w.primary = o.primary
  BY <1>3, DoneFields
<1>5. Set(c, w) /\ latest' = IF o.alone /\ o.missed = 0 THEN o.value ELSE Unsure
  BY <1>1, <1>4 DEF Replicated, Finish
<1>6. o.alone /\ o.missed = 0 => \A m \in Near : store'[m] = o.value
  <2>1. Names(o.todo) = {}
    BY <1>2 DEF Names
  <2> QED BY <1>2, <1>3, <2>1 DEF Progress
<1>7. Sane(w) /\ Progress(w)' /\ Settles(c, w)
  BY <1>3, <1>4, <1>5, <1>6 DEF Sane, Progress, Settles
<1> QED BY <1>1, <1>2, <1>3, <1>4, <1>5, <1>7, CallStepKeepsAgreed

(* A new call disturbs the others, and is alone if all was quiet.          *)
LEMMA DisturbedCall ==
  ASSUME NEW o, IsCall(o)
  PROVE  LET x == [o EXCEPT !.alone = FALSE]
         IN /\ x.kind = o.kind /\ x.step = o.step /\ x.value = o.value /\ x.todo = o.todo
            /\ x.target = o.target /\ x.primary = o.primary /\ ~x.alone
BY DEF IsCall, Fields

(* A new call works with the ring of now and has read nothing yet.         *)
LEMMA StartKeepsAgreed ==
  ASSUME KnownReads, NEW c \in Clients, NEW kind \in Kinds, NEW h \in Homes, NEW x \in Items,
         Start(c, kind, h, x)
  PROVE  Agreed'
<1> DEFINE v == IF kind = "put" THEN [version |-> 1, deleted |-> FALSE, items |-> <<x>>] ELSE None
           e == << >>
           f == FirstStep(kind, h)
           q == Quiet
<1>o. PICK o : o = [kind |-> kind, step |-> f, item |-> x, home |-> h,
                    primary |-> Owner, target |-> Owner, tries |-> 0, value |-> v,
                    todo |-> e, missed |-> 0, alone |-> q]
  OBVIOUS
<1>1. /\ op[c].step \in {"idle", "done"} /\ RingUntouched /\ UNCHANGED <<store, disk, latest>>
      /\ kind \in KindsOf(service) /\ UNCHANGED service
      /\ op' = [d \in Clients |-> IF d = c THEN o ELSE [op[d] EXCEPT !.alone = FALSE]]
  BY <1>o DEF Start, ring, data, RingUntouched
<1>2. /\ Owner' = Owner /\ NextMember(Owner)' = NextMember(Owner) /\ Near' = Near
      /\ Untouched' = Untouched /\ RingKept' = RingKept /\ \A z : Sane(z)' = Sane(z)
      /\ UNCHANGED <<members, up, happened["crash"]>>
  BY <1>1, RingAsBefore DEF KnownReads, RingUntouched
<1>v. kind # "put" => v = None
  OBVIOUS
<1>q. q = TRUE => members \subseteq up /\ \A d \in Clients : ~Busy(op[d])
  BY DEF Quiet, Busy
<1>b. q \in BOOLEAN
  BY DEF Quiet
<1> HIDE DEF v, e, f, q
<1>3. /\ o.kind = kind /\ o.step = f /\ o.value = v /\ o.target = Owner /\ o.primary = Owner
      /\ o.alone = q
  BY <1>o
<1>4. /\ f \in {"put", "del", "lock", "read"}
      /\ f = "del" => kind = "delete"
      /\ kind = "get" => f = "read"
      /\ service = "data" => f \in {"put", "del", "read"}
  BY <1>1 DEF FirstStep, f, KindsOf
<1>5. op'[c] = o
  BY <1>1
<1>6. ASSUME NEW d \in Clients \ {c}
      PROVE  /\ op'[d].kind = op[d].kind /\ op'[d].step = op[d].step /\ op'[d].value = op[d].value
             /\ op'[d].target = op[d].target /\ op'[d].primary = op[d].primary
             /\ op'[d].todo = op[d].todo /\ ~op'[d].alone
  <2>1. op'[d] = [op[d] EXCEPT !.alone = FALSE] /\ IsCall(op[d])
    BY <1>1 DEF KnownReads, LockInv
  <2> QED BY <2>1, DisturbedCall
<1>7. RingKept' /\ Agreed /\ Calling
  BY <1>2 DEF KnownReads, Agreed
<1>8. Calling'
  <2>1. Sane(o)
    BY <1>1, <1>v, <1>3, <1>4 DEF Sane
  <2>2. Progress(o)'
    BY <1>3, <1>4 DEF Progress
  <2>3. Undisturbed(c)'
    <3> SUFFICES ASSUME op'[c].alone
                 PROVE  /\ \A d \in Clients \ {c} : ~Busy(op'[d])
                        /\ members' \subseteq up' /\ op'[c].target = Owner' /\ op'[c].primary = Owner'
      BY DEF Undisturbed
    <3>1. q = TRUE
      BY <1>b, <1>3, <1>5
    <3>2. \A d \in Clients \ {c} : ~Busy(op'[d])
      BY <1>q, <1>6, <3>1 DEF Busy
    <3> QED BY <1>2, <1>3, <1>5, <1>q, <3>1, <3>2
  <2>4. ASSUME NEW d \in Clients \ {c} PROVE Sane(op[d])' /\ Progress(op[d])' /\ Undisturbed(d)'
    <3>1. Sane(op[d])
      BY <1>7 DEF Calling
    <3>2. Sane(op[d])'
      BY <1>1, <1>6, <3>1 DEF Sane
    <3>3. ~op'[d].alone
      BY <1>6
    <3> QED BY <3>2, <3>3 DEF Progress, Undisturbed
  <2>5. Sane(op[c])' /\ Progress(op[c])'
    BY <1>2, <1>5, <2>1, <2>2 DEF Sane, Progress
  <2> QED BY <2>3, <2>4, <2>5 DEF Calling
<1>9. Settled' => Settled
  <2> SUFFICES ASSUME Settled', NEW d \in Clients PROVE ~Unsettled(op[d])
    BY <1>1 DEF Settled
  <2>1. CASE d = c
    BY <1>1, <2>1 DEF Unsettled
  <2>2. CASE d # c
    BY <1>6, <2>2 DEF Settled, Unsettled
  <2> QED BY <2>1, <2>2
<1>10. \A d \in Clients : Busy(op'[d]) =>
         \/ op'[d].target = Owner /\ op'[d].primary = Owner
         \/ Busy(op[d]) /\ op'[d].target = op[d].target /\ op'[d].primary = op[d].primary
  BY <1>3, <1>5, <1>6 DEF Busy
<1>11. ASSUME service = "data" PROVE OneCopy'
  BY <1>1, <1>2, <1>7, <1>9, <1>10, <1>11 DEF Agreed, OneCopy
<1>12. ASSUME service # "data", Untouched PROVE ChainOnly'
  <2>1. ChainOnly
    BY <1>7, <1>12 DEF Agreed
  <2>2. \A d \in Clients : op'[d].step = "copy" => Names(op'[d].todo) \subseteq Near
    BY <1>3, <1>4, <1>5, <1>6, <2>1 DEF ChainOnly
  <2> QED BY <1>1, <1>2, <1>9, <1>10, <2>1, <2>2 DEF ChainOnly
<1>13. ASSUME service # "data", ~Untouched PROVE ChainKept'
  BY <1>1, <1>2, <1>7, <1>9, <1>13 DEF Agreed, ChainKept, Heir, OneOf
<1> QED BY <1>1, <1>2, <1>7, <1>8, <1>11, <1>12, <1>13 DEF Agreed

(* When the ring changes nobody is alone, and a write that was under way   *)
(* stays so or leaves nobody certain.                                      *)
Shaken ==
  /\ latest' \in {latest, Unsure}
  /\ \A d \in Clients :
       /\ ~op'[d].alone /\ Sane(op'[d])
       /\ Busy(op'[d]) => Busy(op[d]) /\ op'[d].target \in {op[d].target, Owner}
       /\ latest' # Unsure /\ Unsettled(op[d]) => Unsettled(op'[d])

(* ... so what is certain afterwards was certain before.                   *)
LEMMA ShakenCalls ==
  ASSUME KnownReads, Shaken, UNCHANGED service
  PROVE  Calling' /\ (Settled' => Settled /\ latest' = latest)
<1>1. Calling'
  <2> SUFFICES ASSUME NEW d \in Clients PROVE Sane(op[d])' /\ Progress(op[d])' /\ Undisturbed(d)'
    BY DEF Calling
  <2>1. Sane(op[d])'
    BY DEF Shaken, Sane
  <2> QED BY <2>1 DEF Shaken, Progress, Undisturbed
<1>2. ASSUME Settled' PROVE Settled /\ latest' = latest
  <2>1. latest' # Unsure /\ \A d \in Clients : ~Unsettled(op'[d])
    BY <1>2 DEF Settled
  <2>2. (\A d \in Clients : ~Unsettled(op[d])) /\ latest' = latest
    BY <2>1 DEF Shaken
  <2> QED BY <2>1, <2>2 DEF Settled
<1> QED BY <1>1, <1>2

(* A change of the members disturbs every call and ends none.              *)
LEMMA DisturbedShakes ==
  ASSUME KnownReads, op' = Disturbed, latest' \in {latest, Unsure}
  PROVE  Shaken
<1> SUFFICES ASSUME NEW d \in Clients
             PROVE  /\ ~op'[d].alone /\ Sane(op'[d])
                    /\ Busy(op'[d]) => Busy(op[d]) /\ op'[d].target \in {op[d].target, Owner}
                    /\ latest' # Unsure /\ Unsettled(op[d]) => Unsettled(op'[d])
  BY DEF Shaken
<1>1. op'[d] = [op[d] EXCEPT !.alone = FALSE] /\ IsCall(op[d]) /\ Sane(op[d])
  BY DEF Disturbed, KnownReads, LockInv, Agreed, Calling
<1>2. /\ op'[d].kind = op[d].kind /\ op'[d].step = op[d].step /\ op'[d].value = op[d].value
      /\ op'[d].target = op[d].target /\ ~op'[d].alone
  BY <1>1, DisturbedCall
<1> QED BY <1>1, <1>2 DEF Sane, Busy, Unsettled

(* A process that halts takes calls along; if one of them was writing      *)
(* nobody is certain.                                                      *)
LEMMA HaltShakes ==
  ASSUME KnownReads, NEW n \in Nodes, Halt(n)
  PROVE  Shaken /\ UNCHANGED <<service, disk>> /\ up' = up \ {n} /\ latest' \in {latest, Unsure}
         /\ \A m \in Nodes : store'[m] = IF m = n THEN None ELSE store[m]
<1> DEFINE busy == {d \in Clients : op[d].step \notin {"idle", "done"}}
<1>1. /\ UNCHANGED <<service, disk>> /\ up' = up \ {n} /\ latest' \in {latest, Unsure}
      /\ \A m \in Nodes : store'[m] = IF m = n THEN None ELSE store[m]
  BY DEF Halt, KnownReads, ListInv, DataOK
<1>2. ASSUME NEW d \in Clients
      PROVE  /\ ~op'[d].alone /\ Sane(op'[d])
             /\ Busy(op'[d]) => Busy(op[d]) /\ op'[d].target \in {op[d].target, Owner}
             /\ latest' # Unsure /\ Unsettled(op[d]) => Unsettled(op'[d])
  <2>1. IsCall(op[d]) /\ Placed(op[d]) /\ Sane(op[d]) /\ service \in Services
    BY DEF KnownReads, LockInv, ListInv, Agreed, Calling
  <2>2. latest' # Unsure /\ Unsettled(op[d]) => ~(d \in busy /\ At(op[d]) = n)
    <3> SUFFICES ASSUME latest' # Unsure, Unsettled(op[d]), d \in busy, At(op[d]) = n PROVE FALSE
      OBVIOUS
    <3>1. op[d].kind # "get"
      BY <2>1 DEF Sane, Unsettled
    <3> QED BY <3>1 DEF Halt
  <2>3. CASE d \in busy /\ At(op[d]) = n /\ op[d].home = n
    <3>1. op'[d] = NoOp
      BY <2>3 DEF Halt
    <3>2. NoOp.kind = "get" /\ NoOp.step = "idle" /\ ~NoOp.alone
      BY DEF NoOp
    <3>3. "get" \in KindsOf(service)
      BY <2>1, StoreAssumption DEF KindsOf
    <3> QED BY <2>2, <2>3, <3>1, <3>2, <3>3 DEF Sane, Busy
  <2>4. CASE d \in busy /\ At(op[d]) = n /\ op[d].home # n
    <3>1. op'[d] = [AppendAgain(op[d]) EXCEPT !.alone = FALSE]
      BY <2>4 DEF Halt
    <3>2. PICK w : /\ w = [AppendAgain(op[d]) EXCEPT !.alone = FALSE] /\ w.step \in {"lock", "done"}
                   /\ w.kind = op[d].kind /\ ~w.alone
                   /\ w.target \in {op[d].target, Owner} /\ w.primary = op[d].primary
      BY <2>1, AgainFields
    <3>3. op[d].kind = "append" /\ Busy(op[d])
      BY <2>4 DEF At, Busy
    <3>4. service # "data"
      BY <2>1, <3>3 DEF Sane, KindsOf
    <3> QED BY <2>1, <2>2, <2>4, <3>1, <3>2, <3>3, <3>4 DEF Sane
  <2>5. CASE ~(d \in busy /\ At(op[d]) = n)
    <3>1. op'[d] = [op[d] EXCEPT !.alone = FALSE]
      BY <2>5 DEF Halt
    <3>2. /\ op'[d].kind = op[d].kind /\ op'[d].step = op[d].step /\ op'[d].value = op[d].value
          /\ op'[d].target = op[d].target /\ ~op'[d].alone
      BY <2>1, <3>1, DisturbedCall
    <3> QED BY <2>1, <3>2 DEF Sane, Busy, Unsettled
  <2> QED BY <2>3, <2>4, <2>5
<1> QED BY <1>1, <1>2 DEF Shaken

(* A join, leave or crash counts as one change of the ring.                *)
LEMMA RingTroubleCounts ==
  ASSUME ListInv, NEW t \in {"join", "leave", "crash"}, Trouble(t)
  PROVE  /\ Total \in Nat /\ Total' = Total + 1 /\ happened'[t] = happened[t] + 1
         /\ \A u \in {"join", "leave", "crash"} \ {t} : happened'[u] = happened[u]
         /\ \A u \in {"join", "leave", "crash"} : happened[u] \in Nat /\ happened'[u] \in Nat
         /\ Total' = happened'["join"] + happened'["leave"] + happened'["crash"]
         /\ Total = happened["join"] + happened["leave"] + happened["crash"]
<1> {"join", "leave", "crash"} \subseteq Troubles
  BY DEF Troubles
<1> QED BY DEF ListInv, Trouble, Total

(* What the conditions say of the ring.                                    *)
LEMMA UntouchedRing ==
  ASSUME ListInv, RingKept, Untouched
  PROVE  up = members /\ happened["join"] = 0 /\ happened["leave"] = 0 /\ happened["crash"] = 0
<1>1. happened["join"] = 0 /\ happened["leave"] = 0 /\ happened["crash"] = 0
  BY TotalIsCounted DEF Untouched
<1> QED BY <1>1 DEF RingKept

(* As long as the ring is untouched every node has the latest record or    *)
(* none, and the next member has what the owner has.                       *)
LEMMA UntouchedData ==
  ASSUME KnownReads, Untouched, service # "data", Settled
  PROVE  /\ \A m \in Nodes : OneOf(m)
         /\ store[Owner] = latest /\ store[NextMember(Owner)] = latest
<1>1. ChainOnly /\ K >= 2 /\ RingOK /\ RingKept
  BY DEF KnownReads, Agreed, Covered, ListInv
<1>2. Owner \in Near /\ Near \subseteq members /\ up = members
  BY <1>1, NearIn, UntouchedRing DEF KnownReads
<1>3. NextMember(Owner) \in Near
  BY <1>1, <1>2, NextIsReplica DEF Near
<1> QED BY <1>1, <1>2, <1>3 DEF ChainOnly, OneOf

(* An owner that is its own successor is the only member.                  *)
LEMMA OwnerAlone ==
  ASSUME RingOK, NextMember(Owner) = Owner
  PROVE  members = {Owner}
<1>1. members \subseteq Nodes /\ Nodes \subseteq Int
  BY StoreAssumption DEF RingOK, Nodes
<1>0. Owner \in members /\ \A m \in members : Owner <= m
  BY <1>1, LeastIn DEF RingOK, Owner
<1> DEFINE later == {m \in members : m > Owner}
<1>2. later = {}
  <2> SUFFICES ASSUME later # {} PROVE FALSE
    OBVIOUS
  <2>1. NextMember(Owner) = Least(later)
    BY DEF NextMember
  <2>2. Least(later) \in later
    <3>1. later \subseteq Nodes
      BY <1>1
    <3> HIDE DEF later
    <3> QED BY <3>1, LeastIn
  <2>3. Owner \in later
    BY <2>1, <2>2
  <2> QED BY <1>0, <1>1, <2>3
<1>3. \A m \in members : m = Owner
  BY <1>0, <1>1, <1>2
<1> QED BY <1>0, <1>3

NearIsOK == Near \subseteq Nodes

(* The chain of the owner names nodes.                                     *)
LEMMA NearIsNodes == RingOK => NearIsOK
  BY NearIn DEF RingOK, NearIsOK

(* A crash of the owner leaves its record at the next member, a crash of   *)
(* another member leaves the owner's.                                      *)
LEMMA CrashKeepsAgreed ==
  ASSUME KnownReads, Covered', NEW n \in Nodes, Crash(n)
  PROVE  Agreed'
<1>1. /\ n \in up /\ n \in members /\ Trouble("crash") /\ UNCHANGED members /\ UNCHANGED service
      /\ Shaken /\ up' = up \ {n} /\ \A m \in Nodes : store'[m] = IF m = n THEN None ELSE store[m]
  BY HaltShakes DEF Crash
<1>2. /\ Total \in Nat /\ Total' = Total + 1 /\ happened'["crash"] = happened["crash"] + 1
      /\ happened'["leave"] = happened["leave"] /\ happened["leave"] \in Nat
      /\ happened'["join"] \in Nat /\ happened["crash"] \in Nat
      /\ Total' = happened'["join"] + happened'["leave"] + happened'["crash"]
  BY <1>1, RingTroubleCounts DEF KnownReads
<1>3. service # "data" /\ Total = 0 /\ Total' = 1
  BY <1>1, <1>2 DEF Covered
<1>4. Untouched /\ ~Untouched' /\ RingKept /\ RingOK
  BY <1>3 DEF Untouched, KnownReads, Agreed, ListInv
<1>5. up = members /\ members \subseteq Nodes /\ Owner \in members
  BY <1>4, UntouchedRing, OwnerIn DEF KnownReads, RingOK
<1>6. RingKept'
  BY <1>1, <1>2, <1>5 DEF RingKept
<1>7. Calling' /\ (Settled' => Settled /\ latest' = latest)
  BY <1>1, ShakenCalls
<1>8. ASSUME Settled' PROVE (\A m \in Nodes : OneOf(m)') /\ Heir'
  <2>1. /\ \A m \in Nodes : OneOf(m)
        /\ store[Owner] = latest /\ store[NextMember(Owner)] = latest /\ latest' = latest
    BY <1>3, <1>4, <1>7, <1>8, UntouchedData
  <2>2. Owner' = Owner /\ NextMember(Owner)' = NextMember(Owner)
    BY <1>1 DEF Owner, NextMember, Least
  <2>3. NextMember(Owner) \in members
    BY <1>4, <1>5, NextMemberIn
  <2>4. NextMember(Owner) = Owner => members = {Owner}
    BY <1>4, OwnerAlone
  <2>5. ASSUME n = Owner PROVE Heir'
    BY <1>1, <1>5, <2>1, <2>2, <2>3, <2>4, <2>5 DEF Heir
  <2>6. ASSUME n # Owner PROVE Heir'
    BY <1>1, <1>5, <2>1, <2>2, <2>6 DEF Heir
  <2>7. \A m \in Nodes : OneOf(m)'
    BY <1>1, <2>1 DEF OneOf
  <2> QED BY <2>5, <2>6, <2>7
<1>9. ~(members' \subseteq up')
  BY <1>1
<1>10. ChainKept'
  BY <1>8, <1>9 DEF ChainKept
<1> QED BY <1>1, <1>3, <1>4, <1>6, <1>7, <1>10 DEF Agreed

(* Forgetting the crashed owner makes the next member the owner.           *)
LEMMA ForgetKeepsAgreed ==
  ASSUME KnownReads, NEW n \in Nodes, Forget(n)
  PROVE  Agreed'
<1>1. /\ n \in members /\ n \notin up /\ members' = members \ {n} /\ members' # {}
      /\ op' = Disturbed /\ UNCHANGED <<store, up, happened, latest, service>> /\ RingOK
  BY DEF Forget, data, history, KnownReads, ListInv
<1>2. RingKept /\ ~(members \subseteq up)
  BY <1>1 DEF KnownReads, Agreed
<1>3. Calling' /\ (Settled' => Settled)
  BY <1>1, ShakenCalls, DisturbedShakes
<1>4. /\ n # Owner => Owner' = Owner
      /\ n = Owner => Owner' = NextMember(Owner) /\ Owner' # n
      /\ Owner' \in members'
  BY <1>1, OwnerAfterForget
<1>5. happened["crash"] # 0 /\ service # "data" /\ ~Untouched
  <2>1. happened["crash"] # 0
    BY <1>2 DEF RingKept
  <2>2. {"join", "leave", "crash"} \subseteq Troubles
    BY DEF Troubles
  <2>3. Total # happened["leave"] /\ Total # 0
    BY <2>1, <2>2 DEF Total, KnownReads, ListInv
  <2> QED BY <2>1, <2>3 DEF KnownReads, Covered, Untouched
<1>6. RingKept'
  BY <1>1, <1>2, <1>5 DEF RingKept
<1>7. ASSUME Settled' PROVE (\A m \in Nodes : OneOf(m)') /\ (latest # None => Heir')
  <2>1. (\A m \in Nodes : OneOf(m)) /\ (latest # None => Heir)
    BY <1>2, <1>3, <1>5, <1>7 DEF KnownReads, Agreed, ChainKept
  <2>2. Owner \in members /\ \A m \in members \ up : m = n
    BY <1>1, <1>2, OwnerIn DEF RingKept
  <2>3. latest # None => Heir'
    BY <1>1, <1>4, <1>5, <2>1, <2>2 DEF Heir
  <2> QED BY <1>1, <2>1, <2>3 DEF OneOf
<1>8. ChainKept'
  <2>1. Near' \subseteq Nodes
    <3>1. RingOK'
      BY <1>1 DEF RingOK
    <3>2. NearIsOK'
      BY <3>1, NearIsNodes, PTL
    <3> QED BY <3>2 DEF NearIsOK
  <2> QED BY <1>1, <1>7, <2>1 DEF ChainKept
<1>9. Untouched' = Untouched
  BY <1>1 DEF Untouched, Total
<1> QED BY <1>1, <1>3, <1>5, <1>6, <1>8, <1>9 DEF Agreed

(* The walk along the members, as a recursion.                             *)
Walked ==
  \E f : /\ f[0] = <<Owner>> /\ \A i \in 1 .. K - 1 : f[i] \in Walks(Owner) /\ f[i] = Extended(f[i - 1])
         /\ Chain(Owner) = f[K - 1]

(* ... which the chain of the owner is.                                    *)
LEMMA ChainIsWalked == RingOK => Walked
<1> SUFFICES ASSUME RingOK PROVE Walked
  OBVIOUS
<1>1. PICK f \in [0 .. K - 1 -> Walks(Owner)] :
           /\ f[0] = <<Owner>> /\ \A i \in 1 .. K - 1 : f[i] = Extended(f[i - 1])
           /\ Chain(Owner) = f[K - 1]
  BY ChainIsWalk, OwnerIn DEF RingOK
<1>2. \A i \in 1 .. K - 1 : i \in 0 .. K - 1
  BY StoreAssumption
<1> QED BY <1>1, <1>2 DEF Walked

(* When all members answer, the chain is made of the members alone.        *)
LEMMA NearSame ==
  ASSUME RingOK, RingOK', UNCHANGED members, members \subseteq up, members' \subseteq up'
  PROVE  Near' = Near
<1>1. Walked /\ Walked'
  BY ChainIsWalked, PTL
<1>2. Owner' = Owner /\ \A n : NextMember(n)' = NextMember(n)
  BY DEF Owner, NextMember, Least
<1>3. Walks(Owner)' = Walks(Owner)
  BY <1>2 DEF Walks
<1>4. PICK f : /\ f[0] = <<Owner>>
               /\ \A i \in 1 .. K - 1 : f[i] \in Walks(Owner) /\ f[i] = Extended(f[i - 1])
               /\ Chain(Owner) = f[K - 1]
  BY <1>1 DEF Walked
<1>5. PICK g : /\ g[0] = <<Owner>> /\ \A i \in 1 .. K - 1 : g[i] = Extended(g[i - 1])'
               /\ Chain(Owner)' = g[K - 1]
  BY <1>1, <1>2 DEF Walked
<1>6. ASSUME NEW s \in Walks(Owner) PROVE Extended(s)' = Extended(s)
  <2>1. s[Len(s)] \in members
    <3>1. Len(s) \in Nat /\ Len(s) >= 1 /\ s[1] = Owner /\ \A i \in 2 .. Len(s) : s[i] \in members
      BY DEF Walks
    <3>2. Owner \in members
      BY OwnerIn
    <3>3. \A l \in Nat : l >= 1 => l = 1 \/ l \in 2 .. l
      OBVIOUS
    <3>4. Len(s) = 1 \/ Len(s) \in 2 .. Len(s)
      BY <3>1, <3>3, Zenon
    <3> QED BY <3>1, <3>2, <3>4
  <2>2. s[Len(s)] \in up /\ s[Len(s)] \in up'
    BY <2>1
  <2>3. NextMember(s[Len(s)])' = NextMember(s[Len(s)])
    BY <1>2
  <2> QED BY <2>2, <2>3 DEF Extended
<1>7. <<Owner>> \in Walks(Owner)
  BY OwnerIn DEF Walks
<1>8. g[K - 1] = f[K - 1]
  <2> DEFINE m == K - 1
             T == {i \in 0 .. m : g[i] = f[i]}
  <2>1. m \in Nat /\ 0 \in T
    BY <1>4, <1>5, StoreAssumption
  <2>2. ASSUME NEW i \in 1 .. m, i - 1 \in T PROVE i \in T
    <3>1. f[i - 1] \in Walks(Owner)
      <4>1. i = 1 \/ i - 1 \in 1 .. K - 1
        BY <2>1
      <4> QED BY <1>4, <1>7, <4>1
    <3>2. g[i - 1] = f[i - 1] /\ i \in 0 .. m
      BY <2>1, <2>2
    <3>3. g[i] = Extended(g[i - 1])' /\ f[i] = Extended(f[i - 1])
      BY <1>4, <1>5
    <3> QED BY <1>6, <3>1, <3>2, <3>3
  <2>3. 0 .. m \subseteq T
    <3> HIDE DEF T, m
    <3> QED BY <2>1, <2>2, IntervalInduction
  <2>4. m \in 0 .. m
    BY <2>1
  <2> QED BY <2>3, <2>4
<1>9. Chain(Owner)' = Chain(Owner)
  BY <1>4, <1>5, <1>8
<1> QED BY <1>9 DEF Near, Names

(* A process that exits has left the members before, and the chain has     *)
(* nothing to do with it.                                                  *)
LEMMA ExitKeepsAgreed ==
  ASSUME KnownReads, RingOK', NEW n \in Nodes, Exit(n)
  PROVE  Agreed'
<1>1. /\ n \in up /\ n \notin members /\ UNCHANGED <<members, happened, service>>
      /\ Shaken /\ up' = up \ {n} /\ \A m \in Nodes : store'[m] = IF m = n THEN None ELSE store[m]
  BY HaltShakes DEF Exit
<1>2. /\ Owner' = Owner /\ NextMember(Owner)' = NextMember(Owner) /\ Total' = Total
  BY <1>1 DEF Owner, NextMember, Least, Total
<1>3. RingKept /\ RingOK /\ ListInv /\ happened["leave"] # 0
  BY <1>1 DEF KnownReads, Agreed, ListInv, RingKept
<1>4. RingKept'
  BY <1>1, <1>3 DEF RingKept
<1>5. Calling' /\ (Settled' => Settled /\ latest' = latest)
  BY <1>1, ShakenCalls
<1>6. ASSUME service = "data" PROVE OneCopy'
  <2>1. OneCopy
    BY <1>6 DEF KnownReads, Agreed
  <2>2. Owner \in members /\ members \subseteq Nodes
    BY <1>3, OwnerIn DEF RingOK
  <2>3. \A d \in Clients : Busy(op'[d]) => op'[d].target = Owner \/ op'[d].target \notin members
    BY <1>1, <2>1 DEF Shaken, OneCopy
  <2>4. \A m \in members : store'[m] = store[m]
    BY <1>1, <2>2
  <2> QED BY <1>1, <1>2, <1>5, <2>1, <2>2, <2>3, <2>4 DEF OneCopy
<1>7. ASSUME service # "data" PROVE ~Untouched' /\ ChainKept'
  <2>1. /\ ~Untouched /\ ~Untouched'
        /\ happened["crash"] = 0 /\ happened["join"] = 0
    <3>1. Total = happened["join"] + happened["leave"] + happened["crash"] /\ Total <= 1
      BY <1>7 DEF KnownReads, Covered, Total
    <3>2. happened["join"] \in Nat /\ happened["leave"] \in Nat /\ happened["crash"] \in Nat
      BY <1>3 DEF ListInv, Troubles
    <3>3. Total # 0 /\ happened["crash"] = 0 /\ happened["join"] = 0
      BY <1>3, <3>1, <3>2
    <3> QED BY <1>2, <3>3 DEF Untouched
  <2>2. ChainKept
    BY <1>7, <2>1 DEF KnownReads, Agreed
  <2>3. members \subseteq up /\ members \subseteq up'
    BY <1>1, <1>3, <2>1 DEF RingKept
  <2>4. Near' = Near /\ Near \subseteq Nodes /\ Owner \in members /\ Owner \in Nodes
    BY <1>1, <1>3, <2>3, NearSame, NearIn, OwnerIn DEF RingOK
  <2>5. ASSUME Settled' PROVE \A m \in Near : OneOf(m)'
    BY <1>1, <1>5, <2>2, <2>3, <2>4, <2>5 DEF ChainKept, OneOf
  <2>6. ASSUME Settled', latest' # None PROVE Heir'
    <3>1. Heir /\ latest' = latest
      BY <1>5, <2>2, <2>6 DEF ChainKept
    <3>2. NextMember(Owner) \in members /\ NextMember(Owner) \in Nodes
      BY <1>3, <2>4, NextMemberIn DEF RingOK
    <3>3. store'[Owner] = store[Owner] /\ store'[NextMember(Owner)] = store[NextMember(Owner)]
      BY <1>1, <2>4, <3>2
    <3>4. Owner \in up'
      BY <2>3, <2>4
    <3> QED BY <1>1, <1>2, <2>1, <2>3, <2>4, <3>1, <3>3, <3>4 DEF Heir
  <2> QED BY <1>1, <2>1, <2>3, <2>4, <2>5, <2>6 DEF ChainKept
<1> QED BY <1>1, <1>4, <1>5, <1>6, <1>7 DEF Agreed

(* leave hands the record to the next member, the new owner if the leaver  *)
(* was it.                                                                 *)
LEMMA LeaveKeepsAgreed ==
  ASSUME KnownReads, Covered', RingOK', NEW n \in Nodes, NEW ok \in BOOLEAN, Leave(n, ok)
  PROVE  Agreed'
<1> DEFINE heir == NextMember(n)
<1>1. /\ n \in up /\ n \in members /\ members' = members \ {n} /\ members' # {} /\ Trouble("leave")
      /\ op' = Disturbed /\ UNCHANGED <<service, up>> /\ latest' \in {latest, Unsure}
      /\ heir \in up /\ ~ok => latest' = Unsure
  BY DEF Leave
<1>2. RingOK /\ RingKept /\ DataOK /\ ListInv
  BY DEF KnownReads, Agreed, ListInv
<1>3. /\ heir \in members /\ heir \in Nodes /\ Owner \in members /\ Owner \in Nodes
      /\ members \subseteq Nodes
  BY <1>2, NextMemberIn, OwnerIn DEF RingOK
<1>4. \A m \in Nodes : store'[m] = IF ok /\ store[n] # None /\ m = heir THEN store[n] ELSE store[m]
  BY <1>2, <1>3 DEF Leave, DataOK
<1> HIDE DEF heir
<1>5. /\ n # Owner => Owner' = Owner
      /\ n = Owner => Owner' = heir /\ Owner' # n
      /\ Owner' \in members'
  BY <1>1, <1>2, OwnerAfterForget DEF heir
<1>6. Shaken
  BY <1>1, DisturbedShakes
<1>7. Calling' /\ (Settled' => Settled /\ latest' = latest)
  BY <1>1, <1>6, ShakenCalls
<1>8. /\ Total \in Nat /\ Total' = Total + 1 /\ happened'["leave"] = happened["leave"] + 1
      /\ happened'["join"] = happened["join"] /\ happened'["crash"] = happened["crash"]
      /\ happened["leave"] \in Nat /\ happened["join"] \in Nat /\ happened["crash"] \in Nat
      /\ Total = happened["join"] + happened["leave"] + happened["crash"]
  BY <1>1, <1>2, RingTroubleCounts
<1>9. happened["crash"] = 0
  <2>1. CASE service = "data"
    BY <1>8, <2>1 DEF KnownReads, Covered
  <2>2. CASE service # "data"
    BY <1>1, <1>8, <2>2 DEF Covered
  <2> QED BY <2>1, <2>2
<1>10. members \subseteq up
  BY <1>2, <1>9 DEF RingKept
<1>11. RingKept'
  BY <1>1, <1>8, <1>10 DEF RingKept
<1>12. Settled' => ok
  BY <1>1, <1>3, <1>10 DEF Settled
<1>13. ASSUME service = "data" PROVE OneCopy'
  <2>1. OneCopy
    BY <1>13 DEF KnownReads, Agreed
  <2>2. \A d \in Clients : Busy(op'[d]) => op'[d].target = Owner' \/ op'[d].target \notin members'
    BY <1>1, <1>5, <1>6, <2>1 DEF Shaken, OneCopy
  <2>3. \A m \in members' \ {Owner'} : store'[m] = None
    BY <1>1, <1>3, <1>4, <1>5, <2>1 DEF OneCopy
  <2>4. ASSUME Settled' PROVE store'[Owner'] = latest'
    <3>1. store[Owner] = latest /\ latest' = latest /\ ok
      BY <1>7, <1>12, <2>1, <2>4 DEF OneCopy
    <3>2. CASE n # Owner
      <4>1. store[n] = None
        BY <1>1, <2>1, <3>2 DEF OneCopy
      <4> QED BY <1>3, <1>4, <1>5, <3>1, <3>2, <4>1
    <3>3. CASE n = Owner
      <4>1. store[n] = None => store[heir] = None
        BY <1>3, <1>5, <2>1, <3>3 DEF OneCopy
      <4> QED BY <1>3, <1>4, <1>5, <3>1, <3>3, <4>1
    <3> QED BY <3>2, <3>3
  <2> QED BY <2>2, <2>3, <2>4 DEF OneCopy
<1>14. ASSUME service # "data" PROVE ~Untouched' /\ ChainKept'
  <2>1. Untouched /\ ~Untouched'
    BY <1>1, <1>8, <1>14 DEF Covered, Untouched
  <2>2. ASSUME Settled' PROVE (\A m \in Nodes : OneOf(m)') /\ (latest' # None => Heir')
    <3>1. /\ \A m \in Nodes : OneOf(m)
          /\ store[Owner] = latest /\ latest' = latest /\ ok
      BY <1>7, <1>12, <1>14, <2>1, <2>2, UntouchedData
    <3>2. \A m \in Nodes : OneOf(m)'
      BY <1>4, <3>1 DEF OneOf
    <3>3. ASSUME latest' # None PROVE store'[Owner'] = latest'
      <4>1. CASE n # Owner
        BY <1>3, <1>4, <1>5, <3>1, <3>3, <4>1 DEF OneOf
      <4>2. CASE n = Owner
        BY <1>3, <1>4, <1>5, <3>1, <3>3, <4>2
      <4> QED BY <4>1, <4>2
    <3>4. Owner' \in up'
      BY <1>1, <1>5, <1>10
    <3> QED BY <3>2, <3>3, <3>4 DEF Heir
  <2>3. Near' \subseteq Nodes
    <3>1. NearIsOK'
      BY NearIsNodes, PTL
    <3> QED BY <3>1 DEF NearIsOK
  <2> QED BY <2>1, <2>2, <2>3 DEF ChainKept
<1> QED BY <1>1, <1>7, <1>11, <1>13, <1>14 DEF Agreed

(* A node that joins is the new owner, with the old one after it, or the   *)
(* owner stays.                                                            *)
LEMMA OwnerAfterJoin ==
  ASSUME RingOK, NEW n \in Nodes, n \notin members, members' = members \cup {n}
  PROVE  Owner' = Owner \/ (Owner' = n /\ NextMember(Owner)' = Owner)
<1>1. members' \subseteq Nodes /\ members \subseteq Nodes /\ Nodes \subseteq Int
  BY StoreAssumption DEF RingOK, Nodes
<1>2. Owner \in members /\ \A m \in members : Owner <= m
  BY <1>1, LeastIn DEF Owner, RingOK
<1>3. Owner' \in members' /\ \A m \in members' : Owner' <= m
  BY <1>1, LeastIn DEF Owner
<1>4. ASSUME Owner' # n PROVE Owner' = Owner
  BY <1>1, <1>2, <1>3, <1>4
<1>5. ASSUME Owner' = n PROVE NextMember(Owner)' = Owner
  <2>1. \A m \in members' : m > Owner' <=> m # Owner'
    BY <1>1, <1>3
  <2>2. {m \in members' : m > Owner'} = members
    BY <1>5, <2>1
  <2>3. NextMember(Owner)' = Least(members)
    BY <1>2, <2>2 DEF NextMember
  <2> QED BY <2>3 DEF Owner
<1> QED BY <1>4, <1>5

(* A node that joins has no record: the reads fall back to the old owner.  *)
LEMMA JoinKeepsAgreed ==
  ASSUME KnownReads, Covered', RingOK', NEW n \in Nodes, Join(n)
  PROVE  Agreed'
<1>1. /\ n \notin up /\ Trouble("join") /\ up' = up \cup {n} /\ members' = members \cup {n}
      /\ op' = Disturbed /\ UNCHANGED <<service, latest>>
      /\ store' = [store EXCEPT ![n] = disk[n]]
  BY DEF Join, history
<1>2. RingOK /\ RingKept /\ DataOK /\ ListInv
  BY DEF KnownReads, Agreed, ListInv
<1>3. /\ Total \in Nat /\ Total' = Total + 1 /\ happened'["join"] = happened["join"] + 1
      /\ happened'["leave"] = happened["leave"] /\ happened'["crash"] = happened["crash"]
      /\ happened["leave"] \in Nat /\ happened["join"] \in Nat /\ happened["crash"] \in Nat
      /\ Total = happened["join"] + happened["leave"] + happened["crash"]
  BY <1>1, <1>2, RingTroubleCounts
<1>4. service # "data" /\ Untouched /\ ~Untouched'
  BY <1>1, <1>3 DEF Covered, Untouched
<1>5. up = members /\ happened["crash"] = 0 /\ happened'["crash"] = 0
  BY <1>2, <1>3, <1>4, UntouchedRing
<1>6. n \notin members /\ Near \subseteq members /\ ChainOnly
  BY <1>1, <1>2, <1>4, <1>5, NearIn DEF KnownReads, Agreed
<1>7. \A m \in Nodes : store'[m] = store[m]
  BY <1>1, <1>2, <1>6 DEF DataOK, ChainOnly
<1>8. store'[n] = None
  BY <1>6, <1>7 DEF ChainOnly
<1>9. Calling' /\ (Settled' => Settled)
  BY <1>1, DisturbedShakes, ShakenCalls
<1>10. RingKept'
  BY <1>1, <1>5 DEF RingKept
<1>11. Owner \in Nodes /\ Owner \in members
  BY <1>2, OwnerIn
<1>12. ASSUME Settled' PROVE (\A m \in Nodes : OneOf(m)') /\ Heir'
  <2>1. (\A m \in Nodes : OneOf(m)) /\ store[Owner] = latest
    BY <1>4, <1>9, <1>12, UntouchedData
  <2>2. \A m \in Nodes : OneOf(m)'
    BY <1>1, <1>7, <2>1 DEF OneOf
  <2>3. store'[Owner] = latest'
    BY <1>1, <1>7, <1>11, <2>1
  <2>4. ASSUME Owner' = Owner PROVE Heir'
    BY <1>1, <1>5, <1>11, <2>3, <2>4 DEF Heir
  <2>5. ASSUME Owner' = n, NextMember(Owner)' = Owner PROVE Heir'
    BY <1>5, <1>8, <2>3, <2>5 DEF Heir
  <2> QED BY <1>1, <1>2, <1>6, <2>2, <2>4, <2>5, OwnerAfterJoin
<1>13. NearIsOK'
  BY NearIsNodes, PTL
<1>14. ChainKept'
  BY <1>12, <1>13 DEF ChainKept, NearIsOK
<1> QED BY <1>1, <1>4, <1>9, <1>10, <1>14 DEF Agreed

(* A step of none of the variables.                                        *)
LEMMA StutterKeepsAgreed ==
  ASSUME KnownReads, UNCHANGED vars
  PROVE  Agreed'
<1>1. UNCHANGED <<service, store, disk, up, members, op, latest, happened>> /\ RingUntouched
  BY DEF vars, ring, data, history, RingUntouched
<1>2. /\ Owner' = Owner /\ NextMember(Owner)' = NextMember(Owner) /\ Near' = Near
      /\ Untouched' = Untouched /\ RingKept' = RingKept /\ \A o : Sane(o)' = Sane(o)
  BY <1>1, RingAsBefore DEF KnownReads
<1>3. Agreed
  BY DEF KnownReads
<1>4. Calling'
  BY <1>1, <1>2, <1>3 DEF Agreed, Calling, Sane, Undisturbed, Progress
<1>5. Settled' = Settled
  BY <1>1 DEF Settled
<1>6. service = "data" => OneCopy'
  BY <1>1, <1>2, <1>3, <1>5 DEF Agreed, OneCopy
<1>7. service # "data" /\ Untouched => ChainOnly'
  BY <1>1, <1>2, <1>3, <1>5 DEF Agreed, ChainOnly
<1>8. service # "data" /\ ~Untouched => ChainKept'
  BY <1>1, <1>2, <1>3, <1>5 DEF Agreed, ChainKept, Heir, OneOf
<1> QED BY <1>1, <1>2, <1>3, <1>4, <1>6, <1>7, <1>8 DEF Agreed

(* At first nobody has the key and no call is made.                        *)
LEMMA ReadsAtFirst == Init => ReadInv
<1> SUFFICES ASSUME Init PROVE Agreed
  BY DEF ReadInv
<1>1. /\ members = Founders /\ up = Founders /\ latest = None /\ service \in Services
      /\ \A n \in Nodes : store[n] = None /\ disk[n] = None
      /\ \A c \in Clients : op[c] = NoOp
      /\ Total = 0
  BY DEF Init, Total, Troubles
<1>2. RingOK /\ Owner \in members /\ Near \subseteq members /\ members \subseteq Nodes
  BY <1>1, StoreAssumption, OwnerIn, NearIn DEF RingOK
<1>3. NoOp.kind = "get" /\ NoOp.step = "idle" /\ ~NoOp.alone
  BY DEF NoOp
<1>4. "get" \in KindsOf(service)
  BY <1>1, StoreAssumption DEF KindsOf
<1>5. RingKept
  BY <1>1 DEF RingKept
<1>6. \A c \in Clients : ~Busy(op[c]) /\ op[c].step # "copy"
  BY <1>1, <1>3 DEF Busy
<1>7. Calling
  BY <1>1, <1>3, <1>4 DEF Calling, Sane, Undisturbed, Progress
<1>8. OneCopy
  BY <1>1, <1>2, <1>6 DEF OneCopy
<1>9. Untouched /\ ChainOnly
  BY <1>1, <1>2, <1>6 DEF Untouched, ChainOnly
<1> QED BY <1>5, <1>7, <1>8, <1>9 DEF Agreed

(* What ends the conditions of the property does not come back.            *)
LEMMA CoveredBefore ==
  ASSUME LockInv, ListInv, [Next]_vars, Covered'
  PROVE  Covered
<1>1. /\ UNCHANGED service /\ happened \in [Troubles -> Nat] /\ happened' \in [Troubles -> Nat]
      /\ {"join", "leave", "crash"} \subseteq Troubles
      /\ \A t \in Troubles : happened[t] <= happened'[t]
  BY TroublesAreCounted
<1> QED BY <1>1 DEF Covered, Total

(* The invariant is inductive.                                             *)
LEMMA StepKeepsReads == LockInv /\ ListInv /\ ReadInv /\ [Next]_vars => ReadInv'
<1> SUFFICES ASSUME LockInv, ListInv, ReadInv, [Next]_vars, Covered' PROVE Agreed'
  BY DEF ReadInv
<1>1. KnownReads
  BY CoveredBefore DEF KnownReads, ReadInv
<1>2. RingOK'
  BY StepKeepsLists DEF ListInv
<1>3. ASSUME NEW c \in Clients, Work(c) PROVE Agreed'
  BY <1>1, <1>3, ReadPrimaryKeepsAgreed, ReadReplicaKeepsAgreed, NoReplicaKeepsAgreed,
     PutPrimaryKeepsAgreed, DeletePrimaryKeepsAgreed, AppendsKeepAgreed, AcquireKeepsAgreed,
     PutLockedKeepsAgreed, WalkChainKeepsAgreed, CopyReplicaKeepsAgreed, ReplicatedKeepsAgreed
     DEF Work
<1>4. ASSUME NEW c \in Clients, NEW kind \in Kinds, NEW h \in Homes, NEW x \in Items,
             Start(c, kind, h, x)
      PROVE  Agreed'
  BY <1>1, <1>4, StartKeepsAgreed
<1>5. ASSUME NEW n \in Nodes, Crash(n) \/ Forget(n) \/ Exit(n) \/ Join(n) PROVE Agreed'
  BY <1>1, <1>2, <1>5, CrashKeepsAgreed, ForgetKeepsAgreed, ExitKeepsAgreed, JoinKeepsAgreed
<1>6. ASSUME NEW n \in Nodes, NEW ok \in BOOLEAN, Leave(n, ok) PROVE Agreed'
  BY <1>1, <1>2, <1>6, LeaveKeepsAgreed
<1>7. CASE UNCHANGED vars
  BY <1>1, <1>7, StutterKeepsAgreed
<1> QED BY <1>3, <1>4, <1>5, <1>6, <1>7 DEF Next

(* For every ring, chain length and number of callers: a read that nothing *)
(* disturbs returns what the last undisturbed and fully replicated write   *)
(* left, after any one change of the ring (/data: after any leaves).       *)
THEOREM ReadsAreLatest == Spec => []ReadsLatest
<1>1. LockInv /\ ListInv /\ ReadInv => ReadsLatest
  <2> SUFFICES ASSUME ReadInv, Covered, NEW c \in Clients, op[c].step = "done",
                      op[c].kind = "get", op[c].alone, latest # Unsure
               PROVE  op[c].value = latest
    BY DEF ReadsLatest, Covered
  <2>1. Progress(op[c])
    BY DEF ReadInv, Agreed, Calling
  <2> QED BY <2>1 DEF Progress
<1> QED BY <1>1, LocksAtFirst, StepKeepsLocks, ListsAtFirst, StepKeepsLists,
           ReadsAtFirst, StepKeepsReads, PTL DEF Spec
===============================================================================
