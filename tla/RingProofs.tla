------------------------------ MODULE RingProofs ------------------------------
(***************************************************************************)
(* What ChordRing guarantees for any set of nodes and any bounds: types;   *)
(* pointers that only move closer while nodes only join; and one ordered   *)
(* ring as long as no call to a node that runs fails.                      *)
(***************************************************************************)
EXTENDS ChordRing, RingTablesProofs, NumberFacts, FiniteSetTheorems

(***************************************************************************)
(* Types                                                                   *)
(***************************************************************************)
(* A lookup has reached somebody, and a result that is about to be stored  *)
(* is a node.                                                              *)
ThreadOK ==
  \A n \in Nodes : /\ pc[n] = "lookup" => path[n] # <<>>
                   /\ pc[n] \in {"set", "alone"} => tgt[n] # None

(* What moving a thread on does to its locals, and to nobody else's.       *)
LEMMA GotoEffect ==
  ASSUME TypeOK, ThreadOK, NEW n \in Nodes, NEW step \in Steps, NEW i \in 0 .. M-1,
         NEW t \in Nodes \cup {None}, NEW p \in Seq(Nodes),
         step = "lookup" => p # <<>>, step \in {"set", "alone"} => t # None,
         Goto(n, step, i, t, p)
  PROVE  /\ pc' \in [Nodes -> Steps] /\ idx' \in [Nodes -> 0 .. M-1]
         /\ tgt' \in [Nodes -> Nodes \cup {None}] /\ path' \in [Nodes -> Seq(Nodes)]
         /\ ThreadOK'
PROOF
<1>1. pc' \in [Nodes -> Steps] /\ idx' \in [Nodes -> 0 .. M-1]
  BY DEF Goto, TypeOK
<1>2. tgt' \in [Nodes -> Nodes \cup {None}] /\ path' \in [Nodes -> Seq(Nodes)]
  BY DEF Goto, TypeOK
<1>3. ThreadOK'
  BY DEF Goto, TypeOK, ThreadOK
<1> QED BY <1>1, <1>2, <1>3

(* Node m's successor, and any entry of its table, is a node.              *)
LEMMA TableTypes ==
  ASSUME TypeOK
  PROVE  /\ \A m \in Nodes : Succ(m) \in Nodes /\ finger[m] \in [0 .. M-1 -> Nodes]
         /\ 0 \in 0 .. M-1 /\ 1 \in 0 .. M-1 /\ M-1 \in 0 .. M-1
         /\ Up \subseteq Nodes /\ None \notin Nodes
PROOF
<1>1. M \in Nat /\ M > 1
  BY MAssumption, RingAssumption
<1>2. 0 \in 0 .. M-1 /\ 1 \in 0 .. M-1 /\ M-1 \in 0 .. M-1
  BY <1>1
<1>3. \A m \in Nodes : finger[m] \in [0 .. M-1 -> Nodes]
  BY DEF TypeOK
<1>4. \A m \in Nodes : Succ(m) \in Nodes
  BY <1>2, <1>3 DEF Succ
<1>5. Up \subseteq Nodes /\ None \notin Nodes
  BY RingAssumption DEF Up
<1> QED BY <1>2, <1>3, <1>4, <1>5

(* A remote call leaves a legal budget.                                    *)
LEMMA CallTypes ==
  ASSUME TypeOK, NEW m, Answers(m) \/ Fails(m)
  PROVE  budget' \in [join : 0 .. MaxJoins, crash : 0 .. MaxCrashes,
                      leave : 0 .. MaxLeaves, fault : 0 .. MaxFaults]
PROOF
<1>1. budget.fault \in 0 .. MaxFaults
  BY DEF TypeOK
<1>2. CASE UNCHANGED budget
  BY <1>2 DEF TypeOK
<1>3. CASE budget.fault > 0 /\ budget' = [budget EXCEPT !.fault = @ - 1]
  <2>1. budget.fault - 1 \in 0 .. MaxFaults
    BY <1>1, <1>3, RingAssumption
  <2> QED BY <1>3, <2>1 DEF TypeOK
<1> QED BY <1>2, <1>3 DEF Answers, Fails

(* Writing one entry of a table.                                           *)
LEMMA SetSuccType ==
  ASSUME TypeOK, NEW n \in Nodes, NEW s \in Nodes, SetSucc(n, s)
  PROVE  finger' \in [Nodes -> [0 .. M-1 -> Nodes]]
PROOF
<1>1. [finger[n] EXCEPT ![0] = s] \in [0 .. M-1 -> Nodes]
  BY TableTypes
<1> QED BY <1>1 DEF SetSucc, TypeOK

(* Every step of every thread, handler and process keeps the types.        *)
LEMMA TypesKept ==
  ASSUME TypeOK, ThreadOK, [Next]_vars
  PROVE  TypeOK' /\ ThreadOK'
PROOF
<1> DEFINE GotoOK == /\ pc' \in [Nodes -> Steps] /\ idx' \in [Nodes -> 0 .. M-1]
                     /\ tgt' \in [Nodes -> Nodes \cup {None}]
                     /\ path' \in [Nodes -> Seq(Nodes)] /\ ThreadOK'
           NodeOK == /\ status' \in [Nodes -> {"down", "joining", "up", "leaving"}]
                     /\ finger' \in [Nodes -> [0 .. M-1 -> Nodes]]
                     /\ pred' \in [Nodes -> Nodes \cup {None}]
                     /\ farewell' \in [Nodes -> Seq(Farewells)]
           CheckOK == misses' \in [Nodes -> 0 .. 1]
           BudgetOK == budget' \in [join : 0 .. MaxJoins, crash : 0 .. MaxCrashes,
                                    leave : 0 .. MaxLeaves, fault : 0 .. MaxFaults]
<1>0. GotoOK /\ NodeOK /\ CheckOK /\ BudgetOK => TypeOK' /\ ThreadOK'
  BY DEF TypeOK
<1>e. <<>> \in Seq(Nodes) /\ <<>> \in Seq(Farewells)
  OBVIOUS
<1>a. /\ status \in [Nodes -> {"down", "joining", "up", "leaving"}]
      /\ finger \in [Nodes -> [0 .. M-1 -> Nodes]]
      /\ pred \in [Nodes -> Nodes \cup {None}]
      /\ farewell \in [Nodes -> Seq(Farewells)]
      /\ misses \in [Nodes -> 0 .. 1]
      /\ tgt \in [Nodes -> Nodes \cup {None}] /\ path \in [Nodes -> Seq(Nodes)]
      /\ idx \in [Nodes -> 0 .. M-1] /\ pc \in [Nodes -> Steps]
      /\ budget \in [join : 0 .. MaxJoins, crash : 0 .. MaxCrashes,
                     leave : 0 .. MaxLeaves, fault : 0 .. MaxFaults]
  BY DEF TypeOK
<1>g. ASSUME NEW n \in Nodes, NEW step \in Steps \ {"lookup", "set"}, NEW i \in 0 .. M-1,
             NEW t \in Nodes \cup {None}, step = "alone" => t # None, Goto(n, step, i, t, <<>>)
      PROVE  GotoOK
  BY <1>g, <1>e, GotoEffect
<1>1. ASSUME NEW n \in Nodes, Stabilize(n) PROVE TypeOK' /\ ThreadOK'
  <2>1. GotoOK
    BY <1>1, <1>a, <1>g, TableTypes DEF Stabilize, Steps
  <2> QED BY <1>0, <1>1, <1>a, <2>1 DEF Stabilize, node
<1>1p. ASSUME NEW n \in Nodes, AdoptPredecessor(n) PROVE TypeOK' /\ ThreadOK'
  <2>1. GotoOK
    BY <1>1p, <1>g, TableTypes DEF AdoptPredecessor, Steps
  <2>2. tgt[n] \in Nodes
    BY <1>1p, <1>a DEF AdoptPredecessor, Locks, ThreadOK
  <2>3. finger' \in [Nodes -> [0 .. M-1 -> Nodes]]
    BY <1>1p, <2>2, SetSuccType DEF AdoptPredecessor
  <2> QED BY <1>0, <1>1p, <1>a, <2>1, <2>3 DEF AdoptPredecessor
<1>2. ASSUME NEW n \in Nodes, GetPredecessor(n) PROVE TypeOK' /\ ThreadOK'
  <2>1. GotoOK
    BY <1>2, <1>a, <1>g, TableTypes DEF GetPredecessor, Answers, Steps
  <2>2. BudgetOK
    BY <1>2, CallTypes DEF GetPredecessor
  <2> QED BY <1>0, <1>2, <1>a, <2>1, <2>2 DEF GetPredecessor, node
<1>3. ASSUME NEW n \in Nodes, Adopt(n) PROVE TypeOK' /\ ThreadOK'
  <2>1. \E s \in Nodes : SetSucc(n, s) /\ Goto(n, "notify", 0, s, <<>>)
    BY <1>3, <1>a, TableTypes DEF Adopt
  <2>2. GotoOK
    BY <2>1, <1>g, TableTypes DEF Steps
  <2>3. finger' \in [Nodes -> [0 .. M-1 -> Nodes]]
    BY <2>1, SetSuccType
  <2> QED BY <1>0, <1>3, <1>a, <2>2, <2>3 DEF Adopt
<1>4. ASSUME NEW n \in Nodes, Notify(n) PROVE TypeOK' /\ ThreadOK'
  <2>1. GotoOK
    BY <1>4, <1>g, TableTypes DEF Notify, Steps
  <2>2. BudgetOK
    BY <1>4, CallTypes DEF Notify
  <2>3. pred' \in [Nodes -> Nodes \cup {None}]
    <3>1. CASE UNCHANGED pred
      BY <3>1, <1>a
    <3>2. CASE pred' = [pred EXCEPT ![tgt[n]] = n]
      BY <3>2, <1>a
    <3>3. UNCHANGED pred \/ Notified(tgt[n], n)
      BY <1>4 DEF Notify
    <3> QED BY <3>1, <3>2, <3>3 DEF Notified
  <2> QED BY <1>0, <1>4, <1>a, <2>1, <2>2, <2>3 DEF Notify
<1>5. ASSUME NEW n \in Nodes, Fallback(n) PROVE TypeOK' /\ ThreadOK'
  <2>1. \E step \in Steps \ {"lookup", "set", "alone"}, i \in 0 .. M-1 : Goto(n, step, i, None, <<>>)
    <3>1. idx[n] > 1 => idx[n] - 1 \in 0 .. M-1
      <4>1. idx[n] \in 0 .. M-1 /\ M \in Nat
        BY <1>a, MAssumption
      <4> QED BY <4>1
    <3>2. {"fallback", "fix"} \subseteq Steps \ {"lookup", "set", "alone"}
      BY DEF Steps
    <3>3. \/ Goto(n, "fix", 0, None, <<>>)
          \/ idx[n] > 1 /\ Goto(n, "fallback", idx[n] - 1, None, <<>>)
      BY <1>5 DEF Fallback
    <3> QED BY <3>1, <3>2, <3>3, TableTypes
  <2>2. GotoOK
    BY <2>1, <1>g
  <2>3. BudgetOK
    BY <1>5, <1>a, CallTypes DEF Fallback
  <2>4. finger' \in [Nodes -> [0 .. M-1 -> Nodes]]
    <3>1. finger[n][idx[n]] \in Nodes
      <4>1. idx[n] \in 0 .. M-1 /\ finger[n] \in [0 .. M-1 -> Nodes]
        BY <1>a
      <4> QED BY <4>1
    <3> QED BY <1>5, <1>a, <3>1, SetSuccType DEF Fallback
  <2> QED BY <1>0, <1>5, <1>a, <2>2, <2>3, <2>4 DEF Fallback
<1>6. ASSUME NEW n \in Nodes, NEW i \in 1 .. M-1, FixFinger(n, i)
      PROVE  TypeOK' /\ ThreadOK'
  <2>1. <<n>> \in Seq(Nodes) /\ <<n>> # <<>> /\ i \in 0 .. M-1
    OBVIOUS
  <2>2. GotoOK
    BY <1>6, <2>1, GotoEffect DEF FixFinger, Steps
  <2> QED BY <1>0, <1>6, <1>a, <2>2 DEF FixFinger, node
<1>7. ASSUME NEW n \in Nodes, LookupHop(n) PROVE TypeOK' /\ ThreadOK'
  <2> DEFINE t == path[n][Len(path[n])]
             next == ClosestPreceding(t, Key(n), finger[t])
  <2>1. path[n] \in Seq(Nodes) /\ path[n] # <<>>
    BY <1>7, <1>a DEF LookupHop, ThreadOK
  <2>2. t \in Nodes
    BY <2>1
  <2>3. next \in Nodes /\ Succ(t) \in Nodes
    BY <2>2, TableTypes, ClosestPrecedingChoice
  <2>4. Append(path[n], next) \in Seq(Nodes) /\ Append(path[n], next) # <<>>
    BY <2>1, <2>3
  <2>5. \/ Goto(n, "set", idx[n], Succ(t), <<>>)
        \/ Goto(n, "lookup", idx[n], None, Append(path[n], next))
    BY <1>7 DEF LookupHop
  <2>6. GotoOK
    <3>1. "set" \in Steps /\ "lookup" \in Steps /\ idx[n] \in 0 .. M-1 /\ Succ(t) # None
      BY <1>a, <2>3, TableTypes DEF Steps
    <3>2. CASE Goto(n, "set", idx[n], Succ(t), <<>>)
      BY <3>1, <3>2, <1>e, <2>3, GotoEffect
    <3>3. CASE Goto(n, "lookup", idx[n], None, Append(path[n], next))
      BY <3>1, <3>3, <2>4, GotoEffect
    <3> QED BY <2>5, <3>2, <3>3
  <2> QED BY <1>0, <1>7, <1>a, <2>6 DEF LookupHop, node
<1>8. ASSUME NEW n \in Nodes, LookupFails(n) PROVE TypeOK' /\ ThreadOK'
  <2>1. PICK k \in Remote(n) :
          /\ Fails(path[n][k])
          /\ IF k = 1
             THEN /\ status' = [status EXCEPT ![n] = "down"]
                  /\ Goto(n, "off", 0, None, <<>>)
             ELSE /\ UNCHANGED status
                  /\ Goto(n, "set", idx[n], Succ(path[n][k-1]), <<>>)
    BY <1>8 DEF LookupFails
  <2>2. BudgetOK
    BY <2>1, CallTypes
  <2>3. GotoOK
    <3>1. CASE k = 1
      BY <2>1, <3>1, <1>g, TableTypes DEF Steps
    <3>2. CASE k # 1
      <4>1. path[n] \in Seq(Nodes) /\ k \in 1 .. Len(path[n])
        BY <1>a, <2>1 DEF Remote
      <4>2. path[n][k-1] \in Nodes
        BY <3>2, <4>1
      <4>3. Succ(path[n][k-1]) \in Nodes /\ Succ(path[n][k-1]) # None /\ "set" \in Steps
        BY <4>2, TableTypes DEF Steps
      <4> QED BY <2>1, <3>2, <4>3, <1>a, <1>e, GotoEffect
    <3> QED BY <3>1, <3>2
  <2>4. status' \in [Nodes -> {"down", "joining", "up", "leaving"}]
    BY <2>1, <1>a
  <2> QED BY <1>0, <1>8, <1>a, <2>2, <2>3, <2>4 DEF LookupFails
<1>9. ASSUME NEW n \in Nodes, SetFinger(n) PROVE TypeOK' /\ ThreadOK'
  <2>1. GotoOK
    BY <1>9, <1>g, TableTypes DEF SetFinger, Steps
  <2>2. tgt[n] \in Nodes
    BY <1>9, <1>a DEF SetFinger, Locks, ThreadOK
  <2>3. [finger[n] EXCEPT ![idx[n]] = tgt[n]] \in [0 .. M-1 -> Nodes]
    BY <1>a, <2>2
  <2>4. finger' \in [Nodes -> [0 .. M-1 -> Nodes]]
    BY <1>9, <1>a, <2>3 DEF SetFinger
  <2> QED BY <1>0, <1>9, <1>a, <2>1, <2>4 DEF SetFinger
<1>10. ASSUME NEW n \in Nodes, CheckPredecessor(n) PROVE TypeOK' /\ ThreadOK'
  <2>1. GotoOK
    BY <1>10, <1>a, <1>g, TableTypes DEF CheckPredecessor, Steps
  <2> QED BY <1>0, <1>10, <1>a, <2>1 DEF CheckPredecessor, node
<1>11. ASSUME NEW n \in Nodes, PingPredecessor(n) PROVE TypeOK' /\ ThreadOK'
  <2>1. GotoOK
    BY <1>11, <1>g, TableTypes DEF PingPredecessor, Steps
  <2>2. BudgetOK
    BY <1>11, CallTypes DEF PingPredecessor
  <2>3. pred' \in [Nodes -> Nodes \cup {None}]
    <3>1. UNCHANGED pred \/ pred' = [pred EXCEPT ![n] = None]
      BY <1>11 DEF PingPredecessor
    <3> QED BY <3>1, <1>a
  <2>4. misses' \in [Nodes -> 0 .. 1]
    <3>1. 1 - misses[n] \in 0 .. 1 /\ 0 \in 0 .. 1
      <4>1. misses[n] \in 0 .. 1
        BY <1>a
      <4> QED BY <4>1
    <3>2. \E c \in 0 .. 1 : misses' = [misses EXCEPT ![n] = c]
      BY <1>11, <1>a, <3>1 DEF PingPredecessor
    <3> QED BY <3>2, <1>a
  <2> QED BY <1>0, <1>11, <1>a, <2>1, <2>2, <2>3, <2>4 DEF PingPredecessor
<1>12. ASSUME NEW n \in Nodes, Join(n) PROVE TypeOK' /\ ThreadOK'
  <2>1. PICK known \in Up : Goto(n, "lookup", 0, None, <<known>>)
    BY <1>12 DEF Join
  <2>2. <<known>> \in Seq(Nodes) /\ <<known>> # <<>>
    BY TableTypes
  <2>3. GotoOK
    BY <2>1, <2>2, TableTypes, GotoEffect DEF Steps
  <2>4. BudgetOK
    <3>1. budget.join - 1 \in 0 .. MaxJoins
      <4>1. budget.join \in 0 .. MaxJoins /\ MaxJoins \in Nat
        BY <1>a, RingAssumption
      <4>2. budget.join > 0
        BY <1>12 DEF Join
      <4> QED BY <4>1, <4>2
    <3> QED BY <1>12, <1>a, <3>1 DEF Join
  <2> QED BY <1>0, <1>12, <1>a, <2>3, <2>4 DEF Join
<1>13. ASSUME NEW n \in Nodes, Joined(n) PROVE TypeOK' /\ ThreadOK'
  <2>1. GotoOK
    BY <1>13, <1>g, TableTypes DEF Joined, Steps
  <2>2. tgt[n] \in Nodes
    BY <1>13, <1>a DEF Joined, ThreadOK
  <2>3. finger' \in [Nodes -> [0 .. M-1 -> Nodes]]
    BY <1>13, <2>2, SetSuccType DEF Joined
  <2> QED BY <1>0, <1>13, <1>a, <2>1, <2>3 DEF Joined
<1>14. ASSUME NEW n \in Nodes, Leave(n) PROVE TypeOK' /\ ThreadOK'
  <2>1. BudgetOK
    <3>1. budget.leave - 1 \in 0 .. MaxLeaves
      <4>1. budget.leave \in 0 .. MaxLeaves /\ MaxLeaves \in Nat
        BY <1>a, RingAssumption
      <4>2. budget.leave > 0
        BY <1>14 DEF Leave
      <4> QED BY <4>1, <4>2
    <3> QED BY <1>14, <1>a, <3>1 DEF Leave
  <2> DEFINE notes == << [to |-> Succ(n), pointer |-> "pred", value |-> pred[n]],
                         [to |-> pred[n], pointer |-> "succ", value |-> Succ(n)] >>
  <2>2. pred[n] # None => notes \in Seq(Farewells)
    BY <1>a, TableTypes DEF Farewells
  <2>3. farewell' \in [Nodes -> Seq(Farewells)]
    <3>1. \E f \in Seq(Farewells) : farewell' = [farewell EXCEPT ![n] = f]
      BY <1>14, <1>e, <2>2 DEF Leave
    <3> QED BY <3>1, <1>a
  <2>4. GotoOK
    BY <1>14, <1>a DEF Leave, ThreadOK
  <2> QED BY <1>0, <1>14, <1>a, <2>1, <2>3, <2>4 DEF Leave
<1>15. ASSUME NEW n \in Nodes, SendFarewell(n) PROVE TypeOK' /\ ThreadOK'
  <2> DEFINE f == Head(farewell[n])
  <2>1. farewell[n] \in Seq(Farewells) /\ farewell[n] # <<>>
    BY <1>15, <1>a DEF SendFarewell
  <2>2. f \in Farewells /\ Tail(farewell[n]) \in Seq(Farewells)
    BY <2>1
  <2>3. f.to \in Nodes /\ f.value \in Nodes
    BY <2>2 DEF Farewells
  <2>4. BudgetOK
    BY <1>15, CallTypes DEF SendFarewell
  <2>5. farewell' \in [Nodes -> Seq(Farewells)]
    BY <1>15, <1>a, <2>2 DEF SendFarewell
  <2>6. /\ pred' \in [Nodes -> Nodes \cup {None}]
        /\ finger' \in [Nodes -> [0 .. M-1 -> Nodes]]
    <3>1. CASE UNCHANGED <<finger, pred>>
      BY <3>1, <1>a
    <3>2. CASE Updated(f)
      BY <3>2, <1>a, <2>3, SetSuccType DEF Updated
    <3> QED BY <1>15, <3>1, <3>2 DEF SendFarewell
  <2>7. GotoOK
    BY <1>15, <1>a DEF SendFarewell, ThreadOK
  <2> QED BY <1>0, <1>15, <1>a, <2>4, <2>5, <2>6, <2>7 DEF SendFarewell
<1>16. ASSUME NEW n \in Nodes, Stopped(n) PROVE GotoOK /\ NodeOK /\ CheckOK
  <2>1. GotoOK
    BY <1>16, <1>g, TableTypes DEF Stopped, Steps
  <2>2. FreshTable(n) \in [0 .. M-1 -> Nodes]
    BY DEF FreshTable
  <2>3. NodeOK
    <3>1. /\ status' \in [Nodes -> {"down", "joining", "up", "leaving"}]
          /\ pred' \in [Nodes -> Nodes \cup {None}]
      BY <1>16, <1>a DEF Stopped
    <3>2. finger' \in [Nodes -> [0 .. M-1 -> Nodes]]
      BY <1>16, <1>a, <2>2 DEF Stopped
    <3>3. farewell' \in [Nodes -> Seq(Farewells)]
      BY <1>16, <1>a, <1>e DEF Stopped
    <3> QED BY <3>1, <3>2, <3>3
  <2>4. CheckOK
    <3>1. 0 \in 0 .. 1
      OBVIOUS
    <3> QED BY <1>16, <1>a, <3>1 DEF Stopped
  <2> QED BY <2>1, <2>3, <2>4
<1>17. ASSUME NEW n \in Nodes, Exit(n) PROVE TypeOK' /\ ThreadOK'
  BY <1>0, <1>16, <1>17, <1>a DEF Exit
<1>18. ASSUME NEW n \in Nodes, Crash(n) PROVE TypeOK' /\ ThreadOK'
  <2>1. BudgetOK
    <3>1. budget.crash - 1 \in 0 .. MaxCrashes
      <4>1. budget.crash \in 0 .. MaxCrashes /\ MaxCrashes \in Nat
        BY <1>a, RingAssumption
      <4>2. budget.crash > 0
        BY <1>18 DEF Crash
      <4> QED BY <4>1, <4>2
    <3> QED BY <1>18, <1>a, <3>1 DEF Crash
  <2> QED BY <1>0, <1>16, <1>18, <2>1 DEF Crash
<1>19. CASE UNCHANGED vars
  BY <1>19 DEF vars, node, TypeOK, ThreadOK
<1> QED
  BY <1>1, <1>2, <1>3, <1>4, <1>5, <1>6, <1>7, <1>8, <1>9, <1>10, <1>11, <1>12, <1>13,
     <1>14, <1>15, <1>17, <1>18, <1>19, <1>1p DEF Next, Maintain, Lookup, Depart

(* Threads that have not started yet.                                      *)
LEMMA IdleTypes ==
  ASSUME NEW r \in SUBSET Nodes, IdleThreads(r)
  PROVE  /\ pc \in [Nodes -> Steps] /\ idx \in [Nodes -> 0 .. M-1]
         /\ tgt \in [Nodes -> Nodes \cup {None}] /\ path \in [Nodes -> Seq(Nodes)]
         /\ farewell \in [Nodes -> Seq(Farewells)]
         /\ misses \in [Nodes -> 0 .. 1]
         /\ budget \in [join : 0 .. MaxJoins, crash : 0 .. MaxCrashes,
                        leave : 0 .. MaxLeaves, fault : 0 .. MaxFaults]
         /\ ThreadOK
PROOF
<1>1. 0 \in 0 .. M-1 /\ 0 \in 0 .. 1
  BY MAssumption
<1>2. pc \in [Nodes -> Steps] /\ idx \in [Nodes -> 0 .. M-1]
  BY <1>1 DEF IdleThreads, Steps
<1>3. tgt \in [Nodes -> Nodes \cup {None}] /\ path \in [Nodes -> Seq(Nodes)]
  BY DEF IdleThreads
<1>4. farewell \in [Nodes -> Seq(Farewells)]
  BY DEF IdleThreads
<1>5. misses \in [Nodes -> 0 .. 1]
  BY <1>1 DEF IdleThreads
<1>6. budget \in [join : 0 .. MaxJoins, crash : 0 .. MaxCrashes,
                  leave : 0 .. MaxLeaves, fault : 0 .. MaxFaults]
  <2>1. /\ MaxJoins \in 0 .. MaxJoins /\ MaxCrashes \in 0 .. MaxCrashes
        /\ MaxLeaves \in 0 .. MaxLeaves /\ MaxFaults \in 0 .. MaxFaults
    BY RingAssumption
  <2> QED BY <2>1 DEF IdleThreads, FullBudget
<1>7. ThreadOK
  BY DEF IdleThreads, ThreadOK
<1> QED BY <1>2, <1>3, <1>4, <1>5, <1>6, <1>7

(* A ring of one node has the types.                                       *)
LEMMA BootstrapTypes == InitBootstrap => TypeOK /\ ThreadOK
PROOF
<1> SUFFICES ASSUME InitBootstrap PROVE TypeOK /\ ThreadOK
  OBVIOUS
<1>1. PICK b \in Nodes :
        /\ status = [n \in Nodes |-> IF n = b THEN "up" ELSE "down"]
        /\ finger = [n \in Nodes |-> FreshTable(n)]
        /\ pred = [n \in Nodes |-> None]
        /\ IdleThreads({b})
  BY DEF InitBootstrap
<1>2. finger \in [Nodes -> [0 .. M-1 -> Nodes]]
  BY <1>1 DEF FreshTable
<1>3. /\ status \in [Nodes -> {"down", "joining", "up", "leaving"}]
      /\ pred \in [Nodes -> Nodes \cup {None}]
  BY <1>1
<1>4. {b} \in SUBSET Nodes
  OBVIOUS
<1> QED BY IdleTypes, <1>1, <1>2, <1>3, <1>4 DEF TypeOK

(* So has a settled ring.                                                  *)
LEMMA SettledTypes == InitSettled => TypeOK /\ ThreadOK
PROOF
<1> SUFFICES ASSUME InitSettled PROVE TypeOK /\ ThreadOK
  OBVIOUS
<1>1. Nodes \in SUBSET Ids /\ Nodes # {} /\ Nodes \in SUBSET Nodes
  BY RingAssumption
<1>2. \A n \in Nodes, i \in 0 .. M-1 : Owner(Nodes, FingerStart(n, i)) \in Nodes
  <2> TAKE n \in Nodes, i \in 0 .. M-1
  <2>1. FingerStart(n, i) \in Ids
    BY <1>1, FingerStartType
  <2> QED BY <1>1, <2>1, OwnerFirst DEF First
<1>3. finger \in [Nodes -> [0 .. M-1 -> Nodes]]
  BY <1>2 DEF InitSettled, IdealTable
<1>4. pred \in [Nodes -> Nodes \cup {None}]
  BY <1>1, PredecessorType DEF InitSettled
<1>5. status \in [Nodes -> {"down", "joining", "up", "leaving"}]
  BY DEF InitSettled
<1>6. IdleThreads(Nodes)
  BY DEF InitSettled
<1> QED BY IdleTypes, <1>1, <1>3, <1>4, <1>5, <1>6 DEF TypeOK

(* The tables of every node hold nodes, and every thread is at a step it   *)
(* has the arguments of, in a ring that starts empty and in one that has   *)
(* settled (all of chord/node.py's pointer updates).                       *)
THEOREM RingTypeCorrect ==
  (SpecBootstrap => []TypeOK) /\ (SpecSettled => []TypeOK)
PROOF
<1> DEFINE Inv == TypeOK /\ ThreadOK
<1>1. Inv /\ [Next]_vars => Inv'
  BY TypesKept
<1> QED BY <1>1, BootstrapTypes, SettledTypes, PTL DEF SpecBootstrap, SpecSettled

(***************************************************************************)
(* Rings that only grow                                                    *)
(***************************************************************************)
(* No node stops; calls may fail.                                          *)
OnlyJoins == MaxCrashes = 0 /\ MaxLeaves = 0

(* A lone node is still alone when it adopts the predecessor it read, and  *)
(* the lookup of a maintenance thread is for a finger above entry 0.       *)
ThreadCalm(n) ==
  /\ pc[n] = "alone" => tgt[n] \notin {None, n} /\ Succ(n) = n
  /\ pc[n] \in {"lookup", "set"} /\ status[n] = "up" => idx[n] >= 1

(* Nobody leaves, so nobody but the node's own thread writes a successor.  *)
Calm ==
  /\ budget.crash = 0 /\ budget.leave = 0
  /\ \A n \in Nodes : status[n] # "leaving" /\ farewell[n] = <<>> /\ ThreadCalm(n)

(* A call spends nothing but the budget of faults.                         *)
LEMMA CallsCalm ==
  ASSUME TypeOK, Calm, NEW m, Answers(m) \/ Fails(m)
  PROVE  budget'.crash = 0 /\ budget'.leave = 0
PROOF
  BY DEF TypeOK, Calm, Answers, Fails

(* A thread moves on; its node may just have entered the ring.             *)
LEMMA GotoCalm ==
  ASSUME TypeOK, Calm, NEW n \in Nodes, NEW step, NEW i, NEW t, NEW p,
         step \in {"lookup", "set"} /\ status'[n] = "up" => i >= 1,
         step = "alone" => t \notin {None, n} /\ Succ(n)' = n,
         Goto(n, step, i, t, p),
         \A m \in Nodes \ {n} : status'[m] = status[m] /\ Succ(m)' = Succ(m)
  PROVE  \A m \in Nodes : ThreadCalm(m)'
PROOF
<1> TAKE m \in Nodes
<1>1. /\ pc' = [pc EXCEPT ![n] = step] /\ idx' = [idx EXCEPT ![n] = i]
      /\ tgt' = [tgt EXCEPT ![n] = t]
  BY DEF Goto
<1>2. /\ pc \in [Nodes -> Steps] /\ idx \in [Nodes -> 0 .. M-1]
      /\ tgt \in [Nodes -> Nodes \cup {None}]
  BY DEF TypeOK
<1>3. CASE m = n
  <2>1. pc'[m] = step /\ idx'[m] = i /\ tgt'[m] = t
    BY <1>1, <1>2, <1>3
  <2> QED BY <1>3, <2>1 DEF ThreadCalm
<1>4. CASE m # n
  <2>1. pc'[m] = pc[m] /\ idx'[m] = idx[m] /\ tgt'[m] = tgt[m]
    BY <1>1, <1>2, <1>4
  <2>2. ThreadCalm(m)
    BY DEF Calm
  <2> QED BY <1>4, <2>1, <2>2 DEF ThreadCalm
<1> QED BY <1>3, <1>4

(* As long as no node stops, the ring stays calm.                          *)
LEMMA CalmKept ==
  ASSUME TypeOK, ThreadOK, Calm, [Next]_vars
  PROVE  Calm'
PROOF
<1> DEFINE Budget == budget'.crash = 0 /\ budget'.leave = 0
           Own(n) == \A m \in Nodes \ {n} : Succ(m)' = Succ(m)
           Stays == UNCHANGED <<status, farewell>>
           Moves(n) == \E step \in Steps \ {"lookup", "set", "alone"} :
                         \E i, t, p : Goto(n, step, i, t, p)
<1>a. \A m \in Nodes : status[m] # "leaving" /\ farewell[m] = <<>> /\ ThreadCalm(m)
  BY DEF Calm
<1>b. /\ UNCHANGED budget => Budget
      /\ \A m : Answers(m) \/ Fails(m) => Budget
  BY CallsCalm DEF Calm
<1>c. /\ UNCHANGED finger => \A n \in Nodes : Own(n)
      /\ \A n \in Nodes : \A i, s : finger' = [finger EXCEPT ![n][i] = s] => Own(n)
  BY DEF Succ, TypeOK
<1>d. ASSUME NEW n \in Nodes, NEW step, NEW i, NEW t, NEW p, Goto(n, step, i, t, p),
             step \in {"lookup", "set"} /\ status[n] = "up" => i >= 1,
             step = "alone" => t \notin {None, n} /\ Succ(n)' = n,
             Stays, Own(n), Budget
      PROVE  Calm'
  <2>1. \A m \in Nodes : ThreadCalm(m)'
    BY <1>d, GotoCalm
  <2> QED BY <1>a, <1>d, <2>1 DEF Calm
<1>e. ASSUME NEW n \in Nodes, Moves(n), Stays, Own(n), Budget
      PROVE  Calm'
  <2>1. PICK step \in Steps \ {"lookup", "set", "alone"} :
          \E i, t, p : Goto(n, step, i, t, p)
    BY <1>e
  <2>2. PICK i, t, p : Goto(n, step, i, t, p)
    BY <2>1
  <2> QED BY <1>d, <1>e, <2>1, <2>2
<1> HIDE DEF Own, Budget
<1>1. ASSUME NEW n \in Nodes, Stabilize(n) PROVE Calm'
  <2>1. Stays /\ Own(n) /\ Budget /\ UNCHANGED finger
    BY <1>1, <1>b, <1>c DEF Stabilize, node
  <2>2. CASE \/ Goto(n, "getpred", 0, Succ(n), <<>>)
             \/ Goto(n, "fix", 0, None, <<>>)
    <3>1. Moves(n)
      BY <2>2 DEF Steps
    <3> QED BY <1>e, <2>1, <3>1
  <2>3. CASE Succ(n) = n /\ pred[n] \notin {None, n} /\ Goto(n, "alone", 0, pred[n], <<>>)
    <3>1. Succ(n)' = n
      BY <2>1, <2>3 DEF Succ
    <3> QED BY <1>d, <2>1, <2>3, <3>1
  <2> QED BY <1>1, <2>2, <2>3 DEF Stabilize
<1>2. ASSUME NEW n \in Nodes, AdoptPredecessor(n) \/ Adopt(n) PROVE Calm'
  <2>1. Stays /\ Own(n) /\ Budget
    BY <1>2, <1>b, <1>c DEF AdoptPredecessor, Adopt, SetSucc
  <2>2. Moves(n)
    BY <1>2 DEF AdoptPredecessor, Adopt, Steps
  <2> QED BY <1>e, <2>1, <2>2
<1>3. ASSUME NEW n \in Nodes, GetPredecessor(n) \/ Notify(n) PROVE Calm'
  <2>1. Stays /\ Own(n) /\ Budget
    BY <1>3, <1>b, <1>c DEF GetPredecessor, Notify, node
  <2>2. Moves(n)
    BY <1>3 DEF GetPredecessor, Notify, Steps
  <2> QED BY <1>e, <2>1, <2>2
<1>4. ASSUME NEW n \in Nodes, Fallback(n) PROVE Calm'
  <2>1. Stays /\ Budget
    BY <1>4, <1>b DEF Fallback
  <2>2. Own(n)
    BY <1>4, <1>c DEF Fallback, SetSucc
  <2>3. Moves(n)
    BY <1>4 DEF Fallback, Steps
  <2> QED BY <1>e, <2>1, <2>2, <2>3
<1>5. ASSUME NEW n \in Nodes, NEW i \in 1 .. M-1, FixFinger(n, i) PROVE Calm'
  <2>1. Stays /\ Own(n) /\ Budget /\ Goto(n, "lookup", i, None, <<n>>) /\ i >= 1
    BY <1>5, <1>b, <1>c DEF FixFinger, node
  <2> QED BY <1>d, <2>1
<1>6. ASSUME NEW n \in Nodes, LookupHop(n) PROVE Calm'
  <2>1. Stays /\ Own(n) /\ Budget /\ (status[n] = "up" => idx[n] >= 1)
    BY <1>6, <1>a, <1>b, <1>c DEF LookupHop, ThreadCalm, node
  <2>2. PICK step \in {"set", "lookup"} : \E t, p : Goto(n, step, idx[n], t, p)
    BY <1>6 DEF LookupHop
  <2> QED BY <1>d, <2>1, <2>2
<1>7. ASSUME NEW n \in Nodes, LookupFails(n) PROVE Calm'
  <2>1. /\ Own(n) /\ Budget /\ UNCHANGED <<finger, farewell>>
        /\ status[n] = "up" => idx[n] >= 1
    BY <1>7, <1>a, <1>b, <1>c DEF LookupFails, ThreadCalm
  <2>2. CASE UNCHANGED status /\ \E t : Goto(n, "set", idx[n], t, <<>>)
    BY <1>d, <2>1, <2>2
  <2>3. CASE /\ status' = [status EXCEPT ![n] = "down"]
             /\ Goto(n, "off", 0, None, <<>>)
    <3>1. \A m \in Nodes : status'[m] # "leaving" /\ (m # n => status'[m] = status[m])
      BY <1>a, <2>3 DEF TypeOK
    <3>2. \A m \in Nodes : ThreadCalm(m)'
      BY <2>1, <2>3, <3>1, GotoCalm DEF Own
    <3> QED BY <1>a, <2>1, <3>1, <3>2 DEF Calm, Budget
  <2> QED BY <1>7, <2>2, <2>3 DEF LookupFails
<1>8. ASSUME NEW n \in Nodes, SetFinger(n) PROVE Calm'
  <2>1. Stays /\ Own(n) /\ Budget
    BY <1>8, <1>b, <1>c DEF SetFinger
  <2>2. Moves(n)
    BY <1>8 DEF SetFinger, Steps
  <2> QED BY <1>e, <2>1, <2>2
<1>9. ASSUME NEW n \in Nodes, CheckPredecessor(n) \/ PingPredecessor(n) PROVE Calm'
  <2>1. Stays /\ Own(n) /\ Budget
    BY <1>9, <1>b, <1>c DEF CheckPredecessor, PingPredecessor, node
  <2>2. Moves(n)
    BY <1>9 DEF CheckPredecessor, PingPredecessor, Steps
  <2> QED BY <1>e, <2>1, <2>2
<1>10. ASSUME NEW n \in Nodes, Join(n) PROVE Calm'
  <2>1. PICK known : Goto(n, "lookup", 0, None, <<known>>)
    BY <1>10 DEF Join
  <2>2. /\ status' = [status EXCEPT ![n] = "joining"]
        /\ UNCHANGED <<finger, farewell>> /\ Own(n)
    BY <1>10, <1>c DEF Join
  <2>3. /\ status'[n] = "joining"
        /\ \A m \in Nodes : status'[m] # "leaving" /\ (m # n => status'[m] = status[m])
    BY <1>a, <2>2 DEF TypeOK
  <2>4. \A m \in Nodes : ThreadCalm(m)'
    BY <2>1, <2>2, <2>3, GotoCalm DEF Own
  <2>5. budget'.crash = 0 /\ budget'.leave = 0
    BY <1>10 DEF Join, Calm, TypeOK
  <2> QED BY <1>a, <2>2, <2>3, <2>4, <2>5 DEF Calm
<1>11. ASSUME NEW n \in Nodes, Joined(n) PROVE Calm'
  <2>1. /\ status' = [status EXCEPT ![n] = "up"] /\ UNCHANGED farewell
        /\ Own(n) /\ Budget /\ Goto(n, "stabilize", 0, None, <<>>)
    BY <1>11, <1>b, <1>c DEF Joined, SetSucc
  <2>2. \A m \in Nodes : status'[m] # "leaving" /\ (m # n => status'[m] = status[m])
    BY <1>a, <2>1 DEF TypeOK
  <2>3. \A m \in Nodes : ThreadCalm(m)'
    BY <2>1, <2>2, GotoCalm DEF Own
  <2> QED BY <1>a, <2>1, <2>2, <2>3 DEF Calm, Budget
<1>12. ASSUME NEW n \in Nodes, Leave(n) \/ Crash(n) PROVE Calm'
  BY <1>12 DEF Leave, Crash, Calm
<1>13. ASSUME NEW n \in Nodes, SendFarewell(n) \/ Exit(n) PROVE Calm'
  BY <1>13, <1>a DEF SendFarewell, Exit
<1>14. CASE UNCHANGED vars
  <2>1. \A m \in Nodes : ThreadCalm(m)'
    BY <1>14, <1>a DEF vars, node, ThreadCalm, Succ
  <2> QED BY <1>14, <1>a, <2>1 DEF vars, node, Calm
<1> QED
  BY <1>1, <1>2, <1>3, <1>4, <1>5, <1>6, <1>7, <1>8, <1>9, <1>10, <1>11, <1>12, <1>13,
     <1>14 DEF Next, Maintain, Lookup, Depart

(* A step of a calm ring moves a successor pointer closer or not at all:   *)
(* only stabilize writes it, with a node found inside the old gap.         *)
LEMMA CloserStep ==
  ASSUME TypeOK, ThreadOK, Calm, Next, NEW n \in Nodes,
         status[n] = "up", pc[n] # "fallback", Succ(n)' # Succ(n)
  PROVE  Gap(n, Succ(n)') < Gap(n, Succ(n))
PROOF
<1>a. Nodes \subseteq Ids /\ n \in Up
  BY RingAssumption DEF Up
<1>b. \A m \in Nodes : status[m] # "leaving" /\ farewell[m] = <<>> /\ ThreadCalm(m)
  BY DEF Calm
<1>c. Succ(n) = finger[n][0] /\ Succ(n)' = finger'[n][0]
  BY DEF Succ
<1>d. finger \in [Nodes -> [0 .. M-1 -> Nodes]] /\ 0 \in 0 .. M-1
  BY TableTypes DEF TypeOK
<1>e. \A m \in Nodes : \A s : SetSucc(m, s) => m = n /\ Succ(n)' = s
  BY <1>c, <1>d DEF SetSucc
<1>f. ASSUME NEW s \in Nodes, s # n, Succ(n) = n, Succ(n)' = s
      PROVE  Gap(n, Succ(n)') < Gap(n, Succ(n))
  BY <1>f, <1>a, DistNat DEF Gap
<1>g. finger' # finger
  BY <1>c
<1>1. ASSUME NEW m \in Nodes, AdoptPredecessor(m) PROVE Gap(n, Succ(n)') < Gap(n, Succ(n))
  <2>1. SetSucc(m, tgt[m]) /\ Succ(m) = m /\ tgt[m] \notin {None, m}
    BY <1>1, <1>b DEF AdoptPredecessor, Locks, ThreadCalm
  <2>2. m = n /\ Succ(n)' = tgt[n]
    BY <1>e, <2>1
  <2>3. tgt[n] \in Nodes
    BY <2>1, <2>2 DEF TypeOK
  <2> QED BY <1>f, <2>1, <2>2, <2>3
<1>2. ASSUME NEW m \in Nodes, Adopt(m) PROVE Gap(n, Succ(n)') < Gap(n, Succ(n))
  <2>1. PICK s : /\ SetSucc(m, s)
                 /\ s = Succ(m) \/ (s = tgt[m] /\ tgt[m] # None /\ InRange(tgt[m], m, Succ(m)))
    BY <1>2 DEF Adopt
  <2>2. m = n /\ Succ(n)' = s
    BY <1>e, <2>1
  <2>3. s = tgt[n] /\ s \in Nodes /\ InRange(s, n, Succ(n)) /\ s # Succ(n)
    BY <2>1, <2>2 DEF TypeOK
  <2>4. Succ(n) \in Nodes
    BY TableTypes
  <2>5. CASE Succ(n) = n
    BY <1>f, <2>2, <2>3, <2>5
  <2>6. CASE Succ(n) # n
    <3>1. 0 < Dist(n, s) /\ Dist(n, s) < Dist(n, Succ(n))
      BY <1>a, <2>3, <2>4, <2>6, InRangeDist
    <3>2. s # n
      BY <3>1, <1>a, DistNat
    <3> QED BY <2>2, <2>6, <3>1, <3>2 DEF Gap
  <2> QED BY <2>5, <2>6
<1>3. ASSUME NEW m \in Nodes, SetFinger(m) PROVE FALSE
  <2>1. m \in Up /\ idx[m] >= 1 /\ idx[m] \in 0 .. M-1
    BY <1>3, <1>b DEF SetFinger, Locks, ThreadCalm, TypeOK, Up
  <2>2. finger' = [finger EXCEPT ![m][idx[m]] = tgt[m]]
    BY <1>3 DEF SetFinger
  <2>3. finger'[n][0] = finger[n][0]
    BY <2>1, <2>2, <1>d
  <2> QED BY <1>c, <2>3
<1>4. ASSUME NEW m \in Nodes, Joined(m) PROVE FALSE
  <2>1. SetSucc(m, tgt[m]) /\ status[m] = "joining"
    BY <1>4 DEF Joined
  <2> QED BY <1>e, <2>1
<1>5. ASSUME NEW m \in Nodes, Fallback(m) PROVE FALSE
  <2>1. m # n
    BY <1>5 DEF Fallback, Locks
  <2>2. \A c : ~SetSucc(m, c)
    BY <1>e, <2>1
  <2> QED BY <1>5, <1>g, <2>2 DEF Fallback
<1>6. ASSUME NEW m \in Nodes, SendFarewell(m) \/ Exit(m) \/ Leave(m) \/ Crash(m) PROVE FALSE
  BY <1>6, <1>b DEF SendFarewell, Exit, Leave, Crash, Calm
<1>7. ASSUME NEW m \in Nodes,
             \/ Stabilize(m) \/ GetPredecessor(m) \/ Notify(m) \/ Lookup(m) \/ CheckPredecessor(m)
             \/ PingPredecessor(m) \/ Join(m) \/ \E i \in 1 .. M-1 : FixFinger(m, i)
      PROVE  FALSE
  BY <1>7, <1>g DEF Stabilize, GetPredecessor, Notify, Lookup, LookupHop, LookupFails,
     CheckPredecessor, PingPredecessor, Join, FixFinger, node
<1> QED
  BY <1>1, <1>2, <1>3, <1>4, <1>5, <1>6, <1>7 DEF Next, Maintain, Depart

(* The first node of a ring starts with idle threads, and nobody leaves.   *)
LEMMA BootstrapCalm == OnlyJoins /\ InitBootstrap => Calm
PROOF
<1> SUFFICES ASSUME OnlyJoins, InitBootstrap PROVE Calm
  OBVIOUS
<1>1. PICK b \in Nodes :
        /\ status = [n \in Nodes |-> IF n = b THEN "up" ELSE "down"]
        /\ finger = [n \in Nodes |-> FreshTable(n)]
        /\ pred = [n \in Nodes |-> None]
        /\ IdleThreads({b})
  BY DEF InitBootstrap
<1>2. budget.crash = 0 /\ budget.leave = 0
  BY <1>1 DEF IdleThreads, FullBudget, OnlyJoins
<1>3. ASSUME NEW n \in Nodes PROVE status[n] # "leaving" /\ farewell[n] = <<>>
  BY <1>1 DEF IdleThreads
<1>4. ASSUME NEW n \in Nodes PROVE ThreadCalm(n)
  BY <1>1 DEF ThreadCalm, IdleThreads
<1> QED BY <1>2, <1>3, <1>4 DEF Calm

(* For any ring, any number of joins and of failed calls, and any          *)
(* interleaving: while no node stops, only the fallback of stabilize moves *)
(* a successor pointer away; no step of stabilize, notify, fix_fingers or  *)
(* join moves it past a node, although stabilize works with an answer that *)
(* may be out of date.                                                     *)
THEOREM JoinsOnlyCloser ==
  ASSUME OnlyJoins
  PROVE  SpecBootstrap => SuccessorOnlyCloser
PROOF
<1> DEFINE Inv == TypeOK /\ ThreadOK /\ Calm
           Step == \A n \in Nodes : status[n] = "up" /\ pc[n] # "fallback" /\ Succ(n)' # Succ(n) =>
                     Gap(n, Succ(n)') < Gap(n, Succ(n))
<1>1. InitBootstrap => Calm
  BY BootstrapCalm
<1>2. InitBootstrap => TypeOK /\ ThreadOK
  BY BootstrapTypes
<1>3. Inv /\ [Next]_vars => Inv'
  BY TypesKept, CalmKept
<1>4. Inv /\ [Next]_vars => [Step]_vars
  BY CloserStep
<1> QED BY <1>1, <1>2, <1>3, <1>4, PTL DEF SpecBootstrap, SuccessorOnlyCloser

(***************************************************************************)
(* One ordered ring                                                        *)
(***************************************************************************)
(* The pointer from n to s does not pass over b; only b may be alone.      *)
NoSkip(b, n, s) == n # b => s # n /\ Dist(n, s) <= Dist(n, b)

(* Successor pointers lead from node to node and pass over b nowhere.      *)
Based(b) ==
  b \in Up /\ \A n \in Up : Succ(n) \in Up /\ NoSkip(b, n, Succ(n))

Size == Cardinality(Nodes)
(* f lists the nodes a walk along successor pointers from n reaches.       *)
Trail(f, n) ==
  f \in [0 .. Size -> Up] /\ f[0] = n /\ \A k \in 1 .. Size : f[k] = Succ(f[k - 1])

(* The nodes are finitely many numbers.                                    *)
LEMMA NodeCount ==
  /\ IsFiniteSet(Nodes) /\ Size \in Nat /\ Up \subseteq Nodes /\ Nodes \subseteq Ids
  /\ IsFiniteSet(Up) /\ Cardinality(Up) <= Size
<1>1. Nodes \subseteq Ids /\ Up \subseteq Nodes
  BY RingAssumption DEF Up
<1>2. IsFiniteSet(Nodes)
  <2>1. IsFiniteSet(0 .. RingSize - 1)
    BY RingSizeNat, FS_Interval
  <2> QED BY <1>1, <2>1, FS_Subset DEF Ids
<1>3. IsFiniteSet(Up) /\ Cardinality(Up) <= Cardinality(Nodes) /\ Cardinality(Nodes) \in Nat
  BY <1>1, <1>2, FS_Subset, FS_CardinalityType
<1> QED BY <1>1, <1>2, <1>3 DEF Size

(* The nodes a walk reaches are those of a trail.                          *)
LEMMA WalkIsTrail ==
  ASSUME \A m \in Up : Succ(m) \in Up, NEW n \in Up
  PROVE  \E f : Trail(f, n) /\ Walk(n) = {f[k] : k \in 0 .. Size}
<1> DEFINE C == Cardinality(Nodes)
           hop == CHOOSE f : f = [k \in 0 .. C |-> IF k = 0 THEN n ELSE Succ(f[k - 1])]
           Step == [i \in Nat |-> [m \in Up |-> Succ(m)]]
<1>1. C \in Nat
  BY NodeCount DEF Size
<1>2. Step \in [Nat -> [Up -> Up]]
  OBVIOUS
<1>3. PICK f \in [0 .. C -> Up] :
        \A i \in 0 .. C : f[i] = IF i = 0 THEN n ELSE Step[i][f[i - 1]]
  <2> HIDE DEF C, Step
  <2>1. \E f \in [0 .. C -> Up] : Recursion(f, n, Step, C)
    BY <1>1, <1>2, RecursionExists, Zenon
  <2> QED BY <2>1, Zenon DEF Recursion
<1>4. f = [k \in 0 .. C |-> IF k = 0 THEN n ELSE Succ(f[k - 1])]
  <2>1. ASSUME NEW i \in 0 .. C PROVE f[i] = IF i = 0 THEN n ELSE Succ(f[i - 1])
    <3>1. CASE i = 0
      BY <1>3, <3>1
    <3>2. CASE i # 0
      <4>1. i \in Nat /\ i - 1 \in 0 .. C /\ f[i - 1] \in Up
        BY <1>1, <1>3, <3>2
      <4>2. Step[i][f[i - 1]] = Succ(f[i - 1])
        BY <4>1
      <4> QED BY <1>3, <3>2, <4>2
    <3> QED BY <3>1, <3>2
  <2> QED BY <1>3, <2>1
<1>5. hop = [k \in 0 .. C |-> IF k = 0 THEN n ELSE Succ(hop[k - 1])]
  BY <1>4, Zenon
<1>6. Walk(n) = {hop[k] : k \in 0 .. C}
  BY Zenon DEF Walk
<1> HIDE DEF hop
<1>7. hop[0] = n /\ \A k \in 1 .. C : hop[k] = Succ(hop[k - 1])
  BY <1>1, <1>5
<1>8. \A k \in 0 .. C : hop[k] \in Up
  <2> DEFINE T == {k \in 0 .. C : hop[k] \in Up}
  <2>1. 0 \in T
    BY <1>1, <1>7
  <2>2. ASSUME NEW k \in 1 .. C, k - 1 \in T PROVE k \in T
    BY <1>1, <1>7, <2>2
  <2>3. 0 .. C \subseteq T
    <3> HIDE DEF T, C
    <3> QED BY <1>1, <2>1, <2>2, IntervalInduction
  <2> QED BY <2>3
<1>9. hop \in [0 .. C -> Up]
  BY <1>5, <1>8
<1> QED BY <1>6, <1>7, <1>9 DEF Trail, Size

(* A walk from a node of a walk is the rest of it.                         *)
LEMMA TrailsAgree ==
  ASSUME NEW f, NEW n, Trail(f, n), NEW k \in 0 .. Size, NEW g, Trail(g, f[k])
  PROVE  \A i, s \in 0 .. Size : k + i = s => g[i] = f[s]
<1> DEFINE m == Size - k
           T == {j \in 0 .. m : g[j] = f[k + j]}
<1>1. m \in Nat /\ Size \in Nat
  BY NodeCount
<1>2. 0 \in T
  BY <1>1 DEF Trail
<1>3. ASSUME NEW j \in 1 .. m, j - 1 \in T PROVE j \in T
  <2>1. j \in 1 .. Size /\ k + j \in 1 .. Size /\ (k + j) - 1 = k + (j - 1)
    BY <1>1
  <2>2. g[j] = Succ(g[j - 1]) /\ f[k + j] = Succ(f[k + (j - 1)])
    BY <2>1 DEF Trail
  <2> QED BY <1>3, <2>2
<1>4. 0 .. m \subseteq T
  <2> HIDE DEF T, m
  <2> QED BY <1>1, <1>2, <1>3, IntervalInduction
<1> QED BY <1>1, <1>4

(* The walk moves away from b until it comes back to it.                   *)
LEMMA Forward ==
  ASSUME NEW b, Based(b), NEW n \in Up, Succ(n) # b
  PROVE  /\ Dist(b, n) < Dist(b, Succ(n))
         /\ Dist(n, Succ(n)) = Dist(b, Succ(n)) - Dist(b, n)
<1>1. b \in Ids /\ n \in Ids /\ Succ(n) \in Ids /\ NoSkip(b, n, Succ(n))
  BY NodeCount DEF Based
<1>2. CASE n = b
  BY <1>1, <1>2, DistNat
<1>3. CASE n # b
  BY <1>1, <1>3, RingSizeNat DEF NoSkip, Dist, Ids
<1> QED BY <1>2, <1>3

(* ... and so each of its nodes is farther from b than those before.       *)
LEMMA Increase ==
  ASSUME NEW b, Based(b), NEW n, NEW f, Trail(f, n), NEW c \in 0 .. Size,
         \A k \in 1 .. c : f[k] # b, NEW i \in 0 .. c, NEW j \in 0 .. c, i < j
  PROVE  Dist(b, f[i]) < Dist(b, f[j])
<1> DEFINE T == {k \in 0 .. c : i < k => Dist(b, f[i]) < Dist(b, f[k])}
<1>1. c \in Nat /\ Size \in Nat
  BY NodeCount
<1>2. \A k \in 0 .. c : f[k] \in Up /\ Dist(b, f[k]) \in Nat
  <2>1. \A m \in Up : Dist(b, m) \in Nat
    BY NodeCount, DistNat DEF Based
  <2> QED BY <1>1, <2>1 DEF Trail
<1>3. 0 \in T
  BY <1>1
<1>4. ASSUME NEW k \in 1 .. c, k - 1 \in T PROVE k \in T
  <2>1. k - 1 \in 0 .. c /\ k \in 1 .. Size /\ k \in 0 .. c
    BY <1>1
  <2>2. f[k] = Succ(f[k - 1]) /\ f[k - 1] \in Up /\ f[k] # b
    BY <1>2, <2>1 DEF Trail
  <2>3. Dist(b, f[k - 1]) < Dist(b, f[k])
    BY <2>2, Forward
  <2>4. CASE k - 1 = i
    BY <2>1, <2>3, <2>4
  <2>5. CASE k - 1 # i
    BY <1>2, <1>4, <2>1, <2>3, <2>5
  <2> QED BY <2>4, <2>5
<1>5. 0 .. c \subseteq T
  <2> HIDE DEF T
  <2> QED BY <1>1, <1>3, <1>4, IntervalInduction
<1> QED BY <1>5

(* Every walk comes to b.                                                  *)
LEMMA ComesToBase ==
  ASSUME NEW b, Based(b), NEW n, NEW f, Trail(f, n)
  PROVE  \E k \in 1 .. Size : f[k] = b
<1> SUFFICES ASSUME \A k \in 1 .. Size : f[k] # b PROVE FALSE
  OBVIOUS
<1>1. IsFiniteSet(0 .. Size) /\ Cardinality(0 .. Size) = Size + 1 /\ Size \in Nat
  BY NodeCount, FS_Interval
<1>2. PICK x, y \in 0 .. Size : x # y /\ f[x] = f[y]
  <2>1. Cardinality(Up) < Cardinality(0 .. Size) /\ IsFiniteSet(Up)
    BY <1>1, NodeCount, FS_CardinalityType
  <2>2. f \in [0 .. Size -> Up]
    BY DEF Trail
  <2> QED BY <1>1, <2>1, <2>2, FS_PigeonHole
<1>3. \A i, j \in 0 .. Size : i < j => Dist(b, f[i]) < Dist(b, f[j])
  <2>1. Size \in 0 .. Size
    BY <1>1
  <2> QED BY <2>1, Increase
<1>4. Dist(b, f[x]) \in Nat
  BY <1>2, NodeCount, DistNat DEF Trail, Based
<1>5. x < y \/ y < x
  BY <1>1, <1>2
<1> QED BY <1>2, <1>3, <1>4, <1>5

(* The walk from b to b: its last position is L.                           *)
Loop(b, f, L) ==
  /\ Trail(f, b) /\ L \in 1 .. Size /\ f[L] = b
  /\ \A k \in 1 .. L - 1 : f[k] # b

(* The walk from b does come back to b.                                   *)
LEMMA LoopExists ==
  ASSUME NEW b, Based(b)
  PROVE  \E f, L : Loop(b, f, L)
<1>1. PICK f : Trail(f, b)
  BY WalkIsTrail DEF Based
<1> DEFINE T == {k \in 1 .. Size : f[k] = b}
<1>2. T \subseteq Nat /\ T # {}
  BY <1>1, ComesToBase, NodeCount
<1>3. PICK L \in T : \A k \in T : L <= k
  <2> HIDE DEF T
  <2> QED BY <1>2, LeastNumber
<1>4. \A k \in 1 .. L - 1 : f[k] # b
  BY <1>3, NodeCount
<1> QED BY <1>1, <1>3, <1>4 DEF Loop

(* All that is reached from b lies on its loop.                            *)
LEMMA LoopIsClosed ==
  ASSUME NEW b, NEW f, NEW L, Loop(b, f, L), NEW i \in 0 .. Size
  PROVE  \E k \in 0 .. L - 1 : f[k] = f[i]
<1> DEFINE T == {j \in 0 .. Size : \E k \in 0 .. L - 1 : f[k] = f[j]}
<1>1. Size \in Nat /\ L \in 1 .. Size /\ 0 \in 0 .. L - 1
  BY NodeCount DEF Loop
<1>2. 0 \in T
  BY <1>1
<1>3. ASSUME NEW j \in 1 .. Size, j - 1 \in T PROVE j \in T
  <2>1. PICK k \in 0 .. L - 1 : f[k] = f[j - 1]
    BY <1>3
  <2>2. f[j] = Succ(f[j - 1]) /\ f[0] = b
    BY DEF Loop, Trail
  <2>3. k + 1 \in 1 .. Size /\ (k + 1) - 1 = k
    BY <1>1
  <2>4. f[k + 1] = Succ(f[(k + 1) - 1])
    BY <2>3 DEF Loop, Trail
  <2>5. f[j] = f[k + 1]
    BY <2>1, <2>2, <2>3, <2>4
  <2>6. CASE k + 1 = L
    BY <1>1, <2>2, <2>5, <2>6 DEF Loop
  <2>7. CASE k + 1 # L
    <3>1. k + 1 \in 0 .. L - 1
      BY <1>1, <2>7
    <3> QED BY <2>5, <3>1
  <2> QED BY <2>6, <2>7
<1>4. 0 .. Size \subseteq T
  <2> HIDE DEF T
  <2> QED BY <1>1, <1>2, <1>3, IntervalInduction
<1> QED BY <1>4

(* The ring is the loop.                                                   *)
LEMMA RingOnLoop ==
  ASSUME NEW b, Based(b), NEW f, NEW L, Loop(b, f, L), NEW n \in Up, OnRing(n)
  PROVE  \E k \in 0 .. L - 1 : f[k] = n
<1>0. Size \in Nat /\ L \in 1 .. Size /\ Trail(f, b) /\ f[0] = b
  BY NodeCount DEF Loop, Trail
<1>1. PICK m \in Up : Succ(m) = n /\ m \in Walk(n)
  BY DEF OnRing
<1>2. PICK g : Trail(g, n) /\ Walk(n) = {g[k] : k \in 0 .. Size}
  BY WalkIsTrail DEF Based
<1>3. PICK j \in 0 .. Size : g[j] = m
  BY <1>1, <1>2
<1>4. CASE n = b
  BY <1>0, <1>4
<1>5. CASE n # b
  <2>1. \E k \in 1 .. j : g[k] = b
    <3> SUFFICES ASSUME \A k \in 1 .. j : g[k] # b PROVE FALSE
      OBVIOUS
    <3>1. Dist(b, m) < Dist(b, n)
      BY <1>1, <1>5, Forward
    <3>2. g[0] = n
      BY <1>2 DEF Trail
    <3>3. CASE j = 0
      BY <1>3, <3>1, <3>2, <3>3, NodeCount, DistNat DEF Based
    <3>4. CASE j # 0
      <4>1. 0 \in 0 .. j /\ j \in 0 .. j /\ 0 < j
        BY <1>0, <3>4
      <4>2. Dist(b, g[0]) < Dist(b, g[j])
        BY <1>2, <4>1, Increase
      <4>3. Dist(b, n) \in Nat /\ Dist(b, m) \in Nat
        BY NodeCount, DistNat DEF Based
      <4> QED BY <1>3, <3>1, <3>2, <4>2, <4>3
    <3> QED BY <3>3, <3>4
  <2>2. PICK k \in 1 .. j : g[k] = b
    BY <2>1
  <2>3. k \in 0 .. Size /\ j - k \in 0 .. Size - k /\ k + (j - k) = j /\ j - k \in 0 .. Size
    BY <1>0
  <2>4. f[j - k] = m
    <3>1. Trail(f, g[k])
      BY <1>0, <2>2
    <3>2. \A i, s \in 0 .. Size : k + i = s => f[i] = g[s]
      BY <1>2, <2>3, <3>1, TrailsAgree
    <3> QED BY <1>3, <2>3, <3>2
  <2>5. PICK q \in 0 .. L - 1 : f[q] = m
    BY <2>3, <2>4, LoopIsClosed
  <2>6. q + 1 \in 1 .. Size /\ q + 1 \in 0 .. Size /\ (q + 1) - 1 = q
    BY <1>0
  <2>7. f[q + 1] = n
    BY <1>0, <1>1, <2>5, <2>6 DEF Trail
  <2> QED BY <2>6, <2>7, LoopIsClosed
<1> QED BY <1>4, <1>5

(* Every node of the loop is a node of the ring.                          *)
LEMMA LoopOnRing ==
  ASSUME NEW b, Based(b), NEW f, NEW L, Loop(b, f, L), NEW k \in 0 .. L - 1
  PROVE  f[k] \in Up /\ OnRing(f[k])
<1>0. Size \in Nat /\ L \in 1 .. Size /\ Trail(f, b) /\ f[0] = b /\ f[L] = b
  BY NodeCount DEF Loop, Trail
<1>1. \A i \in 0 .. Size : f[i] \in Up
  BY <1>0 DEF Trail
<1>2. k \in 0 .. Size /\ f[k] \in Up
  BY <1>0, <1>1
<1>3. PICK g : Trail(g, f[k]) /\ Walk(f[k]) = {g[i] : i \in 0 .. Size}
  BY <1>2, WalkIsTrail DEF Based
<1>a. \A i, s \in 0 .. Size : k + i = s => g[i] = f[s]
  BY <1>0, <1>2, <1>3, TrailsAgree
<1>4. CASE k = 0
  <2>1. L - 1 \in 0 .. Size /\ L - 1 \in 0 .. Size - k /\ k + (L - 1) = L - 1
    BY <1>0, <1>4
  <2>2. g[L - 1] = f[L - 1] /\ f[L] = Succ(f[L - 1])
    BY <1>0, <1>a, <2>1 DEF Trail
  <2>3. f[L - 1] \in Walk(f[k])
    BY <1>3, <2>1, <2>2
  <2> QED BY <1>0, <1>1, <1>2, <1>4, <2>1, <2>2, <2>3 DEF OnRing
<1>5. CASE k # 0
  <2> DEFINE d == L - k
  <2>1. /\ d \in 0 .. Size /\ d \in 0 .. Size - k /\ k + d = L /\ k \in 1 .. Size
        /\ k - 1 \in 0 .. Size - d /\ k - 1 \in 0 .. Size /\ d + (k - 1) \in 0 .. Size
    BY <1>0, <1>5
  <2>2. g[d] = b
    BY <1>0, <1>a, <2>1
  <2>3. f[k - 1] = g[d + (k - 1)]
    <3>1. Trail(f, g[d])
      BY <1>0, <2>2
    <3>2. \A i, s \in 0 .. Size : d + i = s => f[i] = g[s]
      <4> HIDE DEF d
      <4> QED BY <1>3, <2>1, <3>1, TrailsAgree
    <3> QED BY <2>1, <3>2
  <2>4. f[k - 1] \in Walk(f[k])
    BY <1>3, <2>1, <2>3
  <2>5. f[k] = Succ(f[k - 1])
    BY <1>0, <2>1 DEF Trail
  <2> QED BY <1>1, <1>2, <2>1, <2>4, <2>5 DEF OnRing
<1> QED BY <1>4, <1>5

(* No node of the loop lies between a node of it and the next.             *)
LEMMA LoopInOrder ==
  ASSUME NEW b, Based(b), NEW f, NEW L, Loop(b, f, L),
         NEW k \in 0 .. L - 1, NEW i \in 0 .. L - 1, f[i] # f[k]
  PROVE  Succ(f[k]) # f[k] /\ Dist(f[k], Succ(f[k])) <= Dist(f[k], f[i])
<1> DEFINE n == f[k]
           m == f[i]
<1>0. /\ Size \in Nat /\ L \in 1 .. Size /\ Trail(f, b) /\ f[0] = b /\ f[L] = b
      /\ L - 1 \in 0 .. Size /\ \A j \in 1 .. L - 1 : f[j] # b
  BY NodeCount DEF Loop, Trail
<1>1. /\ n \in Up /\ m \in Up /\ n \in Ids /\ m \in Ids /\ b \in Ids /\ Succ(n) \in Ids
      /\ b \in Up
  BY <1>0, LoopOnRing, NodeCount DEF Based
<1>2. f[k + 1] = Succ(n)
  <2>1. k + 1 \in 1 .. Size /\ (k + 1) - 1 = k
    BY <1>0
  <2> QED BY <1>0, <2>1 DEF Trail
<1>3. k # i
  OBVIOUS
<1>4. \A x, y \in 0 .. L - 1 : x < y => Dist(b, f[x]) < Dist(b, f[y])
  BY <1>0, Increase
<1>5. CASE i < k
  <2>1. n # b /\ Dist(b, m) < Dist(b, n)
    BY <1>0, <1>4, <1>5
  <2>2. Succ(n) # n /\ Dist(n, Succ(n)) <= Dist(n, b)
    BY <1>1, <2>1 DEF Based, NoSkip
  <2> HIDE DEF n, m
  <2>3. Dist(n, b) <= Dist(n, m)
    BY <1>1, <2>1, RingSizeNat DEF Dist, Ids
  <2>4. Dist(n, b) \in Nat /\ Dist(n, m) \in Nat /\ Dist(n, Succ(n)) \in Nat
    BY <1>1, DistNat
  <2>5. Dist(n, Succ(n)) <= Dist(n, m)
    BY <2>2, <2>3, <2>4
  <2> QED BY <2>2, <2>5 DEF n, m
<1>6. CASE k < i
  <2>1. k + 1 \in 1 .. L - 1 /\ Succ(n) # b
    BY <1>0, <1>2, <1>6
  <2>2. Dist(b, n) < Dist(b, Succ(n)) /\ Dist(n, Succ(n)) = Dist(b, Succ(n)) - Dist(b, n)
    BY <1>1, <2>1, Forward
  <2>3. Dist(b, Succ(n)) <= Dist(b, m)
    <3>1. CASE k + 1 = i
      <4>1. Dist(b, m) \in Nat
        BY <1>1, DistNat
      <4> QED BY <1>2, <3>1, <4>1
    <3>2. CASE k + 1 # i
      <4>1. k + 1 < i /\ k + 1 \in 0 .. L - 1
        BY <1>0, <1>6, <3>2
      <4>2. Dist(b, f[k + 1]) < Dist(b, f[i])
        BY <1>4, <4>1
      <4>3. Dist(b, m) \in Nat /\ Dist(b, Succ(n)) \in Nat
        BY <1>1, DistNat
      <4> QED BY <1>2, <4>2, <4>3
    <3> QED BY <3>1, <3>2
  <2> HIDE DEF n, m
  <2>4. /\ Dist(b, n) \in Nat /\ Dist(b, m) \in Nat /\ Dist(b, Succ(n)) \in Nat
    BY <1>1, DistNat
  <2>5. Dist(b, n) <= Dist(b, m)
    BY <2>2, <2>3, <2>4
  <2>6. Dist(n, m) = Dist(b, m) - Dist(b, n)
    BY <1>1, <2>5, DistSplit
  <2>7. Dist(n, Succ(n)) <= Dist(n, m)
    BY <2>2, <2>3, <2>4, <2>6
  <2>8. Succ(n) # n
    BY <2>2, <2>4
  <2> QED BY <2>7, <2>8 DEF n, m
<1> QED BY <1>3, <1>5, <1>6

(* A ring whose pointers pass over b nowhere is one ordered cycle, and     *)
(* every node leads to it.                                                 *)
LEMMA BasedIsOrdered == (\E b : Based(b)) => OneOrderedRing
<1> SUFFICES ASSUME NEW b, Based(b) PROVE OneOrderedRing
  OBVIOUS
<1> DEFINE ring == {n \in Up : OnRing(n)}
<1>1. PICK f, L : Loop(b, f, L)
  BY LoopExists
<1>2. L \in 1 .. Size /\ Size \in Nat /\ 0 \in 0 .. L - 1 /\ f[0] = b /\ Trail(f, b)
  BY <1>1, NodeCount DEF Loop, Trail
<1>3. \A n : n \in ring <=> \E k \in 0 .. L - 1 : f[k] = n
  BY <1>1, RingOnLoop, LoopOnRing
<1>4. b \in ring /\ ring \in SUBSET Ids /\ ring # {}
  BY <1>2, <1>3, NodeCount
<1>5. ASSUME NEW n \in ring PROVE Succ(n) = IdealSuccessor(ring, n)
  <2> DEFINE q == (n + 1) % RingSize
  <2>1. PICK k \in 0 .. L - 1 : f[k] = n
    BY <1>3
  <2>2. Succ(n) \in ring
    <3>1. k + 1 \in 1 .. Size /\ k + 1 \in 0 .. Size /\ (k + 1) - 1 = k
      BY <1>2
    <3>2. f[k + 1] = Succ(n)
      BY <1>2, <2>1, <3>1 DEF Trail
    <3> QED BY <1>1, <1>3, <3>1, <3>2, LoopIsClosed
  <2>3. /\ n \in Ids /\ Succ(n) \in Ids /\ q \in Ids
        /\ \A x \in Ids \ {n} : Dist(q, x) = Dist(n, x) - 1
        /\ Dist(q, n) = RingSize - 1
    BY <1>4, <2>2, NextId
  <2>4. ASSUME NEW m \in ring PROVE Dist(q, Succ(n)) <= Dist(q, m)
    <3>1. m \in Ids
      BY <1>4
    <3>2. CASE m = n
      <4>1. Dist(q, Succ(n)) \in Nat /\ Dist(q, Succ(n)) < RingSize
        <5> HIDE DEF q
        <5> QED BY <2>3, DistNat
      <4> QED BY <2>3, <3>2, <4>1, RingSizeNat
    <3>3. CASE m # n
      <4>1. PICK i \in 0 .. L - 1 : f[i] = m
        BY <1>3
      <4>2. Succ(n) # n /\ Dist(n, Succ(n)) <= Dist(n, m)
        BY <1>1, <2>1, <3>3, <4>1, LoopInOrder
      <4>3. Dist(n, Succ(n)) \in Nat /\ Dist(n, m) \in Nat
        BY <2>3, <3>1, DistNat
      <4> HIDE DEF q
      <4> QED BY <2>3, <3>1, <3>3, <4>2, <4>3
    <3> QED BY <3>2, <3>3
  <2>5. First(ring, q, Succ(n))
    BY <2>2, <2>4 DEF First
  <2>6. Succ(n) = Owner(ring, q)
    <3> HIDE DEF ring, q
    <3> QED BY <1>4, <2>3, <2>5, OwnerFirst
  <2> QED BY <2>6 DEF IdealSuccessor
<1>6. ASSUME NEW n \in Up PROVE Walk(n) \cap ring # {}
  <2>1. PICK g : Trail(g, n) /\ Walk(n) = {g[k] : k \in 0 .. Size}
    BY WalkIsTrail DEF Based
  <2>2. PICK k \in 1 .. Size : g[k] = b
    BY <2>1, ComesToBase
  <2>3. b \in Walk(n)
    BY <1>2, <2>1, <2>2
  <2> QED BY <1>4, <2>3
<1> QED BY <1>5, <1>6 DEF OneOrderedRing

(* What a node in the ring points to is in the ring, and its successor     *)
(* pointer does not pass over b; the others have the tables of __init__.   *)
TablesSound(b, n) ==
  IF n \in Up
  THEN /\ \A i \in 0 .. M-1 : finger[n][i] \in Up
       /\ pred[n] \in Up \cup {None} /\ NoSkip(b, n, Succ(n))
  ELSE finger[n] = FreshTable(n) /\ pred[n] = None

(* What a thread works with is in the ring, and the successor a joining    *)
(* node has been told does not make it pass over b.                        *)
ThreadSound(b, n) ==
  /\ pc[n] # "fallback" /\ tgt[n] \in Up \cup {None}
  /\ pc[n] \in {"getpred", "notify", "ping"} => tgt[n] # None
  /\ \A k \in 1 .. Len(path[n]) : path[n][k] \in Up
  /\ status[n] = "joining" /\ pc[n] = "set" => NoSkip(b, n, tgt[n])

Sound(b) == b \in Up /\ \A n \in Nodes : TablesSound(b, n) /\ ThreadSound(b, n)

(* No call to a healthy node has failed.                                   *)
NoFault == budget.fault = MaxFaults
SoundInv == NoFault => \E b \in Nodes : Sound(b)

(* A call to a node of the ring succeeds.                                  *)
LEMMA CallsSucceed ==
  ASSUME TypeOK, NoFault, NoFault', NEW m, Fails(m)
  PROVE  m \notin Up
  BY DEF NoFault, Fails, TypeOK

(* A thread moves on with what is in the ring.                             *)
LEMMA GotoSound ==
  ASSUME TypeOK, NEW b \in Nodes, Sound(b), NEW n \in Nodes,
         NEW step, NEW i, NEW t, NEW p, Goto(n, step, i, t, p),
         Up \subseteq Up', \A m \in Nodes \ {n} : status'[m] = status[m],
         step # "fallback", t \in Up' \cup {None},
         step \in {"getpred", "notify", "ping"} => t # None,
         \A k \in 1 .. Len(p) : p[k] \in Up',
         status'[n] = "joining" /\ step = "set" => NoSkip(b, n, t)
  PROVE  \A m \in Nodes : ThreadSound(b, m)'
<1> TAKE m \in Nodes
<1>1. /\ pc' = [pc EXCEPT ![n] = step] /\ tgt' = [tgt EXCEPT ![n] = t]
      /\ path' = [path EXCEPT ![n] = p]
  BY DEF Goto
<1>2. DOMAIN pc = Nodes /\ DOMAIN tgt = Nodes /\ DOMAIN path = Nodes
  BY DEF TypeOK
<1>3. CASE m = n
  <2>1. pc'[m] = step /\ tgt'[m] = t /\ path'[m] = p
    BY <1>1, <1>2, <1>3
  <2> QED BY <1>3, <2>1 DEF ThreadSound, NoSkip
<1>4. CASE m # n
  <2>1. /\ pc'[m] = pc[m] /\ tgt'[m] = tgt[m] /\ path'[m] = path[m]
        /\ status'[m] = status[m]
    BY <1>1, <1>2, <1>4
  <2>2. ThreadSound(b, m)
    BY DEF Sound
  <2> QED BY <2>1, <2>2 DEF ThreadSound, NoSkip
<1> QED BY <1>3, <1>4

(* The successor a lookup ends with, told to a node that joins.            *)
LEMMA AnswerSkipsNothing ==
  ASSUME NEW b \in Ids, NEW n \in Ids, NEW t \in Ids, NEW s \in Ids,
         NoSkip(b, t, s), n # b, n # t, n # s,
         s = t \/ InRangeInc(n, t, s) \/ ~InRange(s, t, n)
  PROVE  NoSkip(b, n, s)
<1>1. CASE s = t
  <2>1. t = b
    BY <1>1 DEF NoSkip
  <2> QED BY <1>1, <2>1, DistNat DEF NoSkip
<1>2. CASE s # t
  <2>1. Dist(t, n) <= Dist(t, s) /\ 0 < Dist(t, n)
    <3>1. CASE InRangeInc(n, t, s)
      BY <1>2, <3>1, InRangeIncDist
    <3>2. CASE ~InRange(s, t, n)
      <4>1. ~(0 < Dist(t, s) /\ Dist(t, s) < Dist(t, n))
        BY <3>2, InRangeDist
      <4>2. Dist(t, s) \in Nat /\ Dist(t, n) \in Nat /\ Dist(t, s) # 0 /\ Dist(t, n) # 0
        BY <1>2, DistNat
      <4> QED BY <4>1, <4>2
    <3> QED BY <1>2, <3>1, <3>2
  <2>2. CASE t = b
    BY <2>1, <2>2, RingSizeNat DEF NoSkip, Dist, Ids
  <2>3. CASE t # b
    <3>1. Dist(t, s) <= Dist(t, b)
      BY <2>3 DEF NoSkip
    <3> QED BY <2>1, <3>1, RingSizeNat DEF NoSkip, Dist, Ids
  <2> QED BY <2>2, <2>3
<1> QED BY <1>1, <1>2

(* No step of join, stabilize, notify or fix_fingers passes over b.        *)
LEMMA SoundStep ==
  ASSUME TypeOK, ThreadOK, Calm, NEW b \in Nodes, Sound(b), NoFault, NoFault', [Next]_vars
  PROVE  Sound(b)'
<1> DEFINE Threads == \A m \in Nodes : ThreadSound(b, m)'
           Tables == \A m \in Nodes : TablesSound(b, m)'
<1>a. /\ \A n \in Nodes : TablesSound(b, n) /\ ThreadSound(b, n)
      /\ b \in Up /\ None \notin Up /\ Up \subseteq Nodes /\ Nodes \subseteq Ids
  BY RingAssumption DEF Sound, Up
<1>b. \A m : Fails(m) => m \notin Up
  BY CallsSucceed
<1>c. \A n \in Up : /\ Succ(n) \in Up /\ NoSkip(b, n, Succ(n)) /\ pred[n] \in Up \cup {None}
                    /\ \A i \in 0 .. M-1 : finger[n][i] \in Up
  <2>1. 0 \in 0 .. M-1
    BY TableTypes
  <2> QED BY <1>a, <2>1 DEF TablesSound, Succ
<1>e. UNCHANGED status => Up' = Up /\ b \in Up'
  BY <1>a DEF Up
<1>d. UNCHANGED <<status, finger, pred>> => Tables
  <2> SUFFICES ASSUME UNCHANGED <<status, finger, pred>>, NEW m \in Nodes
               PROVE  TablesSound(b, m)'
    OBVIOUS
  <2>1. TablesSound(b, m) /\ Up' = Up /\ Succ(m)' = Succ(m)
    BY <1>a, <1>e DEF Succ
  <2> QED BY <2>1 DEF TablesSound, FreshTable, NoSkip
<1>f. ASSUME UNCHANGED status, NEW n \in Nodes, NEW step, NEW i, NEW t, NEW p,
             Goto(n, step, i, t, p), step # "fallback", t \in Up \cup {None},
             step \in {"getpred", "notify", "ping"} => t # None,
             \A k \in 1 .. Len(p) : p[k] \in Up, status[n] = "joining" => step # "set"
      PROVE  Threads
  BY <1>e, <1>f, GotoSound
<1>g. ASSUME UNCHANGED <<status, pred>>, NEW n \in Up, NEW s \in Up, SetSucc(n, s), NoSkip(b, n, s)
      PROVE  Tables
  <2>1. finger' = [finger EXCEPT ![n] = [finger[n] EXCEPT ![0] = s]] /\ 0 \in 0 .. M-1
    BY <1>a, <1>g, TableTypes DEF SetSucc, TypeOK
  <2>2. ASSUME NEW m \in Nodes PROVE TablesSound(b, m)'
    <3>1. CASE m = n
      <4>1. Succ(m)' = s /\ \A i \in 0 .. M-1 : finger'[m][i] \in {s, finger[m][i]}
        BY <2>1, <3>1 DEF Succ, TypeOK
      <4> QED BY <1>a, <1>e, <1>g, <3>1, <4>1 DEF TablesSound, NoSkip
    <3>2. CASE m # n
      <4>1. finger'[m] = finger[m] /\ Succ(m)' = Succ(m)
        BY <2>1, <3>2 DEF Succ, TypeOK
      <4> QED BY <1>a, <1>e, <1>g, <4>1 DEF TablesSound, NoSkip, FreshTable
    <3> QED BY <3>1, <3>2
  <2> QED BY <2>2
<1>h. ASSUME UNCHANGED <<status, finger>>, NEW n \in Up, NEW p \in Up \cup {None},
             pred' = [pred EXCEPT ![n] = p]
      PROVE  Tables
  <2> SUFFICES ASSUME NEW m \in Nodes PROVE TablesSound(b, m)'
    OBVIOUS
  <2>1. TablesSound(b, m) /\ Up' = Up /\ Succ(m)' = Succ(m) /\ finger' = finger
    BY <1>a, <1>e, <1>h DEF Succ
  <2>2. pred'[m] = IF m = n THEN p ELSE pred[m]
    BY <1>h DEF TypeOK
  <2> QED BY <1>h, <2>1, <2>2 DEF TablesSound, FreshTable, NoSkip
<1> HIDE DEF Threads, Tables
<1>i. ASSUME UNCHANGED status, Threads, Tables PROVE Sound(b)'
  BY <1>e, <1>i DEF Sound, Threads, Tables
<1>j. \A n \in Up : status[n] # "joining"
  BY DEF Up
<1>1. ASSUME NEW n \in Nodes, Stabilize(n) PROVE Sound(b)'
  <2>1. n \in Up /\ UNCHANGED <<status, finger, pred>>
    BY <1>1 DEF Stabilize, Locks, node
  <2>2. \/ Goto(n, "getpred", 0, Succ(n), <<>>) \/ Goto(n, "fix", 0, None, <<>>)
        \/ pred[n] # None /\ Goto(n, "alone", 0, pred[n], <<>>)
    BY <1>1 DEF Stabilize
  <2>3. Threads
    BY <1>a, <1>c, <1>f, <1>j, <2>1, <2>2
  <2> QED BY <1>d, <1>i, <2>1, <2>3
<1>2. ASSUME NEW n \in Nodes, AdoptPredecessor(n) PROVE Sound(b)'
  <2>1. /\ n \in Up /\ SetSucc(n, tgt[n]) /\ Goto(n, "fix", 0, None, <<>>)
        /\ UNCHANGED <<status, pred>>
    BY <1>2 DEF AdoptPredecessor, Locks
  <2>2. Succ(n) = n /\ tgt[n] # None
    BY <1>2 DEF AdoptPredecessor, Locks, Calm, ThreadCalm
  <2>3. n = b
    BY <1>c, <2>1, <2>2 DEF NoSkip
  <2>4. tgt[n] \in Up /\ NoSkip(b, n, tgt[n])
    BY <1>a, <2>2, <2>3 DEF ThreadSound, NoSkip
  <2>5. Threads
    BY <1>f, <1>j, <2>1
  <2>6. Tables
    BY <1>g, <2>1, <2>4
  <2> QED BY <1>i, <2>1, <2>5, <2>6
<1>3. ASSUME NEW n \in Nodes, GetPredecessor(n) PROVE Sound(b)'
  <2>1. n \in Up /\ UNCHANGED <<status, finger, pred>> /\ tgt[n] \in Up
    BY <1>3, <1>a DEF GetPredecessor, Runs, node, ThreadSound
  <2>2. Goto(n, "adopt", 0, pred[tgt[n]], <<>>)
    BY <1>3, <1>b, <2>1 DEF GetPredecessor
  <2>3. Threads
    BY <1>c, <1>f, <1>j, <2>1, <2>2
  <2> QED BY <1>d, <1>i, <2>1, <2>3
<1>4. ASSUME NEW n \in Nodes, Adopt(n) PROVE Sound(b)'
  <2>1. n \in Up /\ UNCHANGED <<status, pred>>
    BY <1>4 DEF Adopt, Locks
  <2>2. PICK s : /\ SetSucc(n, s) /\ Goto(n, "notify", 0, s, <<>>)
                 /\ s = Succ(n) \/ (s = tgt[n] /\ tgt[n] # None /\ InRange(tgt[n], n, Succ(n)))
    BY <1>4 DEF Adopt
  <2>3. s \in Up /\ NoSkip(b, n, s)
    <3>1. CASE s = Succ(n)
      BY <1>c, <2>1, <3>1
    <3>2. CASE s = tgt[n] /\ tgt[n] # None /\ InRange(tgt[n], n, Succ(n))
      <4>1. s \in Up
        BY <1>a, <3>2 DEF ThreadSound
      <4>2. CASE n = b
        BY <4>1, <4>2 DEF NoSkip
      <4>3. CASE n # b
        <5>1. Succ(n) # n /\ Dist(n, Succ(n)) <= Dist(n, b) /\ Succ(n) \in Up
          BY <1>c, <2>1, <4>3 DEF NoSkip
        <5>2. n \in Ids /\ s \in Ids /\ Succ(n) \in Ids /\ b \in Ids
          BY <1>a, <2>1, <4>1, <5>1
        <5>3. 0 < Dist(n, s) /\ Dist(n, s) < Dist(n, Succ(n))
          BY <3>2, <5>1, <5>2, InRangeDist
        <5>4. Dist(n, s) \in Nat /\ Dist(n, Succ(n)) \in Nat /\ Dist(n, b) \in Nat /\ s # n
          BY <5>2, <5>3, DistNat
        <5> QED BY <4>1, <5>1, <5>3, <5>4 DEF NoSkip
      <4> QED BY <4>2, <4>3
    <3> QED BY <2>2, <3>1, <3>2
  <2>4. Threads
    BY <1>a, <1>f, <1>j, <2>1, <2>2, <2>3
  <2>5. Tables
    BY <1>g, <2>1, <2>2, <2>3
  <2> QED BY <1>i, <2>1, <2>4, <2>5
<1>5. ASSUME NEW n \in Nodes, Notify(n) PROVE Sound(b)'
  <2>1. n \in Up /\ UNCHANGED <<status, finger>> /\ tgt[n] \in Up
    BY <1>5, <1>a DEF Notify, Runs, ThreadSound
  <2>2. Notified(tgt[n], n) /\ Goto(n, "fix", 0, None, <<>>)
    BY <1>5, <1>b, <2>1 DEF Notify
  <2>3. Threads
    BY <1>f, <1>j, <2>1, <2>2
  <2>4. Tables
    BY <1>d, <1>h, <2>1, <2>2 DEF Notified
  <2> QED BY <1>i, <2>1, <2>3, <2>4
<1>6. ASSUME NEW n \in Nodes, Fallback(n) PROVE FALSE
  BY <1>6, <1>a DEF Fallback, Locks, ThreadSound
<1>7. ASSUME NEW n \in Nodes, NEW i \in 1 .. M-1, FixFinger(n, i) PROVE Sound(b)'
  <2>1. n \in Up /\ UNCHANGED <<status, finger, pred>> /\ Goto(n, "lookup", i, None, <<n>>)
    BY <1>7 DEF FixFinger, Locks, node
  <2>2. \A k \in 1 .. Len(<<n>>) : <<n>>[k] \in Up
    BY <2>1
  <2>3. Threads
    BY <1>f, <2>1, <2>2
  <2> QED BY <1>d, <1>i, <2>1, <2>3
<1>8. ASSUME NEW n \in Nodes, LookupHop(n) PROVE Sound(b)'
  <2> DEFINE t == path[n][Len(path[n])]
             next == ClosestPreceding(t, Key(n), finger[t])
  <2>1. UNCHANGED <<status, finger, pred>> /\ pc[n] = "lookup"
    BY <1>8 DEF LookupHop, node
  <2>2. path[n] \in Seq(Nodes) /\ path[n] # <<>> /\ Len(path[n]) \in 1 .. Len(path[n])
    <3>1. path[n] \in Seq(Nodes) /\ path[n] # <<>>
      BY <2>1 DEF TypeOK, ThreadOK
    <3> QED BY <3>1
  <2>3. \A k \in 1 .. Len(path[n]) : path[n][k] \in Up
    BY <1>a DEF ThreadSound
  <2>4. t \in Up
    BY <2>2, <2>3
  <2>5. next \in Up
    BY <1>c, <2>4, ClosestPrecedingChoice
  <2>6. CASE (InRangeInc(Key(n), t, Succ(t)) \/ next = t) /\ Goto(n, "set", idx[n], Succ(t), <<>>)
    <3>1. Succ(t) \in Up /\ NoSkip(b, t, Succ(t))
      BY <1>c, <2>4
    <3>2. ASSUME status[n] = "joining" PROVE NoSkip(b, n, Succ(t))
      <4>1. Key(n) = n /\ n # b /\ n # t /\ n # Succ(t)
        BY <1>a, <1>j, <2>4, <3>1, <3>2 DEF Key
      <4>2. n \in Ids /\ t \in Ids /\ Succ(t) \in Ids /\ b \in Ids
        BY <1>a, <2>4, <3>1
      <4>3. next = t => ~InRange(Succ(t), t, n) \/ Succ(t) = t
        <5>1. 0 \in 0 .. M-1
          BY TableTypes
        <5>2. ASSUME NEW i \in 0 .. M-1, InRange(finger[t][i], t, n), finger[t][i] = t PROVE FALSE
          BY <4>1, <4>2, <5>2, InRangeDist, DistNat
        <5> QED BY <4>1, <5>1, <5>2, ClosestPrecedingChoice DEF Succ
      <4> HIDE DEF t, next
      <4> QED BY <2>6, <3>1, <4>1, <4>2, <4>3, AnswerSkipsNothing
    <3>3. Threads
      <4> HIDE DEF t, next
      <4> QED BY <1>e, <2>1, <2>6, <3>1, <3>2, GotoSound DEF Threads
    <3> QED BY <1>d, <1>i, <2>1, <3>3
  <2>7. CASE Goto(n, "lookup", idx[n], None, Append(path[n], next))
    <3> DEFINE q == Append(path[n], next)
    <3>1. \A k \in 1 .. Len(q) : q[k] \in Up
      <4> HIDE DEF next
      <4> QED BY <2>2, <2>3, <2>5
    <3> HIDE DEF q
    <3>2. Goto(n, "lookup", idx[n], None, q)
      BY <2>7 DEF q
    <3>3. Threads
      BY <1>f, <2>1, <3>1, <3>2
    <3> QED BY <1>d, <1>i, <2>1, <3>3
  <2> QED BY <1>8, <2>6, <2>7 DEF LookupHop
<1>9. ASSUME NEW n \in Nodes, LookupFails(n) PROVE FALSE
  <2>1. PICK k \in Remote(n) : Fails(path[n][k])
    BY <1>9 DEF LookupFails
  <2> QED BY <1>a, <1>b, <2>1 DEF Remote, ThreadSound
<1>10. ASSUME NEW n \in Nodes, SetFinger(n) PROVE Sound(b)'
  <2>1. /\ n \in Up /\ UNCHANGED <<status, pred>> /\ Goto(n, "check", 0, None, <<>>)
        /\ finger' = [finger EXCEPT ![n][idx[n]] = tgt[n]]
    BY <1>10 DEF SetFinger, Locks
  <2>2. idx[n] \in 0 .. M-1 /\ idx[n] >= 1 /\ tgt[n] \in Up
    <3>1. pc[n] = "set" /\ status[n] = "up"
      BY <1>10, <2>1 DEF SetFinger, Locks, Up, Calm
    <3> QED BY <1>a, <3>1 DEF Calm, ThreadCalm, ThreadOK, ThreadSound, TypeOK
  <2>3. finger' = [finger EXCEPT ![n] = [finger[n] EXCEPT ![idx[n]] = tgt[n]]]
    BY <2>1 DEF TypeOK
  <2>4. ASSUME NEW m \in Nodes PROVE TablesSound(b, m)'
    <3>1. CASE m = n
      <4>1. Succ(m)' = Succ(m) /\ \A i \in 0 .. M-1 : finger'[m][i] \in {tgt[n], finger[m][i]}
        BY <2>2, <2>3, <3>1, TableTypes DEF Succ, TypeOK
      <4> QED BY <1>a, <1>c, <1>e, <2>1, <2>2, <3>1, <4>1 DEF TablesSound, NoSkip
    <3>2. CASE m # n
      <4>1. finger'[m] = finger[m] /\ Succ(m)' = Succ(m)
        BY <2>3, <3>2 DEF Succ, TypeOK
      <4> QED BY <1>a, <1>e, <2>1, <4>1 DEF TablesSound, NoSkip, FreshTable
    <3> QED BY <3>1, <3>2
  <2>5. Threads /\ Tables
    BY <1>f, <1>j, <2>1, <2>4 DEF Tables
  <2> QED BY <1>i, <2>1, <2>5
<1>11. ASSUME NEW n \in Nodes, CheckPredecessor(n) PROVE Sound(b)'
  <2>1. n \in Up /\ UNCHANGED <<status, finger, pred>>
    BY <1>11 DEF CheckPredecessor, Locks, node
  <2>2. Goto(n, "stabilize", 0, None, <<>>) \/ (pred[n] # None /\ Goto(n, "ping", 0, pred[n], <<>>))
    BY <1>11 DEF CheckPredecessor
  <2>3. Threads
    BY <1>c, <1>f, <1>j, <2>1, <2>2
  <2> QED BY <1>d, <1>i, <2>1, <2>3
<1>12. ASSUME NEW n \in Nodes, PingPredecessor(n) PROVE Sound(b)'
  <2>1. /\ n \in Up /\ UNCHANGED <<status, finger>> /\ tgt[n] \in Up
        /\ Goto(n, "stabilize", 0, None, <<>>)
    BY <1>12, <1>a DEF PingPredecessor, Locks, ThreadSound
  <2>2. UNCHANGED pred
    BY <1>12, <1>b, <2>1 DEF PingPredecessor
  <2>3. Threads
    BY <1>f, <1>j, <2>1
  <2> QED BY <1>d, <1>i, <2>1, <2>2, <2>3
<1>13. ASSUME NEW n \in Nodes, Join(n) PROVE Sound(b)'
  <2>1. PICK known \in Up : Goto(n, "lookup", 0, None, <<known>>)
    BY <1>13 DEF Join
  <2>2. /\ status[n] = "down" /\ status' = [status EXCEPT ![n] = "joining"]
        /\ UNCHANGED <<finger, pred>>
    BY <1>13 DEF Join
  <2>3. Up' = Up /\ \A m \in Nodes \ {n} : status'[m] = status[m]
    BY <2>2 DEF Up, TypeOK
  <2>4. \A k \in 1 .. Len(<<known>>) : <<known>>[k] \in Up
    BY <2>1
  <2>5. Threads
    BY <2>1, <2>3, <2>4, GotoSound DEF Threads
  <2>6. Tables
    BY <1>a, <2>2, <2>3 DEF Tables, TablesSound, FreshTable, NoSkip, Succ
  <2> QED BY <1>a, <2>3, <2>5, <2>6 DEF Sound, Threads, Tables
<1>14. ASSUME NEW n \in Nodes, Joined(n) PROVE Sound(b)'
  <2>1. /\ status[n] = "joining" /\ pc[n] = "set" /\ SetSucc(n, tgt[n])
        /\ status' = [status EXCEPT ![n] = "up"] /\ Goto(n, "stabilize", 0, None, <<>>)
        /\ UNCHANGED pred
    BY <1>14 DEF Joined
  <2>2. Up' = Up \cup {n} /\ n \notin Up /\ \A m \in Nodes \ {n} : status'[m] = status[m]
    BY <2>1 DEF Up, TypeOK
  <2>3. tgt[n] \in Up /\ NoSkip(b, n, tgt[n])
    BY <1>a, <2>1 DEF ThreadSound, ThreadOK
  <2>4. Threads
    BY <2>1, <2>2, GotoSound DEF Threads
  <2>5. finger' = [finger EXCEPT ![n] = [finger[n] EXCEPT ![0] = tgt[n]]] /\ 0 \in 0 .. M-1
    BY <2>1, TableTypes DEF SetSucc, TypeOK
  <2>6. ASSUME NEW m \in Nodes PROVE TablesSound(b, m)'
    <3>1. CASE m = n
      <4>1. finger[n] = FreshTable(n) /\ pred[n] = None
        BY <1>a, <2>2 DEF TablesSound
      <4>2. Succ(m)' = tgt[n] /\ \A i \in 0 .. M-1 : finger'[m][i] \in {tgt[n], n}
        BY <2>5, <3>1, <4>1 DEF Succ, TypeOK, FreshTable
      <4> QED BY <2>1, <2>2, <2>3, <3>1, <4>1, <4>2 DEF TablesSound, NoSkip
    <3>2. CASE m # n
      <4>1. finger'[m] = finger[m] /\ Succ(m)' = Succ(m) /\ (m \in Up' <=> m \in Up)
        BY <2>2, <2>5, <3>2 DEF Succ, TypeOK
      <4> QED BY <1>a, <2>1, <2>2, <4>1 DEF TablesSound, NoSkip, FreshTable
    <3> QED BY <3>1, <3>2
  <2> QED BY <1>a, <2>2, <2>4, <2>6 DEF Sound, Threads
<1>15. ASSUME NEW n \in Nodes, Leave(n) \/ Crash(n) \/ SendFarewell(n) \/ Exit(n) PROVE FALSE
  BY <1>15 DEF Leave, Crash, SendFarewell, Exit, Calm
<1>16. CASE UNCHANGED vars
  <2>1. UNCHANGED <<status, finger, pred, pc, tgt, path>>
    BY <1>16 DEF vars, node
  <2>2. \A n \in Nodes : TablesSound(b, n)' = TablesSound(b, n)
    BY <2>1 DEF TablesSound, Up, NoSkip, Succ, FreshTable
  <2>3. \A n \in Nodes : ThreadSound(b, n)' = ThreadSound(b, n)
    BY <2>1 DEF ThreadSound, Up, NoSkip
  <2> QED BY <1>a, <2>1, <2>2, <2>3 DEF Sound, Up
<1> QED
  BY <1>1, <1>2, <1>3, <1>4, <1>5, <1>6, <1>7, <1>8, <1>9, <1>10, <1>11, <1>12, <1>13, <1>14,
     <1>15, <1>16 DEF Next, Maintain, Lookup, Depart

(* Failed calls only use the bound on them up.                             *)
LEMMA FaultsGrow ==
  ASSUME TypeOK, [Next]_vars
  PROVE  budget'.fault <= budget.fault
<1>1. budget.fault \in Nat
  BY DEF TypeOK
<1>2. \A m : Answers(m) \/ Fails(m) => budget'.fault <= budget.fault
  BY <1>1 DEF Answers, Fails, TypeOK
<1>3. UNCHANGED budget => budget'.fault <= budget.fault
  BY <1>1
<1>4. ASSUME NEW n \in Nodes, Maintain(n) PROVE budget'.fault <= budget.fault
  BY <1>2, <1>3, <1>4 DEF Maintain, Stabilize, AdoptPredecessor, GetPredecessor, Adopt, Notify,
     Fallback, FixFinger, Lookup, LookupHop, LookupFails, SetFinger, CheckPredecessor,
     PingPredecessor
<1>5. ASSUME NEW n \in Nodes, Joined(n) \/ Depart(n) PROVE budget'.fault <= budget.fault
  BY <1>2, <1>3, <1>5 DEF Joined, Depart, SendFarewell, Exit
<1>6. ASSUME NEW n \in Nodes, Join(n) \/ Leave(n) \/ Crash(n) PROVE budget'.fault <= budget.fault
  <2>1. PICK f \in {"join", "leave", "crash"} : \E x : budget' = [budget EXCEPT ![f] = x]
    BY <1>6 DEF Join, Leave, Crash
  <2>2. budget'.fault = budget.fault
    BY <2>1 DEF TypeOK
  <2> QED BY <1>1, <2>2
<1> QED BY <1>3, <1>4, <1>5, <1>6 DEF Next, vars

(* The same node stays the one nobody passes over.                         *)
LEMMA SoundKept ==
  ASSUME TypeOK, TypeOK', ThreadOK, Calm, SoundInv, [Next]_vars
  PROVE  SoundInv'
<1> SUFFICES ASSUME NoFault' PROVE \E b \in Nodes : Sound(b)'
  BY DEF SoundInv
<1>1. budget.fault \in 0 .. MaxFaults /\ budget'.fault = MaxFaults
  BY DEF NoFault, TypeOK
<1>2. NoFault
  BY <1>1, FaultsGrow, RingAssumption DEF NoFault
<1>3. PICK b \in Nodes : Sound(b)
  BY <1>2 DEF SoundInv
<1> QED BY <1>2, <1>3, SoundStep

(* The first node of a ring is one nobody passes over.                     *)
LEMMA BootstrapSound ==
  ASSUME InitBootstrap
  PROVE  SoundInv
<1>1. PICK b \in Nodes :
        /\ status = [n \in Nodes |-> IF n = b THEN "up" ELSE "down"]
        /\ finger = [n \in Nodes |-> FreshTable(n)]
        /\ pred = [n \in Nodes |-> None]
        /\ IdleThreads({b})
  BY DEF InitBootstrap
<1>2. Up = {b}
  BY <1>1 DEF Up
<1>3. ASSUME NEW n \in Nodes PROVE TablesSound(b, n)
  BY <1>1, <1>2 DEF TablesSound, NoSkip, FreshTable
<1>4. ASSUME NEW n \in Nodes PROVE ThreadSound(b, n)
  BY <1>1 DEF ThreadSound, IdleThreads
<1> QED BY <1>2, <1>3, <1>4 DEF SoundInv, Sound

(* In a settled ring nobody passes over anybody.                           *)
LEMMA SettledSound ==
  ASSUME InitSettled
  PROVE  SoundInv
<1>0. Nodes \in SUBSET Ids /\ Nodes # {} /\ Up = Nodes /\ 0 \in 0 .. M-1
  BY RingAssumption, MAssumption DEF InitSettled, Up
<1>1. PICK b \in Nodes : TRUE
  BY <1>0
<1>2. ASSUME NEW n \in Nodes PROVE TablesSound(b, n)
  <2>1. \A i \in 0 .. M-1 : finger[n][i] \in Nodes
    <3>1. finger[n] \in [0 .. M-1 -> Nodes]
      BY SettledTypes DEF TypeOK
    <3> QED BY <3>1
  <2>2. pred[n] \in Nodes \cup {None}
    BY SettledTypes DEF TypeOK
  <2>3. NoSkip(b, n, Succ(n))
    <3> DEFINE q == (n + 1) % RingSize
    <3>1. Succ(n) = Owner(Nodes, FingerStart(n, 0))
      BY <1>0 DEF InitSettled, IdealTable, Succ
    <3>2. FingerStart(n, 0) = q
      BY DEF FingerStart
    <3>3. /\ q \in Ids /\ n \in Ids
          /\ \A x \in Ids \ {n} : Dist(q, x) = Dist(n, x) - 1
          /\ Dist(q, n) = RingSize - 1
      BY <1>0, NextId
    <3>4. First(Nodes, q, Succ(n))
      <4> HIDE DEF q
      <4> QED BY <1>0, <3>1, <3>2, <3>3, OwnerFirst
    <3> HIDE DEF q
    <3>5. ASSUME n # b PROVE Succ(n) # n /\ Dist(n, Succ(n)) <= Dist(n, b)
      <4>1. b \in Ids /\ Succ(n) \in Ids /\ Dist(q, Succ(n)) <= Dist(q, b)
        BY <1>0, <3>4 DEF First
      <4>2. Dist(q, b) = Dist(n, b) - 1 /\ Dist(n, b) \in Nat /\ Dist(n, b) < RingSize
        BY <3>3, <3>5, <4>1, DistNat
      <4>3. Succ(n) # n
        BY <3>3, <4>1, <4>2, RingSizeNat
      <4>4. Dist(q, Succ(n)) = Dist(n, Succ(n)) - 1 /\ Dist(n, Succ(n)) \in Nat
        BY <3>3, <4>1, <4>3, DistNat
      <4> QED BY <4>1, <4>2, <4>3, <4>4
    <3> QED BY <3>5 DEF NoSkip
  <2> QED BY <1>0, <2>1, <2>2, <2>3 DEF TablesSound
<1>3. ASSUME NEW n \in Nodes PROVE ThreadSound(b, n)
  BY <1>0 DEF ThreadSound, InitSettled, IdleThreads
<1> QED BY <1>0, <1>2, <1>3 DEF SoundInv, Sound

(* The ring of a sound state is one ordered cycle.                         *)
LEMMA SoundOrdered == TypeOK /\ SoundInv => (NoFault => OneOrderedRing)
<1> SUFFICES ASSUME TypeOK, NEW b \in Nodes, Sound(b) PROVE OneOrderedRing
  BY DEF SoundInv
<1>1. 0 \in 0 .. M-1 /\ Up \subseteq Nodes
  BY TableTypes
<1>2. Based(b)
  BY <1>1 DEF Sound, TablesSound, Based, Succ
<1> QED BY <1>2, BasedIsOrdered

(* A settled ring starts with idle threads, and nobody leaves.             *)
LEMMA SettledCalm == OnlyJoins /\ InitSettled => Calm
  BY RingAssumption DEF OnlyJoins, InitSettled, IdleThreads, FullBudget, Calm, ThreadCalm

(***************************************************************************)
(* While nodes only join and no call to a node that runs has failed, the   *)
(* successor pointers hold exactly one cycle, in the order of the          *)
(* identifiers, and every node leads to it, at every moment of any number  *)
(* of concurrent joins, stabilizations, notifies and finger repairs.  The  *)
(* argument is a base node: the one that started the ring, or any node of  *)
(* a settled one, is passed over by no successor pointer.  A node adopts   *)
(* a successor only between itself and the one it has, a joining node is   *)
(* told one that no pointer of its lookup passed the base for, and so      *)
(* every walk moves toward the base, and the only cycle goes through it.   *)
(* A failed call ends this: the fallback may take any finger.              *)
(***************************************************************************)
THEOREM OneRingWhileJoining ==
  ASSUME OnlyJoins
  PROVE  SpecBootstrap \/ SpecSettled => [](NoFault => OneOrderedRing)
<1> DEFINE Inv == TypeOK /\ ThreadOK /\ Calm /\ SoundInv
<1>1. InitBootstrap \/ InitSettled => Inv
  BY BootstrapTypes, SettledTypes, BootstrapCalm, SettledCalm, BootstrapSound, SettledSound
<1>2. Inv /\ [Next]_vars => Inv'
  BY TypesKept, CalmKept, SoundKept
<1>3. Inv => (NoFault => OneOrderedRing)
  BY SoundOrdered
<1> QED BY <1>1, <1>2, <1>3, PTL DEF SpecBootstrap, SpecSettled
=============================================================================
