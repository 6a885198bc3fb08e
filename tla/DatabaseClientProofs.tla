------------------------ MODULE DatabaseClientProofs ------------------------
(***************************************************************************)
(* What DatabaseClient guarantees for any number of nodes, requests,       *)
(* transactions and faults.                                                *)
(***************************************************************************)
EXTENDS DatabaseClient, TLAPS

-----------------------------------------------------------------------------
(* The invariant.                                                          *)

\* A request owns a transaction while its session holds it or a call of it is being posted.
Posting(r) == pc[r] = "posting"
Owns(r, t) == cur[r] = t \/ (Posting(r) /\ sid[r] = t)

\* Which calls belong to a transaction.
Fits(o, t) ==
  /\ o \in {"write", "commit", "rollback"} => t \in Tx
  /\ o \in {"begin", "command"} => t = NoTx

\* Calls, posted and given up, fit; a session has let go of the transaction it ends.
CallsFit ==
  /\ \A r \in Request : Posting(r) =>
       /\ Fits(op[r], sid[r])
       /\ op[r] \in {"begin", "command", "commit", "rollback"} => cur[r] = NoTx
       /\ op[r] \in {"read", "write"} => cur[r] = sid[r]
  /\ \A m \in flight : Fits(m.op, m.tx)

TypeInv == TypeOK /\ CallsFit

\* A transaction has one owner.
OneOwner == \A q, r \in Request : \A t \in Tx : Owns(q, t) /\ Owns(r, t) => q = r

\* An owned transaction has begun and is not stored; it is open on the node it is pinned to, and
\* its calls go there, unless that node was lost.
OwnedIsHeld == \A r \in Request : \A t \in Tx : Owns(r, t) =>
  /\ home[t] \in Node /\ t \notin stored
  /\ t \in cut \/ (t \in open /\ pinned[t] = home[t])
CallsAimed == \A r \in Request : Posting(r) /\ sid[r] \in Tx =>
  /\ Len(left[r]) = 1
  /\ sid[r] \in cut \/ left[r][1] = home[sid[r]]

\* Nobody owns a transaction whose end was given up; the end of such a commit is unsure.
EndsLetGo == \A m \in flight : m.op \in {"commit", "rollback"} =>
  /\ home[m.tx] \in Node
  /\ \A r \in Request : ~Owns(r, m.tx)
  /\ m.op = "commit" => told[m.tx] = "unsure"

\* Nothing has been said of a transaction that is held or being committed, or has not begun.
NothingSaidYet ==
  /\ \A r \in Request : cur[r] \in Tx => told[cur[r]] = "none"
  /\ \A r \in Request : Posting(r) /\ op[r] = "commit" => told[sid[r]] = "none"
  /\ \A t \in Tx : home[t] = NoNode => told[t] = "none" /\ t \notin stored

\* An open transaction is not stored; those of an unreachable node are cut.
OpenNotStored == open \intersect stored = {}
DownCuts == \A t \in Tx : home[t] \in Node /\ node[home[t]] = "down" => t \in cut

\* An open transaction is owned, or nobody is left to end it.
OpenIsOwned == \A t \in open : t \in cut \/ t \in loose \/ \E r \in Request : Owns(r, t)

TxInv ==
  /\ OneOwner /\ OwnedIsHeld /\ CallsAimed /\ EndsLetGo
  /\ NothingSaidYet /\ OpenNotStored /\ DownCuts /\ OpenIsOwned /\ OnlyLostNodesRefuse

\* A request's statement outside a transaction: not asked for, posted, given up, or run.
Commanding(r) == Posting(r) /\ op[r] = "command"
Abandoned(r) == {m \in flight : m.op = "command" /\ m.req = r}
OnceInv == \A r \in Request :
  /\ ran[r] \in {0, 1}
  /\ r \notin asked => ~Commanding(r) /\ Abandoned(r) = {} /\ ran[r] = 0
  /\ Commanding(r) => Abandoned(r) = {} /\ ran[r] = 0
  /\ Abandoned(r) # {} => ran[r] = 0
  /\ \A l, m \in Abandoned(r) : l = m

-----------------------------------------------------------------------------
(* Types.                                                                  *)

\* A call is sent to nodes there are, to one at least, and within a transaction to one.
LEMMA RouteNodes ==
  ASSUME TypeOK, NEW t \in Tx \union {NoTx}
  PROVE  /\ Route(t) \in Seq(Node) /\ Len(Route(t)) > 0
         /\ t # NoTx => Len(Route(t)) = 1
         /\ t # NoTx /\ pinned[t] \in Node => Route(t)[1] = pinned[t]
<1>1. preferred \in 0 .. NumNodes - 1 /\ NumNodes \in Nat /\ NumNodes > 0
  BY SomeNode DEF TypeOK, Node
<1>2. CASE t = NoTx
  <2>1. \A i \in 1 .. NumNodes : (preferred + i - 1) % NumNodes \in 0 .. NumNodes - 1
    BY <1>1
  <2>2. Order \in Seq(Node) /\ Len(Order) = NumNodes
    BY <1>1, <2>1 DEF Order, Node
  <2> QED BY <1>1, <1>2, <2>2 DEF Route
<1>3. CASE t # NoTx
  BY <1>3 DEF Route, TypeOK
<1> QED BY <1>2, <1>3

LEMMA InitTypes == Init => TypeInv
BY SomeNode DEF Init, TypeInv, TypeOK, CallsFit, Node, Op, Message, Posting

\* A call that is posted keeps the types, if its kind and transaction fit the session.
LEMMA PostTypes ==
  ASSUME TypeInv, NEW r \in Request, NEW o \in Op, NEW t \in Tx \union {NoTx},
         NEW then \in {"ready", "closed"}, Post(r, o, t, then), Fits(o, t),
         UNCHANGED <<node, server, flight, preferred, pinned, cut, loose, refused, faults>>,
         cur' \in [Request -> Tx \union {NoTx}], told' \in [Tx -> {"none", "ok", "failed", "unsure"}],
         asked' \subseteq Request, \A q \in Request \ {r} : cur'[q] = cur[q],
         o \in {"begin", "command", "commit", "rollback"} => cur'[r] = NoTx,
         o \in {"read", "write"} => cur'[r] = t
  PROVE  TypeInv'
<1>1. TypeOK'
  BY RouteNodes DEF TypeInv, TypeOK, Post, server
<1>2. CallsFit'
  BY DEF TypeInv, TypeOK, CallsFit, Post, Posting
<1> QED BY <1>1, <1>2 DEF TypeInv

LEMMA NextTypes == TypeInv /\ [Next]_vars => TypeInv'
<1> SUFFICES ASSUME TypeInv, [Next]_vars PROVE TypeInv'
  OBVIOUS
<1> USE NoTxIsNone
<1>1. ASSUME NEW r \in Request, Query(r) PROVE TypeInv'
  <2>1. Fits("read", cur[r]) /\ cur[r] \in Tx \union {NoTx} /\ "read" \in Op
    BY DEF TypeInv, TypeOK, Fits, Op
  <2> QED BY <1>1, <2>1, PostTypes DEF Query, TypeInv, TypeOK, history
<1>2. ASSUME NEW r \in Request, Execute(r) PROVE TypeInv'
  <2>1. CASE cur[r] = NoTx
    <3>1. Fits("begin", cur[r]) /\ cur[r] \in Tx \union {NoTx} /\ "begin" \in Op
      BY <2>1 DEF TypeInv, TypeOK, Fits, Op
    <3> QED BY <1>2, <2>1, <3>1, PostTypes DEF Execute, TypeInv, TypeOK, history
  <2>2. CASE cur[r] # NoTx
    <3>1. Fits("write", cur[r]) /\ cur[r] \in Tx \union {NoTx} /\ "write" \in Op
      BY <2>2 DEF TypeInv, TypeOK, Fits, Op
    <3> QED BY <1>2, <2>2, <3>1, PostTypes DEF Execute, TypeInv, TypeOK, history
  <2> QED BY <2>1, <2>2
<1>3. ASSUME NEW r \in Request, Command(r) PROVE TypeInv'
  <2>1. Fits("command", NoTx) /\ "command" \in Op
    BY DEF Fits, Op
  <2> QED BY <1>3, <2>1, PostTypes DEF Command, TypeInv, TypeOK
<1>4. ASSUME NEW r \in Request, Commit(r) PROVE TypeInv'
  <2>1. Fits("commit", cur[r]) /\ cur[r] \in Tx \union {NoTx} /\ "commit" \in Op
    BY <1>4 DEF Commit, TypeInv, TypeOK, Fits, Op
  <2> QED BY <1>4, <2>1, PostTypes DEF Commit, TypeInv, TypeOK, history
<1>5. ASSUME NEW r \in Request, Leave(r) PROVE TypeInv'
  <2>1. CASE cur[r] # NoTx
    <3>1. Fits("rollback", cur[r]) /\ cur[r] \in Tx /\ "rollback" \in Op
      BY <2>1 DEF TypeInv, TypeOK, Fits, Op
    <3>2. PICK then \in {"ready", "closed"} : Rollback(r, then)
      BY <1>5, <2>1 DEF Leave
    <3> QED BY ZenonT(60), <1>5, <3>1, <3>2, PostTypes DEF Leave, Rollback, Tell, TypeInv, TypeOK
  <2>2. CASE cur[r] = NoTx
    BY ZenonT(60), <1>5, <2>2 DEF Leave, TypeInv, TypeOK, CallsFit, Posting, server
  <2> QED BY <2>1, <2>2
<1>6. ASSUME NEW r \in Request, BeginAnswered(r) PROVE TypeInv'
  <2>1. Target(r) \in Node /\ sid[r] = NoTx
    BY <1>6 DEF BeginAnswered, Target, TypeInv, TypeOK, CallsFit, Posting, Fits
  <2>2. TypeOK'
    BY <1>6, <2>1 DEF BeginAnswered, Runs, TypeInv, TypeOK, Op, history
  <2>3. CallsFit'
    BY <1>6 DEF BeginAnswered, TypeInv, TypeOK, CallsFit, Posting, Fits
  <2> QED BY <2>2, <2>3 DEF TypeInv
<1>7. ASSUME NEW r \in Request, Answered(r) PROVE TypeInv'
  <2>1. Target(r) \in Node /\ Fits(op[r], sid[r])
    BY <1>7 DEF Answered, Target, TypeInv, TypeOK, CallsFit, Posting
  <2>2. /\ home' = home /\ open' \subseteq open /\ flight' = flight /\ node' = node
        /\ work' \in [Tx -> Nat] /\ stored' \subseteq Tx /\ ran' \in [Request -> Nat]
    BY <1>7, <2>1 DEF Answered, Runs, TypeInv, TypeOK, Fits
  <2>3. pinned' \in [Tx -> Node \union {NoNode}] /\ told' \in [Tx -> {"none", "ok", "failed", "unsure"}]
    BY <1>7, <2>1 DEF Answered, Unpin, TypeInv, TypeOK, Fits
  <2>4. /\ pc' \in [Request -> {"ready", "posting", "failing", "closed"}]
        /\ op' \in [Request -> Op] /\ sid' \in [Request -> Tx \union {NoTx}]
        /\ left' \in [Request -> Seq(Node)]
        /\ after' \in [Request -> {"ready", "failing", "closed"}]
        /\ \A q \in Request : pc'[q] = "posting" => Len(left'[q]) > 0
    <3>1. /\ pc' \in [Request -> {"ready", "posting", "failing", "closed"}]
          /\ after' \in [Request -> {"ready", "failing", "closed"}]
      BY <1>7 DEF Answered, Returns, TypeInv, TypeOK
    <3>2. op' \in [Request -> Op] /\ sid' \in [Request -> Tx \union {NoTx}]
      BY <1>7 DEF Answered, Returns, TypeInv, TypeOK, Op
    <3>3. left' \in [Request -> Seq(Node)]
      BY <1>7 DEF Answered, Returns, TypeInv, TypeOK
    <3>4. \A q \in Request : pc'[q] = "posting" => Len(left'[q]) > 0
      BY <1>7 DEF Answered, Returns, TypeInv, TypeOK
    <3> QED BY <3>1, <3>2, <3>3, <3>4
  <2>5. TypeOK'
    BY <1>7, <2>1, <2>2, <2>3, <2>4 DEF Answered, TypeInv, TypeOK
  <2>6. CallsFit'
    BY <1>7 DEF Answered, Returns, TypeInv, TypeOK, CallsFit, Posting
  <2> QED BY <2>5, <2>6 DEF TypeInv
<1>8. ASSUME NEW r \in Request, TriesNext(r) PROVE TypeInv'
  <2>1. left[r] \in Seq(Node) /\ Len(left[r]) > 1
    BY <1>8 DEF TriesNext, TypeInv, TypeOK
  <2>2. Tail(left[r]) \in Seq(Node) /\ Len(Tail(left[r])) = Len(left[r]) - 1 /\ Len(left[r]) \in Nat
    BY <2>1
  <2> QED BY <1>8, <2>1, <2>2 DEF TriesNext, TypeInv, TypeOK, CallsFit, Posting, server, history
<1>9. ASSUME NEW r \in Request, Fails(r) PROVE TypeInv'
  <2>1. Target(r) \in Node /\ Fits(op[r], sid[r])
    BY <1>9 DEF Fails, Target, TypeInv, TypeOK, CallsFit, Posting
  <2>2. /\ told' \in [Tx -> {"none", "ok", "failed", "unsure"}]
        /\ pinned' \in [Tx -> Node \union {NoNode}]
        /\ loose' \subseteq Tx /\ refused' \subseteq Tx /\ open' \subseteq open
        /\ preferred' = preferred
    BY <1>9, <2>1 DEF Fails, Raises, TypeInv, TypeOK, Fits
  <2>3. CASE op[r] = "write"
    <3>1. /\ pc' = pc /\ sid' = sid /\ op' = [op EXCEPT ![r] = "rollback"]
          /\ after' = [after EXCEPT ![r] = "failing"] /\ cur' = [cur EXCEPT ![r] = NoTx]
      BY <1>9, <2>3 DEF Fails, Raises
    <3>2. PICK n \in Node : left' = [left EXCEPT ![r] = <<n>>]
      <4>1. sid[r] \in Tx
        BY <2>1, <2>3 DEF Fits
      <4> QED BY <1>9, <2>3, <4>1 DEF Fails, Raises, TypeInv, TypeOK
    <3>3. TypeOK'
      BY <1>9, <2>1, <2>2, <3>1, <3>2 DEF Fails, TypeInv, TypeOK, Op
    <3>4. CallsFit'
      BY <1>9, <2>1, <2>3, <3>1 DEF Fails, TypeInv, TypeOK, CallsFit, Posting, Fits
    <3> QED BY <3>3, <3>4 DEF TypeInv
  <2>4. CASE op[r] # "write"
    <3>1. /\ Returns(r, IF op[r] = "rollback" THEN after[r] ELSE "failing") /\ cur' = cur
      BY <1>9, <2>4 DEF Fails, Raises
    <3>2. TypeOK'
      BY <1>9, <2>1, <2>2, <3>1 DEF Fails, Returns, TypeInv, TypeOK, Op
    <3>3. CallsFit'
      BY <1>9, <3>1 DEF Fails, Returns, TypeInv, TypeOK, CallsFit, Posting
    <3> QED BY <3>2, <3>3 DEF TypeInv
  <2> QED BY <2>3, <2>4
<1>10. ASSUME NEW r \in Request, GivesUp(r) PROVE TypeInv'
  <2>1. Target(r) \in Node /\ Fits(op[r], sid[r])
    BY <1>10 DEF GivesUp, Target, TypeInv, TypeOK, CallsFit, Posting
  <2>2. TypeOK'
    BY <1>10, <2>1 DEF GivesUp, Returns, Unpin, TypeInv, TypeOK, Op, Fits, Message, server
  <2>3. CallsFit'
    <3>1. \A m \in flight' : Fits(m.op, m.tx)
      BY <1>10, <2>1 DEF GivesUp, TypeInv, CallsFit
    <3>2. \A q \in Request : pc'[q] = "posting" => q # r
      BY <1>10 DEF GivesUp, Returns, TypeInv, TypeOK
    <3> QED BY <1>10, <3>1, <3>2 DEF GivesUp, Returns, TypeInv, TypeOK, CallsFit, Posting
  <2> QED BY <2>2, <2>3 DEF TypeInv
<1>11. ASSUME NEW m \in flight, RunsLate(m) PROVE TypeInv'
  <2>1. Fits(m.op, m.tx) /\ m \in Message
    BY <1>11 DEF RunsLate, TypeInv, TypeOK, CallsFit
  <2>2. PICK t \in IF m.op = "begin" THEN Tx ELSE {m.tx} :
          Runs(m.op, m.req, t, m.node) /\ loose' = IF m.op = "begin" THEN loose \union {t} ELSE loose
    BY <1>11 DEF RunsLate
  <2>3. TypeOK'
    BY <1>11, <2>1, <2>2 DEF RunsLate, Runs, Known, TypeInv, TypeOK, Op, Fits, Message, client
  <2>4. CallsFit'
    BY <1>11 DEF RunsLate, TypeInv, TypeOK, CallsFit, Posting, client
  <2> QED BY <2>3, <2>4 DEF TypeInv
<1>12. ASSUME NEW n \in Node, NodeChanges(n) PROVE TypeInv'
  BY <1>12 DEF NodeChanges, TypeInv, TypeOK, CallsFit, Posting, client
<1>13. CASE UNCHANGED vars
  BY <1>13 DEF TypeInv, TypeOK, CallsFit, Posting, vars, server, client, history
<1> QED
  BY <1>1, <1>2, <1>3, <1>4, <1>5, <1>6, <1>7, <1>8, <1>9, <1>10, <1>11, <1>12, <1>13 DEF Next, Acts

\* Type correctness: every state has its declared types; a posted call has a node left to try and
\* an open transaction a home, for any cluster.
THEOREM TypeCorrect == Spec => []TypeOK
<1>1. Spec => []TypeInv
  BY InitTypes, NextTypes, PTL DEF Spec
<1>2. TypeInv => TypeOK
  BY DEF TypeInv
<1> QED BY <1>1, <1>2, PTL

-----------------------------------------------------------------------------
(* A statement outside a transaction runs once.                            *)

LEMMA InitOnce == Init => OnceInv
BY DEF Init, OnceInv, Commanding, Abandoned, Posting

\* A request whose statement nothing touches keeps its part of the invariant.
LEMMA OnceKept ==
  ASSUME OnceInv, flight' \subseteq flight, ran' = ran, asked' = asked,
         \A q \in Request : Commanding(q)' => Commanding(q)
  PROVE  OnceInv'
BY DEF OnceInv, Abandoned

LEMMA NextOnce == TypeInv /\ OnceInv /\ [Next]_vars => OnceInv'
<1> SUFFICES ASSUME TypeInv, OnceInv, [Next]_vars PROVE OnceInv'
  OBVIOUS
<1>1. ASSUME NEW r \in Request, Query(r) \/ Execute(r) \/ Commit(r) \/ Leave(r) \/ TriesNext(r) PROVE OnceInv'
  <2>1. flight' = flight /\ ran' = ran /\ asked' = asked
    BY <1>1 DEF Query, Execute, Commit, Leave, TriesNext, server, history
  <2>2. \A q \in Request : Commanding(q)' => Commanding(q)
    BY <1>1 DEF Query, Execute, Commit, Leave, TriesNext, Rollback, Post, Commanding, Posting, TypeInv, TypeOK
  <2> QED BY <2>1, <2>2, OnceKept
<1>2. ASSUME NEW r \in Request, Command(r) PROVE OnceInv'
  <2>1. flight' = flight /\ ran' = ran /\ asked' = asked \union {r} /\ r \notin asked
    BY <1>2 DEF Command, server
  <2>2. \A q \in Request \ {r} : Commanding(q)' => Commanding(q)
    BY <1>2 DEF Command, Post, Commanding, Posting, TypeInv, TypeOK
  <2>3. \A q \in Request : Abandoned(q)' = Abandoned(q)
    BY <2>1 DEF Abandoned
  <2> QED BY <2>1, <2>2, <2>3 DEF OnceInv
<1>3. ASSUME NEW r \in Request, BeginAnswered(r) PROVE OnceInv'
  <2>1. flight' = flight /\ ran' = ran /\ asked' = asked
    BY <1>3 DEF BeginAnswered, Runs, history
  <2>2. \A q \in Request : Commanding(q)' => Commanding(q)
    BY <1>3 DEF BeginAnswered, Commanding, Posting, TypeInv, TypeOK
  <2> QED BY <2>1, <2>2, OnceKept
<1>4. ASSUME NEW r \in Request, Answered(r) PROVE OnceInv'
  <2>1. /\ flight' = flight /\ asked' = asked
        /\ ran' = IF op[r] = "command" THEN [ran EXCEPT ![r] = @ + 1] ELSE ran
    BY <1>4 DEF Answered, Runs
  <2>2. ~Commanding(r)' /\ \A q \in Request : Commanding(q)' => Commanding(q)
    BY <1>4 DEF Answered, Returns, Commanding, Posting, TypeInv, TypeOK
  <2>3. CASE op[r] # "command"
    BY <2>1, <2>2, <2>3, OnceKept
  <2>4. CASE op[r] = "command"
    <3>1. Commanding(r)
      BY <1>4, <2>4 DEF Answered, Commanding, Posting
    <3>2. \A q \in Request : Abandoned(q)' = Abandoned(q)
      BY <2>1 DEF Abandoned
    <3>3. ran' = [ran EXCEPT ![r] = 1]
      <4>1. ran[r] = 0 /\ ran[r] + 1 = 1
        BY <3>1 DEF OnceInv
      <4> QED BY <2>1, <2>4, <4>1
    <3> QED BY <2>1, <2>2, <3>1, <3>2, <3>3 DEF OnceInv, TypeInv, TypeOK
  <2> QED BY <2>3, <2>4
<1>5. ASSUME NEW r \in Request, Fails(r) PROVE OnceInv'
  <2>1. flight' = flight /\ ran' = ran /\ asked' = asked
    BY <1>5 DEF Fails
  <2>2. \A q \in Request : Commanding(q)' => Commanding(q)
    BY <1>5 DEF Fails, Raises, Returns, Commanding, Posting, TypeInv, TypeOK
  <2> QED BY <2>1, <2>2, OnceKept
<1>6. ASSUME NEW r \in Request, GivesUp(r) PROVE OnceInv'
  <2> DEFINE m == [op |-> op[r], req |-> r, tx |-> sid[r], node |-> Target(r)]
  <2>1. flight' = flight \union {m} /\ ran' = ran /\ asked' = asked
    BY <1>6 DEF GivesUp, server
  <2>2. ~Commanding(r)' /\ \A q \in Request : Commanding(q)' => Commanding(q)
    BY <1>6 DEF GivesUp, Returns, Commanding, Posting, TypeInv, TypeOK
  <2>3. m.op = op[r] /\ m.req = r
    OBVIOUS
  <2>4. \A q \in Request \ {r} : Abandoned(q)' = Abandoned(q)
    BY <2>1, <2>3 DEF Abandoned
  <2>5. CASE op[r] # "command"
    <3>1. Abandoned(r)' = Abandoned(r)
      BY <2>1, <2>3, <2>5 DEF Abandoned
    <3> QED BY <2>1, <2>2, <2>4, <3>1 DEF OnceInv
  <2>6. CASE op[r] = "command"
    <3>1. Commanding(r)
      BY <1>6, <2>6 DEF GivesUp, Commanding, Posting
    <3>2. Abandoned(r)' = {m}
      BY <2>1, <2>3, <2>6, <3>1 DEF OnceInv, Abandoned
    <3> HIDE DEF m
    <3> QED BY <2>1, <2>2, <2>4, <3>1, <3>2 DEF OnceInv
  <2> QED BY <2>5, <2>6
<1>7. ASSUME NEW m \in flight, RunsLate(m) PROVE OnceInv'
  <2>1. /\ flight' = flight \ {m} /\ asked' = asked /\ m.req \in Request
        /\ ran' = IF m.op = "command" THEN [ran EXCEPT ![m.req] = @ + 1] ELSE ran
    BY <1>7 DEF RunsLate, Runs, TypeInv, TypeOK, Message
  <2>2. \A q \in Request : Commanding(q)' = Commanding(q)
    BY <1>7 DEF RunsLate, client, Commanding, Posting
  <2>3. CASE m.op # "command"
    BY <2>1, <2>2, <2>3, OnceKept
  <2>4. CASE m.op = "command"
    <3>1. m \in Abandoned(m.req)
      BY <2>4 DEF Abandoned
    <3>2. ran' = [ran EXCEPT ![m.req] = 1] /\ m.req \in asked /\ ~Commanding(m.req)
      <4>1. ran[m.req] = 0 /\ ran[m.req] + 1 = 1 /\ m.req \in asked /\ ~Commanding(m.req)
        BY <2>1, <3>1 DEF OnceInv
      <4> QED BY <2>1, <2>4, <4>1
    <3>3. Abandoned(m.req)' = {}
      BY <2>1, <3>1 DEF OnceInv, Abandoned
    <3>4. \A q \in Request \ {m.req} : Abandoned(q)' = Abandoned(q)
      BY <2>1 DEF Abandoned
    <3> QED BY <2>1, <2>2, <3>2, <3>3, <3>4 DEF OnceInv, TypeInv, TypeOK
  <2> QED BY <2>3, <2>4
<1>8. ASSUME NEW n \in Node, NodeChanges(n) PROVE OnceInv'
  <2>1. flight' \subseteq flight /\ ran' = ran /\ asked' = asked
    BY <1>8 DEF NodeChanges
  <2>2. \A q \in Request : Commanding(q)' = Commanding(q)
    BY <1>8 DEF NodeChanges, client, Commanding, Posting
  <2> QED BY <2>1, <2>2, OnceKept
<1>9. CASE UNCHANGED vars
  BY <1>9 DEF OnceInv, Commanding, Abandoned, Posting, vars, server, client, history
<1> QED
  BY <1>1, <1>2, <1>3, <1>4, <1>5, <1>6, <1>7, <1>8, <1>9 DEF Next, Acts

\* What a request runs outside a transaction runs once at most, for any number of nodes it is tried
\* on, and whichever of them answers late.
THEOREM CommandsRunOnce == Spec => []RunsOnce
<1>1. Spec => [](TypeInv /\ OnceInv)
  BY InitTypes, InitOnce, NextTypes, NextOnce, PTL DEF Spec
<1>2. OnceInv => RunsOnce
  BY DEF OnceInv, RunsOnce
<1> QED BY <1>1, <1>2, PTL

-----------------------------------------------------------------------------
(* Transactions.                                                           *)

LEMMA InitTx == Init => TxInv
BY NoTxIsNone DEF Init, TxInv, OneOwner, OwnedIsHeld, CallsAimed, EndsLetGo, NothingSaidYet,
  OpenNotStored, DownCuts, OpenIsOwned, OnlyLostNodesRefuse, Owns, Posting, Node

\* A step that neither takes nor ends a transaction, and loses one only if its node was lost.
LEMMA TxKept ==
  ASSUME TypeInv, TxInv, home' = home, stored' = stored, told' = told,
         open' \subseteq open, \A t \in open : t \in open' \/ t \in cut',
         \A t \in Tx : pinned'[t] = pinned[t] \/ t \in cut',
         cut \subseteq cut', loose \subseteq loose', refused' \subseteq cut', DownCuts',
         \A q \in Request : \A t \in Tx : Owns(q, t)' <=> Owns(q, t),
         \A q \in Request : cur'[q] = cur[q],
         \A q \in Request : Posting(q)' /\ op'[q] = "commit" =>
           Posting(q) /\ op[q] = "commit" /\ sid'[q] = sid[q],
         \A q \in Request : Posting(q)' /\ sid'[q] \in Tx =>
           Posting(q) /\ sid'[q] = sid[q] /\ left'[q] = left[q],
         \A m \in flight' : m.op \in {"commit", "rollback"} => m \in flight
  PROVE  TxInv'
<1>1. OneOwner'
  BY DEF TxInv, OneOwner
<1>2. OwnedIsHeld'
  BY DEF TxInv, OwnedIsHeld
<1>3. CallsAimed'
  BY DEF TxInv, CallsAimed
<1>4. EndsLetGo'
  <2>1. \A m \in flight : m.op \in {"commit", "rollback"} => m.tx \in Tx
    BY DEF TypeInv, CallsFit, Fits
  <2> QED BY <2>1 DEF TxInv, EndsLetGo
<1>5. NothingSaidYet'
  BY DEF TxInv, NothingSaidYet
<1>6. OpenNotStored' /\ OpenIsOwned' /\ OnlyLostNodesRefuse'
  BY DEF TxInv, OpenNotStored, OpenIsOwned, OnlyLostNodesRefuse, TypeInv, TypeOK
<1> QED BY <1>1, <1>2, <1>3, <1>4, <1>5, <1>6 DEF TxInv

\* A session posts a call of the transaction it holds, and may let go of it or report its failure.
LEMMA TxPosted ==
  ASSUME TypeInv, TxInv, NEW r \in Request, NEW o \in Op, NEW then,
         pc[r] # "posting", Post(r, o, cur[r], then),
         UNCHANGED <<node, server, flight, preferred, pinned, cut, loose, refused>>,
         cur' = cur \/ cur' = [cur EXCEPT ![r] = NoTx],
         told' = told \/ (o = "rollback" /\ told' = [told EXCEPT ![cur[r]] = "failed"]
                          /\ cur' = [cur EXCEPT ![r] = NoTx]),
         o = "commit" => cur[r] \in Tx
  PROVE  TxInv'
<1> DEFINE t == cur[r]
<1>1. t \in Tx \union {NoTx} /\ ~Posting(r)
  BY DEF TypeInv, TypeOK, Posting
<1>2. \A q \in Request : \A x \in Tx : Owns(q, x)' <=> Owns(q, x)
  BY <1>1, NoTxIsNone DEF Owns, Posting, Post, TypeInv, TypeOK
<1>3. \A q \in Request : Posting(q)' => q = r \/ (Posting(q) /\ op'[q] = op[q] /\ sid'[q] = sid[q] /\ left'[q] = left[q])
  BY DEF Posting, Post, TypeInv, TypeOK
<1>4. op'[r] = o /\ sid'[r] = t /\ left'[r] = Route(t)
  BY DEF Post, TypeInv, TypeOK
<1>5. OneOwner' /\ OwnedIsHeld' /\ OpenNotStored' /\ OpenIsOwned' /\ OnlyLostNodesRefuse' /\ DownCuts'
  BY <1>2 DEF TxInv, OneOwner, OwnedIsHeld, OpenNotStored, OpenIsOwned, OnlyLostNodesRefuse, DownCuts,
    TypeInv, TypeOK, server
<1>6. CallsAimed'
  <2>1. t \in Tx => Len(Route(t)) = 1 /\ (t \in cut \/ Route(t)[1] = home[t])
    BY <1>1, NoTxIsNone, RouteNodes DEF TxInv, OwnedIsHeld, Owns, TypeInv
  <2> QED BY <1>3, <1>4, <2>1 DEF TxInv, CallsAimed, server
<1>7. \A x \in Tx : told'[x] = told[x] \/ (x = t /\ o = "rollback" /\ Owns(r, t))
  BY DEF TypeInv, TypeOK, Owns
<1>8. EndsLetGo'
  <2>1. \A m \in flight : m.op \in {"commit", "rollback"} => m.tx \in Tx
    BY DEF TypeInv, CallsFit, Fits
  <2> QED BY <1>2, <1>7, <2>1 DEF TxInv, EndsLetGo, server
<1>9. NothingSaidYet'
  <2>1. ASSUME NEW q \in Request, cur'[q] \in Tx PROVE told'[cur'[q]] = "none"
    BY <2>1, <1>7, NoTxIsNone DEF TxInv, NothingSaidYet, OneOwner, Owns, TypeInv, TypeOK
  <2>2. ASSUME NEW q \in Request, Posting(q)', op'[q] = "commit" PROVE told'[sid'[q]] = "none"
    <3>1. CASE q = r
      BY <2>2, <3>1, <1>4 DEF TxInv, NothingSaidYet
    <3>2. CASE q # r
      <4>1. Posting(q) /\ op[q] = "commit" /\ sid'[q] = sid[q] /\ sid[q] \in Tx
        BY <2>2, <3>2, <1>3 DEF TypeInv, CallsFit, Fits
      <4> QED BY <3>2, <4>1, <1>7 DEF TxInv, NothingSaidYet, OneOwner, Owns
    <3> QED BY <3>1, <3>2
  <2>3. ASSUME NEW x \in Tx, home'[x] = NoNode PROVE told'[x] = "none" /\ x \notin stored'
    BY <2>3, <1>7 DEF TxInv, NothingSaidYet, OwnedIsHeld, Node, NoNode, server
  <2> QED BY <2>1, <2>2, <2>3 DEF NothingSaidYet
<1> QED BY <1>5, <1>6, <1>8, <1>9 DEF TxInv

\* The call of r is over, or goes on with other nodes; the others' calls are as they were.
OthersStay(r) == \A q \in Request \ {r} :
  /\ Posting(q)' <=> Posting(q)
  /\ op'[q] = op[q] /\ sid'[q] = sid[q] /\ left'[q] = left[q] /\ cur'[q] = cur[q]

LEMMA ReturnedCall ==
  ASSUME TypeInv, NEW r \in Request, NEW s, s # "posting", Returns(r, s), cur' = cur
  PROVE  OthersStay(r) /\ ~Posting(r)' /\ cur'[r] = cur[r]
BY DEF TypeInv, TypeOK, OthersStay, Posting, Returns

LEMMA BegunTx ==
  ASSUME TypeInv, TxInv, NEW r \in Request, BeginAnswered(r)
  PROVE  TxInv'
<1> DEFINE n == Target(r)
<1>1. PICK t \in Tx : /\ home[t] = NoNode /\ home' = [home EXCEPT ![t] = n] /\ open' = open \union {t}
                      /\ pinned' = [pinned EXCEPT ![t] = n] /\ cur' = [cur EXCEPT ![r] = t]
                      /\ sid' = [sid EXCEPT ![r] = t] /\ left' = [left EXCEPT ![r] = <<n>>]
                      /\ op' = [op EXCEPT ![r] = "write"] /\ stored' = stored
  BY DEF BeginAnswered, Runs
<1>2. n \in Node /\ NoNode \notin Node /\ node[n] = "up" /\ Posting(r) /\ sid[r] = NoTx /\ cur[r] = NoTx
  <2>1. n \in Node
    BY DEF BeginAnswered, Target, TypeInv, TypeOK
  <2>2. NoNode \notin Node
    BY SomeNode DEF Node, NoNode
  <2>3. node[n] = "up" /\ Posting(r) /\ op[r] = "begin"
    BY DEF BeginAnswered, Posting
  <2> QED BY <2>1, <2>2, <2>3 DEF TypeInv, CallsFit, Fits
<1>3. UNCHANGED <<node, flight, pc, told, cut, loose, refused>>
  BY DEF BeginAnswered, history
<1>4. OthersStay(r) /\ Posting(r)' /\ sid'[r] = t /\ cur'[r] = t /\ op'[r] = "write" /\ left'[r] = <<n>>
  BY <1>1, <1>2, <1>3 DEF OthersStay, Posting, TypeInv, TypeOK
<1>5. \A q \in Request : \A x \in Tx : Owns(q, x)' <=> Owns(q, x) \/ (q = r /\ x = t)
  BY <1>2, <1>4, NoTxIsNone DEF Owns, OthersStay
<1>6. \A q \in Request : ~Owns(q, t)
  BY <1>1, <1>2 DEF TxInv, OwnedIsHeld
<1>7. \A x \in Tx : home'[x] = (IF x = t THEN n ELSE home[x]) /\ pinned'[x] = (IF x = t THEN n ELSE pinned[x])
  BY <1>1 DEF TypeInv, TypeOK
<1>8. OneOwner' /\ OpenIsOwned' /\ OnlyLostNodesRefuse'
  <2>1. OneOwner'
    BY <1>5, <1>6 DEF TxInv, OneOwner
  <2>2. OpenIsOwned'
    BY <1>1, <1>3, <1>5 DEF TxInv, OpenIsOwned, TypeInv, TypeOK
  <2>3. OnlyLostNodesRefuse'
    BY <1>3 DEF TxInv, OnlyLostNodesRefuse
  <2> QED BY <2>1, <2>2, <2>3
<1>9. OwnedIsHeld' /\ OpenNotStored' /\ DownCuts'
  BY <1>1, <1>2, <1>3, <1>5, <1>7 DEF TxInv, OwnedIsHeld, OpenNotStored, DownCuts, NothingSaidYet
<1>10. CallsAimed'
  <2> SUFFICES ASSUME NEW q \in Request, Posting(q)', sid'[q] \in Tx
               PROVE  Len(left'[q]) = 1 /\ (sid'[q] \in cut' \/ left'[q][1] = home'[sid'[q]])
    BY DEF CallsAimed
  <2>1. CASE q = r
    <3>1. left'[q] = <<n>> /\ home'[sid'[q]] = n
      BY <1>4, <1>7, <2>1
    <3> QED BY <3>1
  <2>2. CASE q # r
    <3>1. Posting(q) /\ sid'[q] = sid[q] /\ left'[q] = left[q]
      BY <1>4, <2>2 DEF OthersStay
    <3>2. Owns(q, sid[q]) /\ sid[q] # t
      BY <1>6, <3>1 DEF Owns
    <3> QED BY <1>3, <1>7, <3>1, <3>2 DEF TxInv, CallsAimed
  <2> QED BY <2>1, <2>2
<1>11. EndsLetGo'
  <2>1. \A m \in flight : m.op \in {"commit", "rollback"} => m.tx \in Tx
    BY DEF TypeInv, CallsFit, Fits
  <2> QED BY <1>1, <1>2, <1>3, <1>5, <1>7, <2>1 DEF TxInv, EndsLetGo
<1>12. NothingSaidYet'
  BY <1>1, <1>2, <1>3, <1>4, <1>7 DEF TxInv, NothingSaidYet, OthersStay
<1> QED BY <1>8, <1>9, <1>10, <1>11, <1>12 DEF TxInv

\* The transaction of r's call is ended: stored, closed or reported as failed, and nobody owns it.
LEMMA EndedTx ==
  ASSUME TypeInv, TxInv, NEW r \in Request, NEW t \in Tx, t = sid[r], Posting(r), op[r] \in {"commit", "rollback"},
         OthersStay(r), ~Posting(r)', cur'[r] = cur[r],
         UNCHANGED <<node, home, cut>>,
         \A x \in Tx \ {t} : /\ x \in open' <=> x \in open
                             /\ x \in stored' <=> x \in stored
                             /\ told'[x] = told[x] /\ pinned'[x] = pinned[x],
         t \in open' => t \in open /\ t \notin stored' /\ t \in loose',
         open' \subseteq Tx, stored' \subseteq Tx, loose \subseteq loose', refused' \subseteq cut,
         \A m \in flight' : m.op \in {"commit", "rollback"} =>
           m \in flight \/ (m.tx = t /\ (m.op = "commit" => told'[m.tx] = "unsure"))
  PROVE  TxInv'
<1>1. cur[r] = NoTx
  BY DEF TypeInv, CallsFit
<1>2. \A q \in Request : \A x \in Tx : Owns(q, x)' <=> Owns(q, x) /\ ~(q = r /\ x = t)
  BY <1>1, NoTxIsNone DEF Owns, OthersStay
<1>3. Owns(r, t) /\ \A q \in Request : ~Owns(q, t)'
  <2>1. Owns(r, t)
    BY DEF Owns
  <2> QED BY <1>1, <1>2, <2>1 DEF TxInv, OneOwner
<1>4. OneOwner' /\ OwnedIsHeld'
  BY <1>2, <1>3 DEF TxInv, OneOwner, OwnedIsHeld
<1>5. OpenNotStored' /\ OpenIsOwned' /\ OnlyLostNodesRefuse' /\ DownCuts'
  BY <1>1, <1>2, <1>3 DEF TxInv, OpenNotStored, OpenIsOwned, OnlyLostNodesRefuse, DownCuts
<1>6. CallsAimed'
  BY DEF TxInv, CallsAimed, OthersStay
<1>7. EndsLetGo'
  <2> SUFFICES ASSUME NEW m \in flight', m.op \in {"commit", "rollback"}
               PROVE  /\ home[m.tx] \in Node /\ \A q \in Request : ~Owns(q, m.tx)'
                      /\ m.op = "commit" => told'[m.tx] = "unsure"
    BY DEF EndsLetGo
  <2>1. CASE m \in flight
    <3>1. m.tx \in Tx /\ m.tx # t
      BY <1>3, <2>1 DEF TypeInv, CallsFit, Fits, TxInv, EndsLetGo
    <3> QED BY <1>2, <2>1, <3>1 DEF TxInv, EndsLetGo
  <2>2. CASE m \notin flight
    <3>1. m.tx = t /\ (m.op = "commit" => told'[m.tx] = "unsure")
      BY <2>2
    <3>2. home[t] \in Node
      BY <1>1, <1>3 DEF TxInv, OwnedIsHeld
    <3> QED BY <1>3, <3>1, <3>2
  <2> QED BY <2>1, <2>2
<1>8. NothingSaidYet'
  <2>1. ASSUME NEW q \in Request, cur'[q] \in Tx PROVE told'[cur'[q]] = "none"
    <3>1. cur'[q] = cur[q] /\ q # r
      BY <1>1, <2>1, NoTxIsNone DEF OthersStay
    <3> QED BY <1>3, <2>1, <3>1 DEF TxInv, NothingSaidYet, OneOwner, Owns
  <2>2. ASSUME NEW q \in Request, Posting(q)', op'[q] = "commit" PROVE told'[sid'[q]] = "none"
    <3>1. q # r /\ Posting(q) /\ op[q] = "commit" /\ sid'[q] = sid[q]
      BY <2>2 DEF OthersStay
    <3>2. sid[q] \in Tx
      BY <3>1 DEF TypeInv, CallsFit, Fits
    <3> QED BY <1>3, <3>1, <3>2 DEF TxInv, NothingSaidYet, OneOwner, Owns
  <2>3. ASSUME NEW x \in Tx, home'[x] = NoNode PROVE told'[x] = "none" /\ x \notin stored'
    <3>1. x # t
      BY <1>3, <2>3 DEF TxInv, OwnedIsHeld, Node, NoNode
    <3> QED BY <2>3, <3>1 DEF TxInv, NothingSaidYet
  <2> QED BY <2>1, <2>2, <2>3 DEF NothingSaidYet
<1> QED BY <1>4, <1>5, <1>6, <1>7, <1>8 DEF TxInv

\* A call within a transaction whose node was not lost is made there, and the node knows it.
LEMMA AtHome ==
  ASSUME TypeInv, TxInv, NEW r \in Request, Posting(r), sid[r] \in Tx, sid[r] \notin cut
  PROVE  /\ Target(r) = home[sid[r]] /\ pinned[sid[r]] = home[sid[r]] /\ home[sid[r]] \in Node
         /\ Known(sid[r], Target(r)) /\ node[Target(r)] # "down"
<1>1. home[sid[r]] \in Node /\ sid[r] \in open /\ pinned[sid[r]] = home[sid[r]]
  BY DEF TxInv, OwnedIsHeld, Owns
<1>2. Target(r) = home[sid[r]]
  BY DEF TxInv, CallsAimed, Target
<1> QED BY <1>1, <1>2 DEF TxInv, DownCuts, Known

\* The calls of r within its transaction end with the session holding it as before, or outside one.
LEMMA OwnersKept ==
  ASSUME TypeInv, NEW r \in Request, Posting(r), op[r] \notin {"commit", "rollback"},
         OthersStay(r), ~Posting(r)', cur'[r] = cur[r]
  PROVE  /\ \A q \in Request : \A x \in Tx : Owns(q, x)' <=> Owns(q, x)
         /\ \A q \in Request : cur'[q] = cur[q]
         /\ \A q \in Request : Posting(q)' =>
              Posting(q) /\ op'[q] = op[q] /\ sid'[q] = sid[q] /\ left'[q] = left[q]
<1>1. \A x \in Tx : sid[r] = x => cur[r] = x
  BY NoTxIsNone DEF TypeInv, TypeOK, CallsFit, Fits, Op
<1> QED BY <1>1 DEF Owns, OthersStay

LEMMA AnsweredTx ==
  ASSUME TypeInv, TxInv, NEW r \in Request, Answered(r)
  PROVE  TxInv'
<1>1. OthersStay(r) /\ ~Posting(r)' /\ cur'[r] = cur[r]
  <2>1. after[r] # "posting" /\ Returns(r, after[r]) /\ cur' = cur
    BY DEF Answered, TypeInv, TypeOK
  <2> QED BY <2>1, ReturnedCall
<1>2. Posting(r) /\ op[r] # "begin" /\ Runs(op[r], r, sid[r], Target(r))
  BY DEF Answered, Posting
<1>3. UNCHANGED <<node, home, flight, cut, loose, refused>>
  BY <1>2 DEF Answered, Runs
<1>4. CASE op[r] \in {"commit", "rollback"}
  <2>1. PICK t \in Tx : t = sid[r]
    BY <1>2, <1>4 DEF TypeInv, CallsFit, Fits
  <2>2. open' = open \ {t} /\ stored' \in {stored, stored \union {t}}
    BY <1>2, <1>4, <2>1 DEF Runs
  <2>3. \A x \in Tx \ {t} : told'[x] = told[x] /\ pinned'[x] = pinned[x]
    BY <2>1 DEF Answered, Unpin, TypeInv, TypeOK
  <2>4. open' \subseteq Tx /\ stored' \subseteq Tx /\ refused' \subseteq cut
    BY <1>3, <2>2 DEF TypeInv, TypeOK, TxInv, OnlyLostNodesRefuse
  <2> QED BY <1>1, <1>2, <1>3, <1>4, <2>1, <2>2, <2>3, <2>4, EndedTx
<1>5. CASE op[r] \notin {"commit", "rollback"}
  <2>1. UNCHANGED <<open, stored, pinned, told>>
    BY <1>2, <1>5 DEF Answered, Runs, Unpin
  <2>2. DownCuts' /\ refused' \subseteq cut'
    BY <1>3 DEF TxInv, DownCuts, OnlyLostNodesRefuse
  <2> QED BY <1>1, <1>2, <1>3, <1>5, <2>1, <2>2, OwnersKept, TxKept
<1> QED BY <1>4, <1>5

LEMMA GivenUpTx ==
  ASSUME TypeInv, TxInv, NEW r \in Request, GivesUp(r)
  PROVE  TxInv'
<1> DEFINE m == [op |-> op[r], req |-> r, tx |-> sid[r], node |-> Target(r)]
<1>1. OthersStay(r) /\ ~Posting(r)' /\ cur'[r] = cur[r]
  <2> DEFINE s == IF op[r] = "rollback" THEN after[r] ELSE "failing"
  <2>1. s # "posting" /\ Returns(r, s) /\ cur' = cur
    BY DEF GivesUp, TypeInv, TypeOK
  <2> HIDE DEF s
  <2> QED BY <2>1, ReturnedCall
<1>2. Posting(r) /\ flight' = flight \union {m} /\ m.op = op[r] /\ m.tx = sid[r]
  BY DEF GivesUp, Posting
<1>3. UNCHANGED <<node, home, open, stored, cut, refused>>
  BY DEF GivesUp, server
<1>4. DownCuts' /\ refused' \subseteq cut /\ refused' \subseteq cut'
  BY <1>3 DEF TxInv, DownCuts, OnlyLostNodesRefuse
<1> HIDE DEF m
<1>5. CASE op[r] \in {"commit", "rollback"}
  <2>1. PICK t \in Tx : t = sid[r]
    BY <1>2, <1>5 DEF TypeInv, CallsFit, Fits
  <2>2. /\ loose' = loose \union {t}
        /\ op[r] = "commit" => told'[t] = "unsure"
        /\ \A x \in Tx \ {t} : told'[x] = told[x] /\ pinned'[x] = pinned[x]
    BY <1>5, <2>1 DEF GivesUp, Unpin, TypeInv, TypeOK
  <2>3. \A l \in flight' : l.op \in {"commit", "rollback"} =>
          l \in flight \/ (l.tx = t /\ (l.op = "commit" => told'[l.tx] = "unsure"))
    BY <1>2, <2>1, <2>2
  <2>4. t \in open' => t \in open /\ t \notin stored' /\ t \in loose'
    BY <1>3, <2>2 DEF TxInv, OpenNotStored
  <2>5. open' \subseteq Tx /\ stored' \subseteq Tx
    BY <1>3 DEF TypeInv, TypeOK
  <2> QED BY <1>1, <1>2, <1>3, <1>4, <1>5, <2>1, <2>2, <2>3, <2>4, <2>5, EndedTx
<1>6. CASE op[r] \notin {"commit", "rollback"}
  <2>1. UNCHANGED <<pinned, told, loose>>
    BY <1>6 DEF GivesUp, Unpin
  <2>2. \A l \in flight' : l.op \in {"commit", "rollback"} => l \in flight
    BY <1>2, <1>6
  <2> QED BY <1>1, <1>2, <1>3, <1>4, <1>6, <2>1, <2>2, OwnersKept, TxKept
<1> QED BY <1>5, <1>6

LEMMA FailedTx ==
  ASSUME TypeInv, TxInv, NEW r \in Request, Fails(r)
  PROVE  TxInv'
<1>1. Posting(r) /\ UNCHANGED <<node, home, stored, flight, cut>> /\ Target(r) \in Node
  BY DEF Fails, Posting, Target, TypeInv, TypeOK
<1>2. refused' \subseteq cut
  <2>1. ASSUME sid[r] # NoTx, node[Target(r)] = "up", ~Known(sid[r], Target(r)) PROVE sid[r] \in cut
    <3>1. sid[r] \in Tx
      BY <2>1 DEF TypeInv, TypeOK
    <3> QED BY <1>1, <2>1, <3>1, AtHome
  <2> QED BY <2>1 DEF Fails, TxInv, OnlyLostNodesRefuse
<1>3. DownCuts'
  BY <1>1 DEF TxInv, DownCuts
<1>4. ASSUME NEW t \in Tx, t = sid[r], node[Target(r)] = "down" PROVE t \in cut
  BY <1>1, <1>4, AtHome
<1>5. CASE op[r] = "write"
  <2>1. PICK t \in Tx : t = sid[r] /\ cur[r] = t
    BY <1>1, <1>5 DEF TypeInv, CallsFit, Fits
  <2> DEFINE n == IF (node[Target(r)] = "down" /\ t # NoTx) \/ pinned[t] \notin Node THEN preferred ELSE pinned[t]
  <2>2. /\ pc' = pc /\ op' = [op EXCEPT ![r] = "rollback"] /\ left' = [left EXCEPT ![r] = <<n>>]
        /\ cur' = [cur EXCEPT ![r] = NoTx] /\ sid' = sid
        /\ told' = [told EXCEPT ![t] = "failed"] /\ loose' = loose /\ open' = open
    BY <1>5, <2>1 DEF Fails, Raises
  <2>3. \A x \in Tx : pinned'[x] = pinned[x] \/ x \in cut
    BY <1>4, <1>5, <2>1 DEF Fails, Raises, TypeInv, TypeOK
  <2>4. n \in Node /\ (t \in cut \/ n = home[t])
    <3>1. t \in cut \/ (pinned[t] = home[t] /\ home[t] \in Node /\ node[Target(r)] # "down")
      BY <1>1, <2>1, AtHome
    <3> QED BY <3>1 DEF TypeInv, TypeOK
  <2> HIDE DEF n
  <2>5. \A q \in Request : \A x \in Tx : Owns(q, x)' <=> Owns(q, x)
    BY <1>1, <2>1, <2>2, NoTxIsNone DEF Owns, Posting, TypeInv, TypeOK
  <2>6. Owns(r, t) /\ \A q \in Request : q # r => ~Owns(q, t)
    BY <2>1 DEF TxInv, OneOwner, Owns
  <2>7. OneOwner' /\ OwnedIsHeld' /\ OpenNotStored' /\ OpenIsOwned' /\ OnlyLostNodesRefuse'
    <3>1. OneOwner'
      BY <2>5 DEF TxInv, OneOwner
    <3>2. OwnedIsHeld'
      BY <1>1, <2>2, <2>3, <2>5 DEF TxInv, OwnedIsHeld
    <3>3. OpenNotStored' /\ OpenIsOwned' /\ OnlyLostNodesRefuse'
      BY <1>1, <1>2, <2>2, <2>5 DEF TxInv, OpenNotStored, OpenIsOwned, OnlyLostNodesRefuse, TypeInv, TypeOK
    <3> QED BY <3>1, <3>2, <3>3
  <2>8. CallsAimed'
    <3> SUFFICES ASSUME NEW q \in Request, Posting(q)', sid'[q] \in Tx
                 PROVE  Len(left'[q]) = 1 /\ (sid'[q] \in cut' \/ left'[q][1] = home'[sid'[q]])
      BY DEF CallsAimed
    <3>1. CASE q = r
      <4>1. left'[q] = <<n>> /\ sid'[q] = t /\ home' = home /\ cut' = cut
        BY <1>1, <2>1, <2>2, <3>1 DEF TypeInv, TypeOK
      <4> QED BY <2>4, <4>1
    <3>2. CASE q # r
      <4>1. left'[q] = left[q] /\ sid'[q] = sid[q] /\ home' = home /\ cut' = cut /\ Posting(q)
        BY <1>1, <2>2, <3>2 DEF TypeInv, TypeOK, Posting
      <4> QED BY <4>1 DEF TxInv, CallsAimed
    <3> QED BY <3>1, <3>2
  <2>9. \A x \in Tx : x # t => told'[x] = told[x]
    BY <2>2 DEF TypeInv, TypeOK
  <2>10. EndsLetGo'
    <3>1. \A m \in flight : m.op \in {"commit", "rollback"} => m.tx \in Tx /\ m.tx # t
      BY <2>6 DEF TypeInv, CallsFit, Fits, TxInv, EndsLetGo
    <3> QED BY <1>1, <2>5, <2>9, <3>1 DEF TxInv, EndsLetGo
  <2>11. NothingSaidYet'
    <3>1. ASSUME NEW q \in Request, cur'[q] \in Tx PROVE told'[cur'[q]] = "none"
      <4>1. q # r /\ cur'[q] = cur[q]
        BY <2>2, <3>1, NoTxIsNone DEF TypeInv, TypeOK
      <4> QED BY <2>6, <2>9, <3>1, <4>1 DEF TxInv, NothingSaidYet, Owns
    <3>2. ASSUME NEW q \in Request, Posting(q)', op'[q] = "commit" PROVE told'[sid'[q]] = "none"
      <4>1. q # r /\ Posting(q) /\ op[q] = "commit" /\ sid'[q] = sid[q]
        BY <2>2, <3>2 DEF TypeInv, TypeOK, Posting
      <4>2. sid[q] \in Tx
        BY <4>1 DEF TypeInv, CallsFit, Fits
      <4> QED BY <2>6, <2>9, <4>1, <4>2 DEF TxInv, NothingSaidYet, Owns
    <3>3. ASSUME NEW x \in Tx, home'[x] = NoNode PROVE told'[x] = "none" /\ x \notin stored'
      <4>1. x # t
        BY <1>1, <2>6, <3>3 DEF TxInv, OwnedIsHeld, Node, NoNode
      <4> QED BY <1>1, <2>9, <3>3, <4>1 DEF TxInv, NothingSaidYet
    <3> QED BY <3>1, <3>2, <3>3 DEF NothingSaidYet
  <2> QED BY <1>3, <2>7, <2>8, <2>10, <2>11 DEF TxInv
<1>6. CASE op[r] # "write"
  <2>1. OthersStay(r) /\ ~Posting(r)' /\ cur'[r] = cur[r]
    <3> DEFINE s == IF op[r] = "rollback" THEN after[r] ELSE "failing"
    <3>1. s # "posting" /\ Returns(r, s) /\ cur' = cur
      BY <1>6 DEF Fails, Raises, TypeInv, TypeOK
    <3> HIDE DEF s
    <3> QED BY <3>1, ReturnedCall
  <2>2. CASE op[r] \in {"commit", "rollback"}
    <3>1. PICK t \in Tx : t = sid[r]
      BY <1>1, <2>2 DEF TypeInv, CallsFit, Fits
    <3>2. /\ loose' = loose \union {t} /\ open' \subseteq open /\ open \ {t} \subseteq open'
          /\ \A x \in Tx \ {t} : told'[x] = told[x] /\ pinned'[x] = pinned[x]
      BY <2>2, <3>1 DEF Fails, Raises, TypeInv, TypeOK
    <3>3. t \in open' => t \in open /\ t \notin stored' /\ t \in loose'
      BY <1>1, <3>2 DEF TxInv, OpenNotStored
    <3>4. open' \subseteq Tx /\ stored' \subseteq Tx
      BY <1>1, <3>2 DEF TypeInv, TypeOK
    <3> QED BY <1>1, <1>2, <2>1, <2>2, <3>1, <3>2, <3>3, <3>4, EndedTx
  <2>3. CASE op[r] \notin {"commit", "rollback"}
    <3>1. UNCHANGED <<open, told, loose>>
      BY <1>6, <2>3 DEF Fails, Raises
    <3>2. \A x \in Tx : pinned'[x] = pinned[x] \/ x \in cut'
      BY <1>1, <1>4, <2>3 DEF Fails, Raises, TypeInv, TypeOK
    <3> QED BY <1>1, <1>2, <1>3, <2>1, <2>3, <3>1, <3>2, OwnersKept, TxKept
  <2> QED BY <2>2, <2>3
<1> QED BY <1>5, <1>6

\* A node runs a call its request has given up.
LEMMA LateTx ==
  ASSUME TypeInv, TxInv, NEW m \in flight, RunsLate(m)
  PROVE  TxInv'
<1>1. PICK t \in IF m.op = "begin" THEN Tx ELSE {m.tx} :
        Runs(m.op, m.req, t, m.node) /\ loose' = IF m.op = "begin" THEN loose \union {t} ELSE loose
  BY DEF RunsLate
<1>2. /\ m \in Message /\ Fits(m.op, m.tx)
      /\ UNCHANGED <<node, pinned, pc, op, sid, left, cur, told, cut, refused>>
      /\ flight' = flight \ {m} /\ node[m.node] = "up"
  BY DEF RunsLate, client, TypeInv, TypeOK, CallsFit
<1>3. \A q \in Request : \A x \in Tx : Owns(q, x)' <=> Owns(q, x)
  BY <1>2 DEF Owns, Posting
<1>4. \A l \in flight : l.op \in {"commit", "rollback"} => l.tx \in Tx
  BY DEF TypeInv, CallsFit, Fits
<1>5. CASE m.op = "begin"
  <2>1. /\ t \in Tx /\ home[t] = NoNode /\ home' = [home EXCEPT ![t] = m.node]
        /\ open' = open \union {t} /\ stored' = stored /\ loose' = loose \union {t} /\ m.node \in Node
    BY <1>1, <1>2, <1>5 DEF Runs, Message
  <2>2. /\ \A q \in Request : ~Owns(q, t)
        /\ told[t] = "none" /\ t \notin stored /\ NoNode \notin Node
    <3>1. NoNode \notin Node
      BY SomeNode DEF Node, NoNode
    <3> QED BY <2>1, <3>1 DEF TxInv, OwnedIsHeld, NothingSaidYet
  <2>3. \A x \in Tx : home'[x] = IF x = t THEN m.node ELSE home[x]
    BY <2>1 DEF TypeInv, TypeOK
  <2>4. OneOwner' /\ OwnedIsHeld'
    BY <1>2, <1>3, <2>1, <2>2, <2>3 DEF TxInv, OneOwner, OwnedIsHeld
  <2>5. CallsAimed'
    <3>1. \A q \in Request : Posting(q) /\ sid[q] \in Tx => sid[q] # t
      BY <2>2 DEF Owns
    <3> QED BY <1>2, <2>3, <3>1 DEF TxInv, CallsAimed, Posting
  <2>6. EndsLetGo'
    <3>1. \A l \in flight : l.op \in {"commit", "rollback"} => home'[l.tx] = home[l.tx]
      BY <1>4, <2>1, <2>2, <2>3 DEF TxInv, EndsLetGo
    <3> QED BY <1>2, <1>3, <1>4, <3>1 DEF TxInv, EndsLetGo
  <2>7. NothingSaidYet'
    BY <1>2, <2>1, <2>3 DEF TxInv, NothingSaidYet, Posting
  <2>8. OpenNotStored' /\ OpenIsOwned' /\ OnlyLostNodesRefuse'
    BY <1>2, <1>3, <2>1, <2>2 DEF TxInv, OpenNotStored, OpenIsOwned, OnlyLostNodesRefuse, TypeInv, TypeOK
  <2>9. DownCuts'
    BY <1>2, <2>3 DEF TxInv, DownCuts
  <2> QED BY <2>4, <2>5, <2>6, <2>7, <2>8, <2>9 DEF TxInv
<1>6. CASE m.op \in {"commit", "rollback"}
  <2>1. /\ t = m.tx /\ t \in Tx /\ home' = home /\ open' = open \ {t} /\ loose' = loose
        /\ stored' \in {stored, stored \union {t}}
    BY <1>1, <1>4, <1>6 DEF Runs
  <2>2. home[t] \in Node /\ \A q \in Request : ~Owns(q, t)
    BY <1>6, <2>1 DEF TxInv, EndsLetGo
  <2>3. OneOwner' /\ OwnedIsHeld' /\ CallsAimed'
    BY <1>2, <1>3, <2>1, <2>2 DEF TxInv, OneOwner, OwnedIsHeld, CallsAimed, Posting
  <2>4. EndsLetGo'
    BY <1>2, <1>3, <1>4, <2>1 DEF TxInv, EndsLetGo
  <2>5. NothingSaidYet'
    BY <1>2, <2>1, <2>2 DEF TxInv, NothingSaidYet, Posting, Node, NoNode
  <2>6. OpenNotStored' /\ OpenIsOwned' /\ OnlyLostNodesRefuse' /\ DownCuts'
    BY <1>2, <1>3, <2>1 DEF TxInv, OpenNotStored, OpenIsOwned, OnlyLostNodesRefuse, DownCuts, TypeInv, TypeOK
  <2> QED BY <2>3, <2>4, <2>5, <2>6 DEF TxInv
<1>7. CASE m.op \notin {"begin", "commit", "rollback"}
  <2>1. UNCHANGED <<home, open, stored, loose>>
    BY <1>1, <1>7 DEF Runs
  <2>2. DownCuts' /\ refused' \subseteq cut'
    BY <1>2, <2>1 DEF TxInv, DownCuts, OnlyLostNodesRefuse
  <2> QED BY <1>2, <1>3, <2>1, <2>2, TxKept DEF Posting
<1> QED BY <1>5, <1>6, <1>7

\* A lost node cuts the transactions that began there.
LEMMA ChangedTx ==
  ASSUME TypeInv, TxInv, NEW n \in Node, NodeChanges(n)
  PROVE  TxInv'
<1>1. PICK s \in {"up", "electing", "down"}, restarts \in BOOLEAN :
        /\ node' = [node EXCEPT ![n] = s]
        /\ cut' = IF s = "down" THEN cut \union {t \in Tx : home[t] = n} ELSE cut
        /\ restarts => s = "down"
        /\ open' = IF restarts THEN {t \in open : home[t] # n} ELSE open
        /\ flight' = IF restarts THEN {m \in flight : m.node # n} ELSE flight
  BY DEF NodeChanges
<1>2. UNCHANGED <<home, stored, pinned, pc, op, sid, left, cur, told, loose, refused>>
  BY DEF NodeChanges, client
<1>3. \A t \in open : t \in Tx /\ (t \in open' \/ t \in cut')
  BY <1>1 DEF TypeInv, TypeOK
<1>4. cut \subseteq cut' /\ refused' \subseteq cut' /\ flight' \subseteq flight /\ open' \subseteq open
  BY <1>1, <1>2 DEF TxInv, OnlyLostNodesRefuse
<1>5. DownCuts'
  BY <1>1, <1>2 DEF TxInv, DownCuts, TypeInv, TypeOK
<1>6. \A q \in Request : \A x \in Tx : Owns(q, x)' <=> Owns(q, x)
  BY <1>2 DEF Owns, Posting
<1> QED BY <1>2, <1>3, <1>4, <1>5, <1>6, TxKept DEF Posting

LEMMA NextTx == TypeInv /\ TxInv /\ [Next]_vars => TxInv'
<1> SUFFICES ASSUME TypeInv, TxInv, [Next]_vars PROVE TxInv'
  OBVIOUS
<1>1. ASSUME NEW r \in Request, Query(r) PROVE TxInv'
  <2>1. pc[r] # "posting" /\ Post(r, "read", cur[r], "ready") /\ cur' = cur /\ told' = told
    BY <1>1 DEF Query, history
  <2> QED BY <1>1, <2>1, TxPosted DEF Query, history, Op
<1>2. ASSUME NEW r \in Request, Execute(r) PROVE TxInv'
  <2> DEFINE o == IF cur[r] = NoTx THEN "begin" ELSE "write"
  <2>1. pc[r] # "posting" /\ Post(r, o, cur[r], "ready") /\ cur' = cur /\ told' = told
    BY <1>2 DEF Execute, history
  <2>2. o \in Op /\ o # "commit"
    BY DEF Op
  <2> HIDE DEF o
  <2> QED BY <1>2, <2>1, <2>2, TxPosted DEF Execute, history
<1>3. ASSUME NEW r \in Request, Command(r) PROVE TxInv'
  <2>1. pc[r] # "posting" /\ Post(r, "command", cur[r], "ready") /\ cur' = cur /\ told' = told
    BY <1>3 DEF Command
  <2> QED BY <1>3, <2>1, TxPosted DEF Command, Op
<1>4. ASSUME NEW r \in Request, Commit(r) PROVE TxInv'
  <2>1. /\ pc[r] # "posting" /\ Post(r, "commit", cur[r], "ready") /\ told' = told
        /\ cur' = [cur EXCEPT ![r] = NoTx] /\ cur[r] \in Tx
    BY <1>4 DEF Commit, history, TypeInv, TypeOK
  <2> QED BY <1>4, <2>1, TxPosted DEF Commit, history, Op
<1>5. ASSUME NEW r \in Request, Leave(r) PROVE TxInv'
  <2>1. pc[r] # "posting"
    BY <1>5 DEF Leave
  <2>2. CASE cur[r] # NoTx
    <3>1. PICK then \in {"ready", "closed"} : Rollback(r, then)
      BY <1>5, <2>2 DEF Leave
    <3> QED BY <1>5, <2>1, <3>1, TxPosted DEF Leave, Rollback, Tell, Op
  <2>3. CASE cur[r] = NoTx
    <3>1. PICK then \in {"ready", "closed"} : pc' = [pc EXCEPT ![r] = then]
      BY <1>5, <2>3 DEF Leave
    <3>2. UNCHANGED <<op, sid, left, cur, told, node, server, flight, pinned, cut, loose, refused>>
      BY <1>5, <2>3 DEF Leave
    <3>3. \A q \in Request : Posting(q)' <=> Posting(q)
      BY <2>1, <3>1 DEF Posting, TypeInv, TypeOK
    <3>4. \A q \in Request : \A x \in Tx : Owns(q, x)' <=> Owns(q, x)
      BY <3>2, <3>3 DEF Owns
    <3>5. DownCuts' /\ refused' \subseteq cut'
      BY <3>2 DEF TxInv, DownCuts, OnlyLostNodesRefuse, server
    <3> QED BY <3>2, <3>3, <3>4, <3>5, TxKept DEF server
  <2> QED BY <2>2, <2>3
<1>6. ASSUME NEW r \in Request, TriesNext(r) PROVE TxInv'
  <2>1. /\ sid[r] = NoTx /\ left' = [left EXCEPT ![r] = Tail(@)]
        /\ UNCHANGED <<op, sid, pc, cur, told, node, server, flight, pinned, cut, loose, refused>>
    BY <1>6 DEF TriesNext, history
  <2>2. \A q \in Request : \A x \in Tx : Owns(q, x)' <=> Owns(q, x)
    BY <2>1 DEF Owns, Posting
  <2>3. DownCuts' /\ refused' \subseteq cut'
    BY <2>1 DEF TxInv, DownCuts, OnlyLostNodesRefuse, server
  <2>4. \A q \in Request : sid'[q] \in Tx => left'[q] = left[q]
    BY <2>1, NoTxIsNone DEF TypeInv, TypeOK
  <2> QED BY <2>1, <2>2, <2>3, <2>4, TxKept DEF server, Posting
<1>7. CASE UNCHANGED vars
  BY <1>7 DEF TxInv, OneOwner, OwnedIsHeld, CallsAimed, EndsLetGo, NothingSaidYet, OpenNotStored, DownCuts,
    OpenIsOwned, OnlyLostNodesRefuse, Owns, Posting, vars, server, client, history
<1> QED
  BY <1>1, <1>2, <1>3, <1>4, <1>5, <1>6, <1>7, BegunTx, AnsweredTx, FailedTx, GivenUpTx, LateTx, ChangedTx
  DEF Next, Acts

LEMMA TxAlways == Spec => [](TypeInv /\ TxInv)
BY InitTypes, InitTx, NextTypes, NextTx, PTL DEF Spec

\* A node that can be reached refuses a transaction only if its node was lost: whatever other
\* requests do to the preferred node, a transaction's statements reach the node that has it.
THEOREM RefusalsMeanLoss == Spec => []OnlyLostNodesRefuse
<1>1. TxInv => OnlyLostNodesRefuse
  BY DEF TxInv
<1> QED BY <1>1, TxAlways, PTL

\* No transaction stays open that no session holds or is ending, unless its node was lost or its
\* begin or end went unanswered.
THEOREM TransactionsAreEnded == Spec => []NothingLeftOpen
<1>1. TxInv => NothingLeftOpen
  BY DEF TxInv, OpenIsOwned, NothingLeftOpen, Owns, Posting
<1> QED BY <1>1, TxAlways, PTL

-----------------------------------------------------------------------------
(* The promise of a unit of work.                                          *)

\* A transaction whose statement, commit or rollback is being posted, or that is held, is not stored;
\* and nothing has been said of it, unless it is being rolled back.
LEMMA Unsettled ==
  ASSUME TypeInv, TxInv, NEW r \in Request
  PROVE  /\ cur[r] \in Tx => cur[r] \notin stored /\ told[cur[r]] = "none"
         /\ Posting(r) /\ op[r] \in {"write", "commit"} =>
              sid[r] \in Tx /\ sid[r] \notin stored /\ told[sid[r]] = "none"
<1>1. cur[r] \in Tx => cur[r] \notin stored /\ told[cur[r]] = "none"
  BY DEF TxInv, OwnedIsHeld, Owns, NothingSaidYet
<1>2. ASSUME Posting(r), op[r] \in {"write", "commit"}
      PROVE sid[r] \in Tx /\ sid[r] \notin stored /\ told[sid[r]] = "none"
  <2>1. sid[r] \in Tx
    BY <1>2 DEF TypeInv, CallsFit, Fits
  <2>2. sid[r] \notin stored
    BY <1>2, <2>1 DEF TxInv, OwnedIsHeld, Owns
  <2>3. told[sid[r]] = "none"
    BY <1>1, <1>2, <2>1 DEF TxInv, NothingSaidYet, TypeInv, CallsFit
  <2> QED BY <2>1, <2>2, <2>3
<1> QED BY <1>1, <1>2

LEMMA InitPromise == Init => Units!Init
BY DEF Init, Units!Init

LEMMA NextPromise == TypeInv /\ TxInv /\ [Next]_vars => [Units!Next]_(Units!vars)
<1> SUFFICES ASSUME TypeInv, TxInv, [Next]_vars PROVE Units!Next \/ UNCHANGED Units!vars
  OBVIOUS
<1> USE DEF Units!vars
<1>1. ASSUME NEW r \in Request,
             Query(r) \/ Execute(r) \/ Command(r) \/ Commit(r) \/ TriesNext(r) \/ BeginAnswered(r)
      PROVE UNCHANGED Units!vars
  BY <1>1 DEF Query, Execute, Command, Commit, TriesNext, BeginAnswered, Runs, server, history
<1>2. ASSUME NEW r \in Request, Leave(r) PROVE Units!Next \/ UNCHANGED Units!vars
  <2>1. UNCHANGED <<work, stored>>
    BY <1>2 DEF Leave, server
  <2>2. CASE cur[r] # NoTx
    <3>1. cur[r] \in Tx /\ told' = [told EXCEPT ![cur[r]] = "failed"]
      BY <1>2, <2>2 DEF Leave, Rollback, Tell, TypeInv, TypeOK
    <3> QED BY <2>1, <3>1, Unsettled DEF Units!Next, Units!Report
  <2>3. CASE cur[r] = NoTx
    BY <1>2, <2>1, <2>3 DEF Leave
  <2> QED BY <2>2, <2>3
<1>3. ASSUME NEW r \in Request, Answered(r) PROVE Units!Next \/ UNCHANGED Units!vars
  <2>1. Posting(r) /\ Runs(op[r], r, sid[r], Target(r))
    BY <1>3 DEF Answered, Posting
  <2>2. CASE op[r] = "write"
    <3>1. work' = [work EXCEPT ![sid[r]] = @ + 1] /\ UNCHANGED <<stored, told>>
      BY <1>3, <2>1, <2>2 DEF Answered, Runs
    <3> QED BY <2>1, <2>2, <3>1, Unsettled DEF Units!Next, Units!Write
  <2>3. CASE op[r] = "commit"
    <3>1. work' = work /\ stored' = stored \union {sid[r]} /\ told' = [told EXCEPT ![sid[r]] = "ok"]
      BY <1>3, <2>1, <2>3 DEF Answered, Runs
    <3> QED BY <2>1, <2>3, <3>1, Unsettled DEF Units!Next, Units!Store
  <2>4. CASE op[r] \notin {"write", "commit"}
    BY <1>3, <2>1, <2>4 DEF Answered, Runs
  <2> QED BY <2>2, <2>3, <2>4
<1>4. ASSUME NEW r \in Request, Fails(r) PROVE Units!Next \/ UNCHANGED Units!vars
  <2>1. Posting(r) /\ UNCHANGED <<work, stored>>
    BY <1>4 DEF Fails, Posting
  <2>2. CASE op[r] \in {"write", "commit"}
    <3>1. told' = [told EXCEPT ![sid[r]] = "failed"]
      BY <1>4, <2>2 DEF Fails, Raises
    <3> QED BY <2>1, <2>2, <3>1, Unsettled DEF Units!Next, Units!Report
  <2>3. CASE op[r] \notin {"write", "commit"}
    BY <1>4, <2>1, <2>3 DEF Fails, Raises
  <2> QED BY <2>2, <2>3
<1>5. ASSUME NEW r \in Request, GivesUp(r) PROVE Units!Next \/ UNCHANGED Units!vars
  <2>1. Posting(r) /\ UNCHANGED <<work, stored>>
    BY <1>5 DEF GivesUp, Posting, server
  <2>2. CASE op[r] = "commit"
    <3>1. told' = [told EXCEPT ![sid[r]] = "unsure"]
      BY <1>5, <2>2 DEF GivesUp
    <3> QED BY <2>1, <2>2, <3>1, Unsettled DEF Units!Next, Units!Report
  <2>3. CASE op[r] # "commit"
    BY <1>5, <2>1, <2>3 DEF GivesUp
  <2> QED BY <2>2, <2>3
<1>6. ASSUME NEW m \in flight, RunsLate(m) PROVE Units!Next \/ UNCHANGED Units!vars
  <2>1. PICK t \in IF m.op = "begin" THEN Tx ELSE {m.tx} : Runs(m.op, m.req, t, m.node)
    BY <1>6 DEF RunsLate
  <2>2. Fits(m.op, m.tx) /\ told' = told
    BY <1>6 DEF RunsLate, TypeInv, CallsFit
  <2>3. ASSUME m.op \in {"write", "commit"} PROVE t = m.tx /\ t \in Tx /\ t \notin stored
    <3>1. t = m.tx /\ t \in Tx
      BY <2>1, <2>2, <2>3 DEF Fits
    <3>2. Known(t, m.node)
      BY <2>1, <2>3, <3>1, NoTxIsNone DEF Runs
    <3> QED BY <3>1, <3>2 DEF Known, TxInv, OpenNotStored
  <2>4. CASE m.op = "write"
    <3>1. work' = [work EXCEPT ![t] = @ + 1] /\ stored' = stored
      BY <2>1, <2>4 DEF Runs
    <3> QED BY <2>2, <2>3, <2>4, <3>1 DEF Units!Next, Units!Write
  <2>5. CASE m.op = "commit"
    <3>1. work' = work /\ stored' = stored \union {t}
      BY <2>1, <2>5 DEF Runs
    <3>2. told[t] = "unsure"
      BY <2>3, <2>5 DEF TxInv, EndsLetGo
    <3> QED BY <2>2, <2>3, <2>5, <3>1, <3>2 DEF Units!Next, Units!Store
  <2>6. CASE m.op \notin {"write", "commit"}
    BY <2>1, <2>2, <2>6 DEF Runs
  <2> QED BY <2>4, <2>5, <2>6
<1>7. ASSUME NEW n \in Node, NodeChanges(n) PROVE UNCHANGED Units!vars
  BY <1>7 DEF NodeChanges
<1>8. CASE UNCHANGED vars
  BY <1>8 DEF vars, server, history
<1> QED BY <1>1, <1>2, <1>3, <1>4, <1>5, <1>6, <1>7, <1>8 DEF Next, Acts

\* The client implements a unit of work: what it writes is stored together or not at all, an answered
\* commit has stored it, and nothing that was reported as failed is stored, however late a node runs
\* a call nobody waits for any more.
THEOREM KeepsItsPromise == Spec => Promise
<1>1. Spec => Units!Init
  BY InitPromise DEF Spec
<1>2. Spec => [][Units!Next]_(Units!vars)
  BY TxAlways, NextPromise, PTL DEF Spec
<1> QED BY <1>1, <1>2, PTL DEF Promise, Units!Spec
=============================================================================
