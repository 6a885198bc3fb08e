--------------------------- MODULE DatabaseClient ---------------------------
(***************************************************************************)
(* ArcadeClient and ArcadeSession (arcadedb.py): one app instance talking  *)
(* to a cluster.  A statement outside a transaction is tried node by node, *)
(* but never again once a node may have run it; a transaction stays on the *)
(* node where it began.  A request runs one call at a time.  Requests      *)
(* interleave between calls and between a call's attempts; a node works    *)
(* off an abandoned call whenever it likes, or never.                      *)
(***************************************************************************)
EXTENDS Integers, Sequences

CONSTANTS
  NumNodes,   \* nodes of ARCADEDB_URL, 0 .. NumNodes - 1
  Request,    \* requests and jobs of this instance, one session each
  Tx, NoTx,   \* transaction ids, and Python's None
  MaxWrites,  \* bound on the statements of a transaction
  MaxFaults   \* bound on node changes and unanswered calls together

ASSUME SomeNode == NumNodes \in Nat \ {0}
ASSUME NoTxIsNone == NoTx \notin Tx
ASSUME Bounds == MaxWrites \in Nat /\ MaxFaults \in Nat

Node == 0 .. NumNodes - 1
NoNode == NumNodes
Op == {"begin", "read", "write", "command", "commit", "rollback"}

VARIABLES
  node,       \* "up", "electing" (answers that there is no leader) or "down", by node
  home,       \* the node on which each transaction began, if it did
  open,       \* transactions open on their node
  work,       \* statements each transaction has run
  stored,     \* committed transactions
  ran,        \* how often each request's statement outside a transaction ran
  flight,     \* calls their request has given up and a node may still run
  preferred,  \* self._preferred
  pinned,     \* self._session_nodes
  pc, op, sid, left, after,  \* per request: the call being posted, its session and the nodes left to try
  cur,        \* self._session_id of each request's session
  told,       \* history: what each transaction's request was told
  cut,        \* history: transactions whose node has been unreachable or restarted
  loose,      \* history: transactions nobody can end: their begin, or their end, was not answered
  refused,    \* history: transactions a reachable node did not know
  asked,      \* requests that have run their statement outside a transaction
  faults

server == <<home, open, work, stored, ran>>
client == <<preferred, pinned, pc, op, sid, left, after, cur>>
history == <<told, cut, loose, refused, asked>>
vars == <<node, server, flight, client, history, faults>>

Init ==
  /\ node = [n \in Node |-> "up"]
  /\ home = [t \in Tx |-> NoNode]
  /\ open = {} /\ stored = {} /\ flight = {}
  /\ work = [t \in Tx |-> 0]
  /\ ran = [r \in Request |-> 0]
  /\ preferred = 0
  /\ pinned = [t \in Tx |-> NoNode]
  /\ pc = [r \in Request |-> "ready"]
  /\ op = [r \in Request |-> "read"]
  /\ sid = [r \in Request |-> NoTx]
  /\ left = [r \in Request |-> <<>>]
  /\ after = [r \in Request |-> "ready"]
  /\ cur = [r \in Request |-> NoTx]
  /\ told = [t \in Tx |-> "none"]
  /\ cut = {} /\ loose = {} /\ refused = {} /\ asked = {}
  /\ faults = 0

\* The nodes are taken from the one that last worked on, without wrapping around.
OrderUnwrapped == [i \in 1 .. NumNodes - preferred |-> preferred + i]

\* Nodes from the one that last worked on, wrapping around.
Order == [i \in 1 .. NumNodes |-> (preferred + i - 1) % NumNodes]

\* A transaction's statements go to the node that last worked.
RoutePreferred(t) == IF t = NoTx THEN Order ELSE <<preferred>>

\* The nodes a call may be sent to: in a transaction, the one where it began.
Route(t) ==
  IF t = NoTx THEN Order
  ELSE <<IF pinned[t] \in Node THEN pinned[t] ELSE preferred>>

Post(r, o, t, then) ==
  /\ pc' = [pc EXCEPT ![r] = "posting"]
  /\ op' = [op EXCEPT ![r] = o]
  /\ sid' = [sid EXCEPT ![r] = t]
  /\ left' = [left EXCEPT ![r] = Route(t)]
  /\ after' = [after EXCEPT ![r] = then]

\* The call is over.
Returns(r, s) ==
  /\ pc' = [pc EXCEPT ![r] = s]
  /\ op' = [op EXCEPT ![r] = "read"]
  /\ sid' = [sid EXCEPT ![r] = NoTx]
  /\ left' = [left EXCEPT ![r] = <<>>]
  /\ after' = [after EXCEPT ![r] = "ready"]

Tell(t, answer) == told' = [told EXCEPT ![t] = answer]

-----------------------------------------------------------------------------
(* What a request asks for.                                                *)

Query(r) ==
  /\ pc[r] = "ready"
  /\ Post(r, "read", cur[r], "ready")
  /\ UNCHANGED <<node, server, flight, preferred, pinned, cur, history, faults>>

Execute(r) ==
  /\ pc[r] = "ready"
  /\ cur[r] # NoTx => work[cur[r]] < MaxWrites
  /\ Post(r, IF cur[r] = NoTx THEN "begin" ELSE "write", cur[r], "ready")
  /\ UNCHANGED <<node, server, flight, preferred, pinned, cur, history, faults>>

\* A statement that opens no transaction: schema and server commands.
Command(r) ==
  /\ pc[r] = "ready" /\ cur[r] = NoTx /\ r \notin asked
  /\ asked' = asked \union {r}
  /\ Post(r, "command", NoTx, "ready")
  /\ UNCHANGED <<node, server, flight, preferred, pinned, cur, told, cut, loose, refused, faults>>

Commit(r) ==
  /\ pc[r] = "ready" /\ cur[r] # NoTx
  /\ Post(r, "commit", cur[r], "ready")
  /\ cur' = [cur EXCEPT ![r] = NoTx]
  /\ UNCHANGED <<node, server, flight, preferred, pinned, history, faults>>

\* A closed session forgets its transaction instead of rolling it back.
RollbackForgets(r, then) ==
  /\ pc' = [pc EXCEPT ![r] = then]
  /\ cur' = [cur EXCEPT ![r] = NoTx]
  /\ Tell(cur[r], "failed")
  /\ UNCHANGED <<op, sid, left, after>>

Rollback(r, then) ==
  /\ Post(r, "rollback", cur[r], then)
  /\ cur' = [cur EXCEPT ![r] = NoTx]
  /\ Tell(cur[r], "failed")

\* The request gives its work up: its handler rolls back and goes on, or the session is closed.
Leave(r) == \E then \in {"ready", "closed"} :
  /\ pc[r] \in {"ready", "failing"}
  /\ IF cur[r] # NoTx THEN Rollback(r, then)
     ELSE pc' = [pc EXCEPT ![r] = then] /\ UNCHANGED <<op, sid, left, after, cur, told>>
  /\ UNCHANGED <<node, server, flight, preferred, pinned, cut, loose, refused, asked, faults>>

-----------------------------------------------------------------------------
(* How a call ends.                                                        *)

Target(r) == Head(left[r])
Known(t, n) == t \in open /\ home[t] = n
Unpin(r) == pinned' = IF op[r] \in {"commit", "rollback"} THEN [pinned EXCEPT ![sid[r]] = NoNode] ELSE pinned

\* What node n does with a call; t is the new id for "begin".
Runs(o, r, t, n) ==
  /\ o = "begin" => home[t] = NoNode
  /\ o # "begin" /\ t # NoTx => Known(t, n)
  /\ home' = IF o = "begin" THEN [home EXCEPT ![t] = n] ELSE home
  /\ open' = IF o = "begin" THEN open \union {t}
             ELSE IF o \in {"commit", "rollback"} THEN open \ {t} ELSE open
  /\ work' = IF o = "write" THEN [work EXCEPT ![t] = @ + 1] ELSE work
  /\ stored' = IF o = "commit" THEN stored \union {t} ELSE stored
  /\ ran' = IF o = "command" THEN [ran EXCEPT ![r] = @ + 1] ELSE ran

\* begin is answered: the transaction is pinned, and the statement that opened it follows.
BeginAnswered(r) == \E t \in Tx :
  /\ pc[r] = "posting" /\ op[r] = "begin" /\ node[Target(r)] = "up"
  /\ Runs("begin", r, t, Target(r))
  /\ preferred' = Target(r)
  /\ pinned' = [pinned EXCEPT ![t] = Target(r)]
  /\ cur' = [cur EXCEPT ![r] = t]
  /\ op' = [op EXCEPT ![r] = "write"]
  /\ sid' = [sid EXCEPT ![r] = t]
  /\ left' = [left EXCEPT ![r] = <<Target(r)>>]
  /\ UNCHANGED <<node, flight, pc, after, history, faults>>

Answered(r) ==
  /\ pc[r] = "posting" /\ op[r] # "begin" /\ node[Target(r)] = "up"
  /\ Runs(op[r], r, sid[r], Target(r))
  /\ preferred' = IF sid[r] = NoTx THEN Target(r) ELSE preferred
  /\ Unpin(r)
  /\ Returns(r, after[r])
  /\ told' = IF op[r] = "commit" THEN [told EXCEPT ![sid[r]] = "ok"] ELSE told
  /\ UNCHANGED <<node, flight, cur, cut, loose, refused, asked, faults>>

\* The node certainly did not run it: another one is tried, outside a transaction.
TriesNext(r) ==
  /\ pc[r] = "posting" /\ sid[r] = NoTx /\ Len(left[r]) > 1
  /\ node[Target(r)] # "up"
  /\ left' = [left EXCEPT ![r] = Tail(@)]
  /\ UNCHANGED <<node, server, flight, preferred, pinned, pc, op, sid, after, cur, history, faults>>

\* A failed write is reported and the transaction goes on.
RaisesKeeping(r, unreachable) ==
  /\ pc' = [pc EXCEPT ![r] = IF op[r] = "rollback" THEN after[r] ELSE "ready"]
  /\ told' = IF op[r] \in {"write", "commit"} THEN [told EXCEPT ![sid[r]] = "failed"] ELSE told
  /\ loose' = IF op[r] \in {"commit", "rollback"} THEN loose \union {sid[r]} ELSE loose
  /\ UNCHANGED <<op, sid, left, after, cur, preferred, pinned>>

\* ArcadeDBError.  A failed write rolls its transaction back before it is raised; whether a
\* transaction whose commit failed is still open is the node's affair.
Raises(r, unreachable) ==
  LET t == sid[r]
      forgets == unreachable /\ t # NoTx
  IN  /\ IF op[r] = "write"
           THEN /\ pc' = pc
                /\ op' = [op EXCEPT ![r] = "rollback"]
                /\ left' = [left EXCEPT ![r] = <<IF forgets \/ pinned[t] \notin Node THEN preferred ELSE pinned[t]>>]
                /\ after' = [after EXCEPT ![r] = "failing"]
                /\ cur' = [cur EXCEPT ![r] = NoTx]
                /\ sid' = sid
           ELSE /\ Returns(r, IF op[r] = "rollback" THEN after[r] ELSE "failing")
                /\ cur' = cur
      /\ told' = IF op[r] \in {"write", "commit"} THEN [told EXCEPT ![t] = "failed"] ELSE told
      /\ pinned' = IF forgets \/ op[r] \in {"commit", "rollback"} THEN [pinned EXCEPT ![t] = NoNode] ELSE pinned
      /\ loose' = IF op[r] \in {"commit", "rollback"} THEN loose \union {t} ELSE loose
      /\ UNCHANGED preferred

Fails(r) ==
  LET n == Target(r) t == sid[r]
  IN  /\ pc[r] = "posting"
      /\ node[n] = "up" \/ t # NoTx \/ Len(left[r]) = 1
      /\ Raises(r, node[n] = "down")
      /\ refused' = IF node[n] = "up" /\ t # NoTx /\ ~Known(t, n) THEN refused \union {t} ELSE refused
      /\ open' \in IF op[r] = "commit" /\ node[n] = "up" THEN {open, open \ {t}} ELSE {open}
      /\ UNCHANGED <<node, home, work, stored, ran, flight, cut, asked, faults>>

\* A call nobody answered is tried on the next node.
GivesUpRetrying(r) ==
  /\ pc[r] = "posting" /\ faults < MaxFaults /\ node[Target(r)] # "down"
  /\ sid[r] = NoTx /\ Len(left[r]) > 1
  /\ faults' = faults + 1
  /\ flight' = flight \union {[op |-> op[r], req |-> r, tx |-> sid[r], node |-> Target(r)]}
  /\ left' = [left EXCEPT ![r] = Tail(@)]
  /\ UNCHANGED <<node, server, preferred, pinned, pc, op, sid, after, cur, history>>

\* A timeout or a dropped connection: an httpx error, not an ArcadeDBError.  Nothing is tried
\* again, the transaction is left to the session's close, and the node may yet run the call.
GivesUp(r) ==
  LET o == op[r] t == sid[r]
  IN  /\ pc[r] = "posting" /\ faults < MaxFaults /\ node[Target(r)] # "down"
      /\ faults' = faults + 1
      /\ flight' = flight \union {[op |-> o, req |-> r, tx |-> t, node |-> Target(r)]}
      /\ Returns(r, IF o = "rollback" THEN after[r] ELSE "failing")
      /\ told' = IF o = "commit" THEN [told EXCEPT ![t] = "unsure"] ELSE told
      /\ Unpin(r)
      /\ loose' = IF o \in {"commit", "rollback"} THEN loose \union {t} ELSE loose
      /\ UNCHANGED <<node, server, preferred, cur, cut, refused, asked>>

-----------------------------------------------------------------------------
(* The cluster.                                                            *)

RunsLate(m) == \E t \in IF m.op = "begin" THEN Tx ELSE {m.tx} :
  /\ m \in flight /\ node[m.node] = "up"
  /\ flight' = flight \ {m}
  /\ Runs(m.op, m.req, t, m.node)
  /\ loose' = IF m.op = "begin" THEN loose \union {t} ELSE loose
  /\ UNCHANGED <<node, client, told, cut, refused, asked, faults>>

\* A node is cut off, restarts (its transactions and calls are gone), or an election begins or ends.
NodeChanges(n) == \E s \in {"up", "electing", "down"} \ {node[n]}, restarts \in BOOLEAN :
  /\ faults < MaxFaults /\ faults' = faults + 1
  /\ node' = [node EXCEPT ![n] = s]
  /\ cut' = IF s = "down" THEN cut \union {t \in Tx : home[t] = n} ELSE cut
  /\ restarts => s = "down"
  /\ open' = IF restarts THEN {t \in open : home[t] # n} ELSE open
  /\ flight' = IF restarts THEN {m \in flight : m.node # n} ELSE flight
  /\ UNCHANGED <<home, work, stored, ran, client, told, loose, refused, asked>>

Acts(r) ==
  \/ Query(r) \/ Execute(r) \/ Command(r) \/ Commit(r) \/ Leave(r)
  \/ BeginAnswered(r) \/ Answered(r) \/ TriesNext(r) \/ Fails(r) \/ GivesUp(r)

Next ==
  \/ \E r \in Request : Acts(r)
  \/ \E m \in flight : RunsLate(m)
  \/ \E n \in Node : NodeChanges(n)

Spec == Init /\ [][Next]_vars

-----------------------------------------------------------------------------
(* Properties.                                                             *)

Message == [op : Op, req : Request, tx : Tx \union {NoTx}, node : Node]

\* Every variable has its declared type; a posted call has a node left to try and an open
\* transaction has a home.
TypeOK ==
  /\ node \in [Node -> {"up", "electing", "down"}]
  /\ home \in [Tx -> Node \union {NoNode}]
  /\ open \subseteq {t \in Tx : home[t] \in Node}
  /\ work \in [Tx -> Nat] /\ stored \subseteq Tx /\ ran \in [Request -> Nat]
  /\ flight \subseteq Message
  /\ preferred \in Node /\ pinned \in [Tx -> Node \union {NoNode}]
  /\ pc \in [Request -> {"ready", "posting", "failing", "closed"}]
  /\ op \in [Request -> Op]
  /\ sid \in [Request -> Tx \union {NoTx}]
  /\ left \in [Request -> Seq(Node)]
  /\ \A r \in Request : pc[r] = "posting" => Len(left[r]) > 0
  /\ after \in [Request -> {"ready", "failing", "closed"}]
  /\ cur \in [Request -> Tx \union {NoTx}]
  /\ told \in [Tx -> {"none", "ok", "failed", "unsure"}]
  /\ cut \subseteq Tx /\ loose \subseteq Tx /\ refused \subseteq Tx /\ asked \subseteq Request
  /\ faults \in Nat

\* A statement outside a transaction runs once at most, on whatever nodes it is tried: what
\* _post may retry never ran, and what may have run it does not retry (lines 27-30, 107-116).
RunsOnce == \A r \in Request : ran[r] <= 1

\* A reachable node refuses a transaction only after that transaction's node was unreachable or
\* restarted: other requests moving self._preferred never take a transaction along (line 94).
OnlyLostNodesRefuse == refused \subseteq cut

\* A transaction that no session holds any more has been ended, unless its node was unreachable
\* or its begin or end went unanswered: failed writes and closed sessions roll back (251-275).
NothingLeftOpen ==
  \A t \in open \ (cut \union loose) :
    \E r \in Request : cur[r] = t \/ (pc[r] = "posting" /\ sid[r] = t)

\* The promise of a unit of work.
Units == INSTANCE Transactions
Promise == Units!Spec

=============================================================================
