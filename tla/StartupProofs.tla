---------------------------- MODULE StartupProofs ----------------------------
(***************************************************************************)
(* Proofs about Startup: for any number of accounts, processes that        *)
(* prepare the database, embedding models and cut-short starts, what a     *)
(* process finds when it comes up, and that the roles given later stay.    *)
(***************************************************************************)
EXTENDS Startup, Sequences, WellFoundedInduction, TLAPS

Recorded == [dims : Nat, provider : Embedder]
Keys == {Unset} \union {<<Names[u]>> : u \in Account} \union {Suffixed(u) : u \in Account}
Later == {"names", "keys", "unique", "activity", "roles", "demote"}
StartSteps == {"down", "up"} \union Preparing \union Later

StartupTypeOK ==
  /\ index \in Nat /\ recorded \in Recorded \union {Unset}
  /\ role \in [Account -> {"none", "admin", "member"}]
  /\ key \in [Account -> Keys]
  /\ unique \in BOOLEAN /\ torn \in BOOLEAN
  /\ at \in [Starter -> StartSteps] /\ DOMAIN read = Starter
  /\ runs \in [Starter -> Embedder] /\ configured \in Embedder
  /\ given \in [Account -> {Unset, "admin", "member"}]

\* Only what the roles migration can no longer touch is a role an admin gave.
GivenInv ==
  \A u \in Account : given[u] # Unset => "rbac_v1" \in meta /\ role[u] = given[u] /\ u \in Made

MadeInv == \A u \in Made : 1..u \subseteq Made

\* The model changes only between starts, and one start at a time prepares the schema.
RunsInv ==
  /\ \A s \in Starter : at[s] \notin {"up", "down"} => runs[s] = configured
  /\ \A s, t \in Starter : at[s] \in Preparing /\ at[t] \in Preparing => s = t

\* An index whose size is not the recorded one is being recorded, or a start was cut short there.
RecordedInv == Unrecorded => torn \/ \E s \in Starter : at[s] = "record"

IndexInv(s) ==
  LET fits == torn \/ index = Dims[configured]
  IN /\ at[s] = "drop" => torn \/ index # Dims[configured]
     /\ at[s] = "clear" => index = 0
     /\ at[s] = "create" => index = 0 \/ fits
     /\ at[s] \in {"record"} \union Later => fits

\* The key the migration gives an account, whichever accounts it has read.
Canonical(u) == KeyOf(u, Account)

\* A suffixed key is one of the migration's, which gave an older account the plain one for good.
KeyInv ==
  /\ \A u \in Account : key[u] \in {Unset, <<Names[u]>>, Suffixed(u)}
  /\ \A u \in Account : key[u] = Suffixed(u) =>
       \E v \in 1..(u - 1) : Names[v] = Names[u] /\ key[v] = <<Names[v]>> /\ Canonical(v) = <<Names[v]>>
  /\ unique => Distinct(key)

Keyed(us) == \A u \in us : key[u] # Unset

ProviderInv(s) == at[s] \in {"create", "record"} => read[s] \subseteq Embedder

\* What a migration has read, against the accounts there are by now.
AccountInv(s) ==
  /\ at[s] = "keys" =>
       /\ read[s] \subseteq Made /\ \A u \in read[s] : 1..u \subseteq read[s]
       /\ Keyed(Made \ read[s])
  /\ at[s] \in {"unique", "activity", "roles", "demote"} => Keyed(Made)
  /\ at[s] \in {"activity", "roles", "demote"} => unique
  /\ at[s] = "demote" => \A p \in read[s] : p[1] \in Made

StartupInv ==
  /\ StartupTypeOK /\ GivenInv /\ MadeInv /\ RunsInv /\ RecordedInv /\ KeyInv
  /\ \A s \in Starter : IndexInv(s) /\ ProviderInv(s) /\ AccountInv(s)

-----------------------------------------------------------------------------
(* Facts about the operators.                                              *)

LEMMA Least ==
  ASSUME NEW T \in SUBSET Nat, T # {}
  PROVE  \E m \in T : \A n \in T : m <= n
<1>1. IsWellFoundedOn(OpToRel(<, Nat), Nat)
  BY NatLessThanWellFounded
<1>2. PICK m \in T : \A n \in T : ~(<<n, m>> \in OpToRel(<, Nat))
  BY <1>1, WFMin
<1>3. \A n \in T : n \in Nat /\ ~(n < m)
  BY <1>2 DEF OpToRel
<1>4. \A n \in T : m <= n
  BY <1>3, m \in Nat
<1> QED BY <1>4

LEMMA EarliestIsThere ==
  ASSUME NEW found, found # {}, \A p \in found : p[1] \in Nat
  PROVE  \E p \in found : Earliest(found) = p[1]
<1> DEFINE T == {p[1] : p \in found}
<1>1. T \in SUBSET Nat /\ T # {}
  OBVIOUS
<1>2. PICK m \in T : \A n \in T : m <= n
  BY <1>1, Least
<1>3. Min(T) \in T
  BY <1>2 DEF Min
<1> QED BY <1>3 DEF Earliest

LEMMA KeysDiffer ==
  /\ \A u, v : Suffixed(u) # <<Names[v]>>
  /\ \A u \in Account : Suffixed(u) # Unset /\ <<Names[u]>> # Unset
<1>1. ASSUME NEW u, NEW v PROVE Suffixed(u) # <<Names[v]>>
  <2>1. Len(<<Names[u], u>>) = 2 /\ Len(<<Names[v]>>) = 1
    OBVIOUS
  <2> QED BY <2>1 DEF Suffixed
<1>2. \A u \in Account : Suffixed(u) # Unset /\ <<Names[u]>> # Unset
  BY StartupAssumption DEF Suffixed, Account
<1> QED BY <1>1, <1>2

\* The accounts are made in their order, so every read of them gives an account the same key.
LEMMA KeyOfIsCanonical ==
  ASSUME NEW found \in SUBSET Account, NEW u \in found, 1..u \subseteq found
  PROVE  KeyOf(u, found) = Canonical(u)
<1>1. u \in Nat /\ \A v \in Account : v \in Nat /\ (v < u => v \in 1..u)
  BY StartupAssumption DEF Account
<1>2. (\E v \in found : v < u /\ Names[v] = Names[u]) <=> (\E v \in Account : v < u /\ Names[v] = Names[u])
  BY <1>1
<1> QED BY <1>2 DEF KeyOf, Canonical

LEMMA CanonicalFacts ==
  ASSUME NEW u \in Account
  PROVE  /\ Canonical(u) \in {<<Names[u]>>, Suffixed(u)}
         /\ Canonical(u) = Suffixed(u) =>
              \E v \in 1..(u - 1) : Names[v] = Names[u] /\ Canonical(v) = <<Names[v]>>
<1>1. Canonical(u) \in {<<Names[u]>>, Suffixed(u)}
  BY DEF Canonical, KeyOf
<1>2. ASSUME Canonical(u) = Suffixed(u)
      PROVE  \E v \in 1..(u - 1) : Names[v] = Names[u] /\ Canonical(v) = <<Names[v]>>
  <2> DEFINE T == {v \in Account : v < u /\ Names[v] = Names[u]}
  <2>1. T # {}
    BY <1>2, KeysDiffer DEF Canonical, KeyOf
  <2>2. T \in SUBSET Nat
    BY StartupAssumption DEF Account
  <2>3. PICK v \in T : \A w \in T : v <= w
    BY <2>1, <2>2, Least
  <2>4. ~ \E w \in Account : w < v /\ Names[w] = Names[v]
    <3>1. SUFFICES ASSUME NEW w \in Account, w < v, Names[w] = Names[v] PROVE FALSE
      OBVIOUS
    <3>2. u \in Nat /\ v \in Nat /\ w \in Nat /\ v < u
      BY <2>2, <2>3, StartupAssumption DEF Account
    <3>3. w \in T
      BY <2>3, <3>1, <3>2
    <3>4. v <= w
      BY <2>3, <3>3
    <3> QED BY <3>1, <3>2, <3>4
  <2>5. Canonical(v) = <<Names[v]>>
    BY <2>4 DEF Canonical, KeyOf
  <2>6. v \in 1..(u - 1)
    BY <2>3, StartupAssumption DEF Account
  <2> QED BY <2>3, <2>5, <2>6
<1> QED BY <1>1, <1>2

LEMMA GoesFacts ==
  ASSUME StartupTypeOK, NEW s \in Starter, NEW from, NEW to \in StartSteps, NEW found, Goes(s, from, to, found)
  PROVE  /\ at[s] = from /\ at'[s] = to /\ read'[s] = found
         /\ \A t \in Starter \ {s} : at'[t] = at[t] /\ read'[t] = read[t]
         /\ at' \in [Starter -> StartSteps] /\ DOMAIN read' = Starter
         /\ UNCHANGED <<runs, configured>>
BY DEF Goes, StartupTypeOK

-----------------------------------------------------------------------------
(* The vector index.                                                       *)

\* The half of the invariant that is about the index and the embedding models.
VectorsInv ==
  /\ index \in Nat /\ recorded \in Recorded \union {Unset} /\ torn \in BOOLEAN
  /\ at \in [Starter -> StartSteps] /\ DOMAIN read = Starter
  /\ runs \in [Starter -> Embedder] /\ configured \in Embedder
  /\ RunsInv /\ RecordedInv
  /\ \A s \in Starter : IndexInv(s) /\ ProviderInv(s)

\* The half about the accounts.
AccountsInv ==
  /\ role \in [Account -> {"none", "admin", "member"}]
  /\ key \in [Account -> Keys]
  /\ unique \in BOOLEAN
  /\ given \in [Account -> {Unset, "admin", "member"}]
  /\ GivenInv /\ MadeInv /\ KeyInv
  /\ \A s \in Starter : AccountInv(s)

LEMMA TwoHalves ==
  /\ StartupInv <=> VectorsInv /\ AccountsInv
  /\ (VectorsInv /\ AccountsInv)' => StartupInv'
BY DEF StartupInv, StartupTypeOK, VectorsInv, AccountsInv

LEMMA DimsFacts == \A e \in Embedder : Dims[e] \in Nat /\ Dims[e] # 0
BY StartupAssumption

LEMMA RecordedFacts == \A r \in Recorded : r # Unset /\ r.dims \in Nat /\ r.provider \in Embedder
<1>1. Unset \notin Recorded
  BY StartupAssumption DEF Recorded
<1> QED BY <1>1 DEF Recorded

LEMMA EnsureDatabaseVectors ==
  ASSUME VectorsInv, NEW s \in Starter, EnsureDatabase(s)
  PROVE  VectorsInv'
<1>1. /\ \A t \in Starter : at[t] \notin Preparing
      /\ at' = [at EXCEPT ![s] = "schema"] /\ runs' = [runs EXCEPT ![s] = configured]
      /\ UNCHANGED <<read, configured, index, recorded, torn>>
  BY DEF EnsureDatabase, vecs
<1>2. /\ at'[s] = "schema" /\ runs'[s] = configured
      /\ \A t \in Starter \ {s} : at'[t] = at[t] /\ runs'[t] = runs[t]
  BY <1>1 DEF VectorsInv
<1>3. at' \in [Starter -> StartSteps] /\ runs' \in [Starter -> Embedder]
  BY <1>1 DEF VectorsInv, StartSteps, Preparing
<1>4. RunsInv'
  BY <1>1, <1>2 DEF VectorsInv, RunsInv
<1>5. RecordedInv'
  BY <1>1 DEF VectorsInv, RecordedInv, Unrecorded, Preparing
<1>6. ASSUME NEW t \in Starter PROVE IndexInv(t)' /\ ProviderInv(t)'
  BY <1>1, <1>2 DEF VectorsInv, IndexInv, ProviderInv, Later
<1> QED BY <1>1, <1>3, <1>4, <1>5, <1>6 DEF VectorsInv

\* A step of one start keeps who prepares the schema, and with which model.
LEMMA RunsKept ==
  ASSUME VectorsInv, NEW s \in Starter, at[s] # "down",
         at'[s] = at[s] \/ at[s] \in Preparing \/ at'[s] \notin Preparing,
         at[s] = "up" => at'[s] \in {"up", "down"},
         \A t \in Starter \ {s} : at'[t] = at[t],
         UNCHANGED <<runs, configured>>
  PROVE  RunsInv'
BY DEF VectorsInv, RunsInv, Preparing

LEMMA ReadEmbeddingsVectors ==
  ASSUME VectorsInv, StartupTypeOK, NEW s \in Starter, ReadEmbeddings(s)
  PROVE  VectorsInv'
<1>0. PICK to \in {"drop", "create"} : to = IF Mismatch(s) THEN "drop" ELSE "create"
  OBVIOUS
<1>1. PICK found :
        /\ found = (IF recorded = Unset \/ Mismatch(s) THEN {} ELSE {recorded.provider})
        /\ Goes(s, "schema", to, found)
  BY <1>0 DEF ReadEmbeddings
<1>2. UNCHANGED <<index, recorded, torn>>
  BY DEF ReadEmbeddings, vecs
<1>3. /\ at[s] = "schema" /\ at'[s] = to /\ read'[s] = found
      /\ \A t \in Starter \ {s} : at'[t] = at[t] /\ read'[t] = read[t]
      /\ at' \in [Starter -> StartSteps] /\ DOMAIN read' = Starter
      /\ UNCHANGED <<runs, configured>>
  <2>1. to \in StartSteps
    BY <1>1 DEF StartSteps, Preparing
  <2> QED BY <1>1, <2>1, GoesFacts
<1>4. runs[s] = configured /\ \A t \in Starter \ {s} : at[t] \notin Preparing
  BY <1>3 DEF VectorsInv, RunsInv, Preparing
<1>5. Unrecorded => torn
  BY <1>3, <1>4 DEF VectorsInv, RecordedInv, Preparing
<1>6. RunsInv'
  BY <1>3, RunsKept DEF Preparing
<1>7. RecordedInv'
  BY <1>2, <1>5 DEF RecordedInv, Unrecorded
<1>8. IndexInv(s)'
  <2>1. Dims[configured] \in Nat /\ Dims[configured] # 0
    BY DimsFacts DEF VectorsInv
  <2>2. to = "drop" => torn \/ index # Dims[configured]
    BY <1>0, <1>4, <1>5, <2>1 DEF Mismatch, Unrecorded
  <2>3. to = "create" => torn \/ index = 0 \/ index = Dims[configured]
    BY <1>0, <1>4, <1>5 DEF Mismatch, Unrecorded
  <2> QED BY <1>1, <1>2, <1>3, <2>2, <2>3 DEF IndexInv, Later
<1>9. ProviderInv(s)'
  <2>1. recorded # Unset => recorded.provider \in Embedder
    BY RecordedFacts DEF VectorsInv
  <2> QED BY <1>1, <1>3, <2>1 DEF ProviderInv
<1>10. ASSUME NEW t \in Starter \ {s} PROVE IndexInv(t)' /\ ProviderInv(t)'
  BY <1>2, <1>3 DEF VectorsInv, IndexInv, ProviderInv
<1> QED BY <1>2, <1>3, <1>6, <1>7, <1>8, <1>9, <1>10 DEF VectorsInv

LEMMA DropIndexVectors ==
  ASSUME VectorsInv, StartupTypeOK, NEW s \in Starter, DropIndex(s)
  PROVE  VectorsInv'
<1>1. index' = 0 /\ UNCHANGED <<recorded, torn>> /\ Goes(s, "drop", "clear", {})
  BY DEF DropIndex
<1>2. /\ at[s] = "drop" /\ at'[s] = "clear" /\ read'[s] = {}
      /\ \A t \in Starter \ {s} : at'[t] = at[t] /\ read'[t] = read[t]
      /\ at' \in [Starter -> StartSteps] /\ DOMAIN read' = Starter
      /\ UNCHANGED <<runs, configured>>
  <2>1. "clear" \in StartSteps
    BY DEF StartSteps, Preparing
  <2> QED BY <1>1, <2>1, GoesFacts
<1>3. RunsInv'
  BY <1>2, RunsKept DEF Preparing
<1>4. RecordedInv'
  BY <1>1 DEF RecordedInv, Unrecorded
<1>5. torn \/ index # Dims[configured]
  BY <1>2 DEF VectorsInv, IndexInv
<1>6. \A t \in Starter \ {s} : at[t] \notin Preparing
  BY <1>2 DEF VectorsInv, RunsInv, Preparing
<1>7. IndexInv(s)' /\ ProviderInv(s)'
  BY <1>1, <1>2 DEF IndexInv, ProviderInv, Later
<1>8. ASSUME NEW t \in Starter \ {s} PROVE IndexInv(t)' /\ ProviderInv(t)'
  BY <1>1, <1>2, <1>5, <1>6 DEF VectorsInv, IndexInv, ProviderInv, Preparing, Later
<1> QED BY <1>1, <1>2, <1>3, <1>4, <1>7, <1>8 DEF VectorsInv

LEMMA ClearVectorsVectors ==
  ASSUME VectorsInv, StartupTypeOK, NEW s \in Starter, ClearVectors(s)
  PROVE  VectorsInv'
<1>1. UNCHANGED <<index, recorded, torn>> /\ Goes(s, "clear", "create", {})
  BY DEF ClearVectors
<1>2. /\ at[s] = "clear" /\ at'[s] = "create" /\ read'[s] = {}
      /\ \A t \in Starter \ {s} : at'[t] = at[t] /\ read'[t] = read[t]
      /\ at' \in [Starter -> StartSteps] /\ DOMAIN read' = Starter
      /\ UNCHANGED <<runs, configured>>
  <2>1. "create" \in StartSteps
    BY DEF StartSteps, Preparing
  <2> QED BY <1>1, <2>1, GoesFacts
<1>3. RunsInv'
  BY <1>2, RunsKept DEF Preparing
<1>4. RecordedInv'
  BY <1>1, <1>2 DEF VectorsInv, RecordedInv, Unrecorded, IndexInv
<1>5. IndexInv(s)' /\ ProviderInv(s)'
  BY <1>1, <1>2 DEF VectorsInv, IndexInv, ProviderInv, Later
<1>6. ASSUME NEW t \in Starter \ {s} PROVE IndexInv(t)' /\ ProviderInv(t)'
  BY <1>1, <1>2 DEF VectorsInv, IndexInv, ProviderInv
<1> QED BY <1>1, <1>2, <1>3, <1>4, <1>5, <1>6 DEF VectorsInv

LEMMA CreateIndexVectors ==
  ASSUME VectorsInv, StartupTypeOK, NEW s \in Starter, CreateIndex(s)
  PROVE  VectorsInv'
<1>1. /\ index' = (IF index = 0 THEN Dims[runs[s]] ELSE index)
      /\ UNCHANGED <<recorded, torn>> /\ Goes(s, "create", "record", read[s])
  BY DEF CreateIndex
<1>2. /\ at[s] = "create" /\ at'[s] = "record" /\ read'[s] = read[s]
      /\ \A t \in Starter \ {s} : at'[t] = at[t] /\ read'[t] = read[t]
      /\ at' \in [Starter -> StartSteps] /\ DOMAIN read' = Starter
      /\ UNCHANGED <<runs, configured>>
  <2>1. "record" \in StartSteps
    BY DEF StartSteps, Preparing
  <2> QED BY <1>1, <2>1, GoesFacts
<1>3. runs[s] = configured /\ Dims[configured] \in Nat /\ \A t \in Starter \ {s} : at[t] \notin Preparing
  BY <1>2, DimsFacts DEF VectorsInv, RunsInv, Preparing
<1>4. RunsInv'
  BY <1>2, RunsKept DEF Preparing
<1>5. RecordedInv'
  BY <1>2 DEF RecordedInv
<1>6. IndexInv(s)' /\ ProviderInv(s)'
  BY <1>1, <1>2, <1>3 DEF VectorsInv, IndexInv, ProviderInv, Later
<1>7. ASSUME NEW t \in Starter \ {s} PROVE IndexInv(t)' /\ ProviderInv(t)'
  BY <1>1, <1>2, <1>3 DEF VectorsInv, IndexInv, ProviderInv, Preparing, Later
<1>8. index' \in Nat
  BY <1>1, <1>3 DEF VectorsInv
<1> QED BY <1>1, <1>2, <1>4, <1>5, <1>6, <1>7, <1>8 DEF VectorsInv

LEMMA RecordVectors ==
  ASSUME VectorsInv, StartupTypeOK, NEW s \in Starter, Record(s)
  PROVE  VectorsInv'
<1>1. /\ recorded' = Records(s) /\ torn' = (torn /\ index # Dims[runs[s]])
      /\ UNCHANGED index /\ Goes(s, "record", "names", {})
  BY DEF Record
<1>2. /\ at[s] = "record" /\ at'[s] = "names" /\ read'[s] = {}
      /\ \A t \in Starter \ {s} : at'[t] = at[t] /\ read'[t] = read[t]
      /\ at' \in [Starter -> StartSteps] /\ DOMAIN read' = Starter
      /\ UNCHANGED <<runs, configured>>
  <2>1. "names" \in StartSteps
    BY DEF StartSteps, Later
  <2> QED BY <1>1, <2>1, GoesFacts
<1>3. runs[s] = configured /\ Dims[configured] \in Nat /\ \A t \in Starter \ {s} : at[t] \notin Preparing
  BY <1>2, DimsFacts DEF VectorsInv, RunsInv, Preparing
<1>4. torn \/ index = Dims[configured]
  BY <1>2 DEF VectorsInv, IndexInv
<1>5. recorded' \in Recorded /\ recorded'.dims = Dims[configured]
  <2>1. read[s] \subseteq Embedder
    BY <1>2 DEF VectorsInv, ProviderInv
  <2>2. PICK p : p = (IF read[s] = {} THEN runs[s] ELSE CHOOSE q \in read[s] : TRUE)
    OBVIOUS
  <2>3. p \in Embedder
    BY <2>1, <2>2 DEF VectorsInv
  <2>4. recorded' = [dims |-> Dims[configured], provider |-> p]
    BY <1>1, <1>3, <2>2 DEF Records
  <2> QED BY <1>3, <2>3, <2>4 DEF Recorded
<1>6. RunsInv'
  BY <1>2, RunsKept DEF Preparing
<1>7. RecordedInv'
  BY <1>1, <1>3, <1>4, <1>5, RecordedFacts DEF RecordedInv, Unrecorded
<1>8. torn' \/ index = Dims[configured]
  BY <1>1, <1>3, <1>4
<1>9. IndexInv(s)' /\ ProviderInv(s)'
  BY <1>1, <1>2, <1>8 DEF IndexInv, ProviderInv
<1>10. ASSUME NEW t \in Starter \ {s} PROVE IndexInv(t)' /\ ProviderInv(t)'
  BY <1>1, <1>2, <1>3, <1>8 DEF IndexInv, ProviderInv, Preparing
<1>11. torn' \in BOOLEAN
  BY <1>1
<1> QED BY <1>1, <1>2, <1>5, <1>6, <1>7, <1>9, <1>10, <1>11 DEF VectorsInv

\* The migrations, and a stop, leave the index alone.
LEMMA MigrationVectors ==
  ASSUME VectorsInv, StartupTypeOK, NEW s \in Starter, NEW from \in Later \union {"up"},
         NEW to \in Later \union {"up", "down"}, NEW found,
         Goes(s, from, to, found), from = "up" => to = "down", UNCHANGED <<index, recorded, torn>>
  PROVE  VectorsInv'
<1>1. /\ at[s] = from /\ at'[s] = to /\ read'[s] = found
      /\ \A t \in Starter \ {s} : at'[t] = at[t] /\ read'[t] = read[t]
      /\ at' \in [Starter -> StartSteps] /\ DOMAIN read' = Starter
      /\ UNCHANGED <<runs, configured>>
  <2>1. to \in StartSteps
    BY DEF StartSteps
  <2> QED BY <2>1, GoesFacts
<1>2. RunsInv'
  BY <1>1, RunsKept DEF Preparing, Later
<1>3. RecordedInv'
  BY <1>1 DEF VectorsInv, RecordedInv, Unrecorded, Later
<1>4. IndexInv(s)' /\ ProviderInv(s)'
  BY <1>1 DEF VectorsInv, IndexInv, ProviderInv, Later
<1>5. ASSUME NEW t \in Starter \ {s} PROVE IndexInv(t)' /\ ProviderInv(t)'
  BY <1>1 DEF VectorsInv, IndexInv, ProviderInv
<1> QED BY <1>1, <1>2, <1>3, <1>4, <1>5 DEF VectorsInv

LEMMA CutVectors ==
  ASSUME VectorsInv, NEW s \in Starter, Cut(s)
  PROVE  VectorsInv'
<1>1. /\ at[s] \notin {"down", "up"} /\ at' = [at EXCEPT ![s] = "down"] /\ read' = [read EXCEPT ![s] = {}]
      /\ torn' = (torn \/ Unrecorded) /\ UNCHANGED <<index, recorded, runs, configured>>
  BY DEF Cut, store
<1>2. /\ at'[s] = "down" /\ \A t \in Starter \ {s} : at'[t] = at[t] /\ read'[t] = read[t]
      /\ at' \in [Starter -> StartSteps] /\ DOMAIN read' = Starter
  BY <1>1 DEF VectorsInv, StartSteps
<1>3. RunsInv'
  BY <1>1, <1>2, RunsKept DEF Preparing
<1>4. RecordedInv'
  BY <1>1 DEF RecordedInv, Unrecorded
<1>5. ASSUME NEW t \in Starter PROVE IndexInv(t)' /\ ProviderInv(t)'
  BY <1>1, <1>2 DEF VectorsInv, IndexInv, ProviderInv, Later
<1>6. torn' \in BOOLEAN
  BY <1>1
<1> QED BY <1>1, <1>2, <1>3, <1>4, <1>5, <1>6 DEF VectorsInv

LEMMA ConfigureVectors ==
  ASSUME VectorsInv, NEW e \in Embedder, Configure(e)
  PROVE  VectorsInv'
<1>1. /\ \A s \in Starter : at[s] \in {"up", "down"}
      /\ configured' = e /\ UNCHANGED <<index, recorded, at, read, runs, torn>>
  BY DEF Configure, store
<1>2. RunsInv' /\ RecordedInv'
  BY <1>1 DEF VectorsInv, RunsInv, RecordedInv, Unrecorded, Preparing
<1>3. ASSUME NEW s \in Starter PROVE IndexInv(s)' /\ ProviderInv(s)'
  BY <1>1 DEF IndexInv, ProviderInv, Later
<1> QED BY <1>1, <1>2, <1>3 DEF VectorsInv

\* Requests record what fits the index, or leave both alone.
LEMMA RequestVectors ==
  ASSUME VectorsInv, UNCHANGED <<at, read, runs, configured, index, torn>>,
         \/ UNCHANGED recorded
         \/ recorded' \in Recorded /\ recorded'.dims = index
  PROVE  VectorsInv'
<1>1. RunsInv' /\ RecordedInv'
  BY RecordedFacts DEF VectorsInv, RunsInv, RecordedInv, Unrecorded
<1>2. ASSUME NEW s \in Starter PROVE IndexInv(s)' /\ ProviderInv(s)'
  BY DEF VectorsInv, IndexInv, ProviderInv
<1> QED BY <1>1, <1>2 DEF VectorsInv

LEMMA ReembedVectors ==
  ASSUME VectorsInv, NEW s \in Starter, Reembed(s)
  PROVE  VectorsInv'
<1>1. /\ index = Dims[runs[s]] /\ recorded' = [dims |-> Dims[runs[s]], provider |-> runs[s]]
      /\ UNCHANGED <<at, read, runs, configured, index, torn>>
  BY DEF Reembed, apart
<1>2. runs[s] \in Embedder /\ Dims[runs[s]] \in Nat
  BY DimsFacts DEF VectorsInv
<1>3. recorded' \in Recorded /\ recorded'.dims = index
  BY <1>1, <1>2 DEF Recorded
<1> QED BY <1>1, <1>3, RequestVectors

-----------------------------------------------------------------------------
(* The accounts.                                                           *)

\* The steps at which a start relies on what it, or the database, knows of the accounts.
Relying == {"keys", "unique", "activity", "roles", "demote"}

LEMMA AccountsKept ==
  ASSUME AccountsInv, UNCHANGED <<role, key, unique, meta, given>>,
         \A t \in Starter : (at'[t] = at[t] /\ read'[t] = read[t]) \/ at'[t] \notin Relying
  PROVE  AccountsInv'
<1>1. Made' = Made
  BY DEF Made
<1>2. GivenInv' /\ MadeInv' /\ KeyInv'
  BY <1>1 DEF AccountsInv, GivenInv, MadeInv, KeyInv, Distinct
<1>3. ASSUME NEW t \in Starter PROVE AccountInv(t)'
  BY <1>1 DEF AccountsInv, AccountInv, Keyed, Relying
<1> QED BY <1>2, <1>3 DEF AccountsInv

LEMMA EnsureDatabaseAccounts ==
  ASSUME StartupInv, NEW s \in Starter, EnsureDatabase(s)
  PROVE  AccountsInv'
<1>1. /\ at' = [at EXCEPT ![s] = "schema"] /\ UNCHANGED <<read, role, key, unique, meta, given>>
  BY DEF EnsureDatabase, accs
<1>2. \A t \in Starter : (at'[t] = at[t] /\ read'[t] = read[t]) \/ at'[t] \notin Relying
  BY <1>1 DEF StartupInv, StartupTypeOK, Relying
<1> QED BY <1>1, <1>2, TwoHalves, AccountsKept

LEMMA GoingAccounts ==
  ASSUME StartupInv, NEW s \in Starter, NEW from, NEW to \in StartSteps \ Relying, NEW found,
         Goes(s, from, to, found), UNCHANGED <<role, key, unique, meta, given>>
  PROVE  AccountsInv'
<1>1. \A t \in Starter : (at'[t] = at[t] /\ read'[t] = read[t]) \/ at'[t] \notin Relying
  BY GoesFacts DEF StartupInv
<1> QED BY <1>1, TwoHalves, AccountsKept

LEMMA SchemaAccounts ==
  ASSUME StartupInv, NEW s \in Starter,
         \/ ReadEmbeddings(s) \/ DropIndex(s) \/ ClearVectors(s) \/ CreateIndex(s) \/ Record(s) \/ Stop(s)
  PROVE  AccountsInv'
<1>1. UNCHANGED <<role, key, unique, meta, given>>
  BY DEF ReadEmbeddings, DropIndex, ClearVectors, CreateIndex, Record, Stop, accs
<1>2. {"drop", "create", "clear", "record", "names", "down"} \subseteq StartSteps \ Relying
  BY DEF StartSteps, Preparing, Later, Relying
<1>3. \E from : \E to \in StartSteps \ Relying : \E found : Goes(s, from, to, found)
  BY <1>2 DEF ReadEmbeddings, DropIndex, ClearVectors, CreateIndex, Record, Stop
<1> QED BY <1>1, <1>3, GoingAccounts

LEMMA CutAccounts ==
  ASSUME StartupInv, NEW s \in Starter, Cut(s)
  PROVE  AccountsInv'
<1>1. /\ at' = [at EXCEPT ![s] = "down"] /\ read' = [read EXCEPT ![s] = {}]
      /\ UNCHANGED <<role, key, unique, meta, given>>
  BY DEF Cut, store
<1>2. \A t \in Starter : (at'[t] = at[t] /\ read'[t] = read[t]) \/ at'[t] \notin Relying
  BY <1>1 DEF StartupInv, StartupTypeOK, Relying
<1> QED BY <1>1, <1>2, TwoHalves, AccountsKept

LEMMA ReadNamesAccounts ==
  ASSUME StartupInv, NEW s \in Starter, ReadNames(s)
  PROVE  AccountsInv'
<1>1. Goes(s, "names", "keys", Made) /\ UNCHANGED <<role, key, unique, meta, given>>
  BY DEF ReadNames, accs
<1>2. /\ at'[s] = "keys" /\ read'[s] = Made
      /\ \A t \in Starter \ {s} : at'[t] = at[t] /\ read'[t] = read[t]
  <2>1. "keys" \in StartSteps
    BY DEF StartSteps, Later
  <2> QED BY <1>1, <2>1, GoesFacts DEF StartupInv
<1>3. Made' = Made
  BY <1>1 DEF Made
<1>4. AccountsInv
  BY TwoHalves
<1>5. GivenInv' /\ MadeInv' /\ KeyInv'
  BY <1>1, <1>3, <1>4 DEF AccountsInv, GivenInv, MadeInv, KeyInv, Distinct
<1>6. AccountInv(s)'
  BY <1>2, <1>3, <1>4 DEF AccountsInv, AccountInv, MadeInv, Keyed
<1>7. ASSUME NEW t \in Starter \ {s} PROVE AccountInv(t)'
  BY <1>1, <1>2, <1>3, <1>4 DEF AccountsInv, AccountInv, Keyed
<1> QED BY <1>1, <1>4, <1>5, <1>6, <1>7 DEF AccountsInv

LEMMA StoreKeysAccounts ==
  ASSUME StartupInv, NEW s \in Starter, StoreKeys(s)
  PROVE  AccountsInv'
<1>1. /\ key' = [u \in Account |-> IF u \in read[s] THEN KeyOf(u, read[s]) ELSE key[u]]
      /\ Goes(s, "keys", "unique", {}) /\ UNCHANGED <<role, unique, meta, given>>
  BY DEF StoreKeys
<1>2. /\ at[s] = "keys" /\ at'[s] = "unique"
      /\ \A t \in Starter \ {s} : at'[t] = at[t] /\ read'[t] = read[t]
  <2>1. "unique" \in StartSteps
    BY DEF StartSteps, Later
  <2> QED BY <1>1, <2>1, GoesFacts DEF StartupInv
<1>3. Made' = Made
  BY <1>1 DEF Made
<1>4. AccountsInv
  BY TwoHalves
<1>5. /\ read[s] \subseteq Made /\ \A u \in read[s] : 1..u \subseteq read[s]
      /\ Keyed(Made \ read[s])
  BY <1>2, <1>4 DEF AccountsInv, AccountInv
<1>6. \A u \in Account : key'[u] = IF u \in read[s] THEN Canonical(u) ELSE key[u]
  <2>1. read[s] \in SUBSET Account
    BY <1>5 DEF Made
  <2> QED BY <1>1, <1>5, <2>1, KeyOfIsCanonical
<1>7. key' \in [Account -> Keys]
  <2>1. \A u \in Account : key'[u] \in Keys
    BY <1>4, <1>6, CanonicalFacts DEF AccountsInv, Keys
  <2> QED BY <1>1, <2>1
<1>8. KeyInv'
  <2>1. \A u \in Account : key'[u] \in {Unset, <<Names[u]>>, Suffixed(u)}
    BY <1>4, <1>6, CanonicalFacts DEF AccountsInv, KeyInv
  <2>2. ASSUME NEW u \in Account, key'[u] = Suffixed(u)
        PROVE  \E v \in 1..(u - 1) : Names[v] = Names[u] /\ key'[v] = <<Names[v]>> /\ Canonical(v) = <<Names[v]>>
    <3>1. \A v \in 1..(u - 1) : v \in Account /\ v \in 1..u
      BY StartupAssumption DEF Account
    <3>2. CASE u \in read[s]
      <4>1. Canonical(u) = Suffixed(u)
        BY <1>6, <2>2, <3>2
      <4>2. PICK v \in 1..(u - 1) : Names[v] = Names[u] /\ Canonical(v) = <<Names[v]>>
        BY <4>1, CanonicalFacts
      <4>3. v \in read[s] /\ v \in Account
        BY <1>5, <3>1, <3>2
      <4>4. key'[v] = <<Names[v]>>
        BY <1>6, <4>2, <4>3
      <4> QED BY <4>2, <4>4
    <3>3. CASE u \notin read[s]
      <4>1. key[u] = Suffixed(u)
        BY <1>6, <2>2, <3>3
      <4>2. PICK v \in 1..(u - 1) : Names[v] = Names[u] /\ key[v] = <<Names[v]>> /\ Canonical(v) = <<Names[v]>>
        BY <1>4, <4>1 DEF AccountsInv, KeyInv
      <4>3. key'[v] = <<Names[v]>>
        BY <1>6, <3>1, <4>2
      <4> QED BY <4>2, <4>3
    <3> QED BY <3>2, <3>3
  <2>3. unique' => Distinct(key)'
    BY <1>1, <1>3 DEF StoreKeys, Distinct
  <2>4. \A u \in Account : Canonical(u)' = Canonical(u) /\ Suffixed(u)' = Suffixed(u)
    BY DEF Canonical, KeyOf, Suffixed, Account
  <2> QED BY <2>1, <2>2, <2>3 DEF KeyInv
<1>9. GivenInv' /\ MadeInv'
  BY <1>1, <1>3, <1>4 DEF AccountsInv, GivenInv, MadeInv
<1>10. \A u \in Made : key'[u] # Unset
  <2>1. \A u \in Made : u \in Account /\ Canonical(u) # Unset
    BY CanonicalFacts, KeysDiffer DEF Made
  <2> QED BY <1>5, <1>6, <2>1 DEF Keyed
<1>11. AccountInv(s)'
  BY <1>2, <1>3, <1>10 DEF AccountInv, Keyed
<1>12. ASSUME NEW t \in Starter \ {s} PROVE AccountInv(t)'
  BY <1>1, <1>2, <1>3, <1>4, <1>10 DEF AccountsInv, AccountInv, Keyed
<1> QED BY <1>1, <1>4, <1>7, <1>8, <1>9, <1>11, <1>12 DEF AccountsInv

LEMMA MakeUniqueAccounts ==
  ASSUME StartupInv, NEW s \in Starter, MakeUnique(s)
  PROVE  AccountsInv'
<1>1. /\ Distinct(key) /\ unique' = TRUE
      /\ Goes(s, "unique", "activity", {}) /\ UNCHANGED <<role, key, meta, given>>
  BY DEF MakeUnique
<1>2. /\ at[s] = "unique" /\ at'[s] = "activity"
      /\ \A t \in Starter \ {s} : at'[t] = at[t] /\ read'[t] = read[t]
  <2>1. "activity" \in StartSteps
    BY DEF StartSteps, Later
  <2> QED BY <1>1, <2>1, GoesFacts DEF StartupInv
<1>3. Made' = Made
  BY <1>1 DEF Made
<1>4. AccountsInv
  BY TwoHalves
<1>5. GivenInv' /\ MadeInv' /\ KeyInv'
  BY <1>1, <1>3, <1>4 DEF AccountsInv, GivenInv, MadeInv, KeyInv, Distinct
<1>6. AccountInv(s)'
  BY <1>1, <1>2, <1>3, <1>4 DEF AccountsInv, AccountInv, Keyed
<1>7. ASSUME NEW t \in Starter \ {s} PROVE AccountInv(t)'
  BY <1>1, <1>2, <1>3, <1>4 DEF AccountsInv, AccountInv, Keyed
<1> QED BY <1>1, <1>4, <1>5, <1>6, <1>7 DEF AccountsInv

LEMMA TrackActivityAccounts ==
  ASSUME StartupInv, NEW s \in Starter, TrackActivity(s)
  PROVE  AccountsInv'
<1>1. Goes(s, "activity", "roles", {}) /\ UNCHANGED <<role, key, unique, given>> /\ meta \subseteq meta'
  BY DEF TrackActivity
<1>2. /\ at[s] = "activity" /\ at'[s] = "roles"
      /\ \A t \in Starter \ {s} : at'[t] = at[t] /\ read'[t] = read[t]
  <2>1. "roles" \in StartSteps
    BY DEF StartSteps, Later
  <2> QED BY <1>1, <2>1, GoesFacts DEF StartupInv
<1>3. Made' = Made
  BY <1>1 DEF Made
<1>4. AccountsInv
  BY TwoHalves
<1>5. GivenInv' /\ MadeInv' /\ KeyInv'
  BY <1>1, <1>3, <1>4 DEF AccountsInv, GivenInv, MadeInv, KeyInv, Distinct
<1>6. AccountInv(s)'
  BY <1>1, <1>2, <1>3, <1>4 DEF AccountsInv, AccountInv, Keyed
<1>7. ASSUME NEW t \in Starter \ {s} PROVE AccountInv(t)'
  BY <1>1, <1>2, <1>3, <1>4 DEF AccountsInv, AccountInv, Keyed
<1> QED BY <1>1, <1>4, <1>5, <1>6, <1>7 DEF AccountsInv

LEMMA ReadRolesAccounts ==
  ASSUME StartupInv, NEW s \in Starter, ReadRoles(s)
  PROVE  AccountsInv'
<1>1. /\ Goes(s, "roles", IF "rbac_v1" \in meta THEN "up" ELSE "demote",
               IF "first_admin" \in meta THEN {} ELSE {<<u, role[u]>> : u \in Made})
      /\ UNCHANGED <<role, key, unique, meta, given>>
  BY DEF ReadRoles, accs
<1>2. /\ at[s] = "roles" /\ at'[s] \in {"up", "demote"}
      /\ read'[s] \subseteq {<<u, role[u]>> : u \in Made}
      /\ \A t \in Starter \ {s} : at'[t] = at[t] /\ read'[t] = read[t]
  <2>1. (IF "rbac_v1" \in meta THEN "up" ELSE "demote") \in StartSteps
    BY DEF StartSteps, Later
  <2> QED BY <1>1, <2>1, GoesFacts DEF StartupInv
<1>3. Made' = Made
  BY <1>1 DEF Made
<1>4. AccountsInv
  BY TwoHalves
<1>5. GivenInv' /\ MadeInv' /\ KeyInv'
  BY <1>1, <1>3, <1>4 DEF AccountsInv, GivenInv, MadeInv, KeyInv, Distinct
<1>6. AccountInv(s)'
  BY <1>1, <1>2, <1>3, <1>4 DEF AccountsInv, AccountInv, Keyed
<1>7. ASSUME NEW t \in Starter \ {s} PROVE AccountInv(t)'
  BY <1>1, <1>2, <1>3, <1>4 DEF AccountsInv, AccountInv, Keyed
<1> QED BY <1>1, <1>4, <1>5, <1>6, <1>7 DEF AccountsInv

LEMMA StoreRolesAccounts ==
  ASSUME StartupInv, NEW s \in Starter, StoreRoles(s)
  PROVE  AccountsInv'
<1>1. /\ "rbac_v1" \notin meta /\ Goes(s, "demote", "up", {}) /\ UNCHANGED <<key, unique, given>>
      /\ role' = [u \in Account |-> IF read[s] # {} /\ u = Earliest(read[s]) THEN "admin"
                                  ELSE IF u \in Demoted(read[s]) THEN "member" ELSE role[u]]
      /\ "rbac_v1" \in meta'
  BY DEF StoreRoles, StoreRolesAnyway
<1>2. /\ at[s] = "demote" /\ at'[s] = "up"
      /\ \A t \in Starter \ {s} : at'[t] = at[t] /\ read'[t] = read[t]
  <2>1. "up" \in StartSteps
    BY DEF StartSteps
  <2> QED BY <1>1, <2>1, GoesFacts DEF StartupInv
<1>3. AccountsInv
  BY TwoHalves
<1>4. \A p \in read[s] : p[1] \in Made
  BY <1>2, <1>3 DEF AccountsInv, AccountInv
<1>5. Demoted(read[s]) \subseteq Made /\ (read[s] # {} => Earliest(read[s]) \in Made)
  <2>1. \A p \in read[s] : p[1] \in Nat
    BY <1>4, StartupAssumption DEF Made, Account
  <2>2. read[s] # {} => Earliest(read[s]) \in Made
    BY <1>4, <2>1, EarliestIsThere
  <2> QED BY <1>4, <2>2 DEF Demoted
<1>6. /\ role' \in [Account -> {"none", "admin", "member"}]
      /\ \A u \in Account : (role'[u] # "none" <=> role[u] # "none")
  BY <1>1, <1>3, <1>5 DEF AccountsInv, Made
<1>7. Made' = Made
  BY <1>6 DEF Made
<1>8. GivenInv'
  <2>1. \A u \in Account : given[u] = Unset
    BY <1>1, <1>3 DEF AccountsInv, GivenInv
  <2> QED BY <1>1, <2>1 DEF GivenInv
<1>9. MadeInv' /\ KeyInv'
  BY <1>1, <1>3, <1>7 DEF AccountsInv, MadeInv, KeyInv, Distinct
<1>10. AccountInv(s)'
  BY <1>2 DEF AccountInv
<1>11. ASSUME NEW t \in Starter \ {s} PROVE AccountInv(t)'
  BY <1>1, <1>2, <1>3, <1>7 DEF AccountsInv, AccountInv, Keyed
<1> QED BY <1>1, <1>3, <1>6, <1>8, <1>9, <1>10, <1>11 DEF AccountsInv

LEMMA SignUpAccounts ==
  ASSUME StartupInv, NEW u \in Account, SignUp(u)
  PROVE  AccountsInv'
<1>1. /\ role[u] = "none" /\ \A v \in 1..(u - 1) : role[v] # "none"
      /\ unique => \A v \in Made : key[v] # <<Names[u]>>
      /\ key' = [key EXCEPT ![u] = <<Names[u]>>]
      /\ meta \subseteq meta' /\ UNCHANGED <<at, read, unique, given>>
  BY DEF SignUp, apart
<1>2. PICK r \in {"admin", "member"} : role' = [role EXCEPT ![u] = r]
  BY DEF SignUp
<1>3. AccountsInv
  BY TwoHalves
<1>4. /\ role' \in [Account -> {"none", "admin", "member"}] /\ role'[u] = r
      /\ \A v \in Account \ {u} : role'[v] = role[v]
  BY <1>2, <1>3 DEF AccountsInv
<1>5. key'[u] = <<Names[u]>> /\ \A v \in Account \ {u} : key'[v] = key[v]
  BY <1>1, <1>3 DEF AccountsInv
<1>6. Made' = Made \union {u} /\ u \notin Made /\ Made \subseteq Account
  BY <1>1, <1>4 DEF Made
<1>7. key' \in [Account -> Keys]
  BY <1>1, <1>3 DEF AccountsInv, Keys
<1>8. GivenInv'
  BY <1>1, <1>3, <1>4, <1>6 DEF AccountsInv, GivenInv
<1>9. MadeInv'
  <2>1. 1..u \subseteq Made \union {u}
    <3>1. \A v \in 1..u : v \in Account /\ (v = u \/ v \in 1..(u - 1))
      BY StartupAssumption DEF Account
    <3> QED BY <1>1, <3>1 DEF Made
  <2> QED BY <1>3, <1>6, <2>1 DEF AccountsInv, MadeInv
<1>10. KeyInv'
  <2>1. \A v \in Account : key'[v] \in {Unset, <<Names[v]>>, Suffixed(v)}
    BY <1>3, <1>5 DEF AccountsInv, KeyInv
  <2>2. ASSUME NEW w \in Account, key'[w] = Suffixed(w)
        PROVE  \E v \in 1..(w - 1) : Names[v] = Names[w] /\ key'[v] = <<Names[v]>> /\ Canonical(v) = <<Names[v]>>
    <3>1. w # u /\ key[w] = Suffixed(w)
      BY <1>5, <2>2, KeysDiffer
    <3>2. PICK v \in 1..(w - 1) : Names[v] = Names[w] /\ key[v] = <<Names[v]>> /\ Canonical(v) = <<Names[v]>>
      BY <1>3, <3>1 DEF AccountsInv, KeyInv
    <3>3. v \in Account
      BY <3>2, StartupAssumption DEF Account
    <3>4. key'[v] = <<Names[v]>>
      BY <1>5, <3>2, <3>3
    <3> QED BY <3>2, <3>4
  <2>3. ASSUME unique PROVE \A v, w \in Made \union {u} : v # w /\ key'[v] # Unset => key'[v] # key'[w]
    <3>1. \A v, w \in Made : v # w /\ key[v] # Unset => key[v] # key[w]
      BY <1>3, <2>3 DEF AccountsInv, KeyInv, Distinct
    <3>2. \A v \in Made : key'[v] = key[v] /\ key[v] # <<Names[u]>>
      BY <1>1, <1>5, <1>6, <2>3
    <3> QED BY <1>5, <3>1, <3>2
  <2>4. unique' => Distinct(key)'
    BY <1>1, <1>6, <2>3 DEF Distinct
  <2> QED BY <2>1, <2>2, <2>4 DEF KeyInv
<1>11. \A us \in SUBSET (Account \ {u}) : Keyed(us) => \A v \in us \union {u} : key'[v] # Unset
  BY <1>5, KeysDiffer DEF Keyed
<1>12. ASSUME NEW t \in Starter PROVE AccountInv(t)'
  <2>1. AccountInv(t) /\ at'[t] = at[t] /\ read'[t] = read[t] /\ unique' = unique
    BY <1>1, <1>3 DEF AccountsInv
  <2>2. ASSUME at[t] = "keys" PROVE Keyed(Made \ read[t])'
    <3>1. Keyed(Made \ read[t])
      BY <2>1, <2>2 DEF AccountInv
    <3>2. \A v \in (Made \ read[t]) \union {u} : key'[v] # Unset
      BY <1>6, <1>11, <3>1
    <3> QED BY <1>6, <2>1, <3>2 DEF Keyed
  <2>3. ASSUME Keyed(Made) PROVE Keyed(Made)'
    BY <1>6, <1>11, <2>3 DEF Keyed
  <2> QED BY <1>6, <2>1, <2>2, <2>3 DEF AccountInv
<1> QED BY <1>1, <1>3, <1>4, <1>7, <1>8, <1>9, <1>10, <1>12 DEF AccountsInv

LEMMA ChangeRoleAccounts ==
  ASSUME StartupInv, NEW u \in Account, NEW r \in {"admin", "member"}, ChangeRole(u, r)
  PROVE  AccountsInv'
<1>1. /\ u \in Made /\ role' = [role EXCEPT ![u] = r]
      /\ given' = (IF "rbac_v1" \in meta THEN [given EXCEPT ![u] = r] ELSE given)
      /\ UNCHANGED <<at, read, key, unique, meta>>
  BY DEF ChangeRole, apart
<1>2. AccountsInv
  BY TwoHalves
<1>3. /\ role' \in [Account -> {"none", "admin", "member"}] /\ role'[u] = r
      /\ \A v \in Account \ {u} : role'[v] = role[v]
  BY <1>1, <1>2 DEF AccountsInv
<1>4. Made' = Made
  BY <1>1, <1>3 DEF Made
<1>5. given' \in [Account -> {Unset, "admin", "member"}]
  BY <1>1, <1>2 DEF AccountsInv
<1>6. GivenInv'
  <2>1. CASE "rbac_v1" \in meta
    <3>1. given'[u] = r /\ \A v \in Account \ {u} : given'[v] = given[v]
      BY <1>1, <1>2, <2>1 DEF AccountsInv
    <3> QED BY <1>1, <1>2, <1>3, <1>4, <2>1, <3>1 DEF AccountsInv, GivenInv
  <2>2. CASE "rbac_v1" \notin meta
    <3>1. \A v \in Account : given'[v] = Unset
      BY <1>1, <1>2, <2>2 DEF AccountsInv, GivenInv
    <3> QED BY <3>1 DEF GivenInv
  <2> QED BY <2>1, <2>2
<1>7. MadeInv' /\ KeyInv'
  BY <1>1, <1>2, <1>4 DEF AccountsInv, MadeInv, KeyInv, Distinct
<1>8. ASSUME NEW t \in Starter PROVE AccountInv(t)'
  BY <1>1, <1>2, <1>4 DEF AccountsInv, AccountInv, Keyed
<1> QED BY <1>1, <1>2, <1>3, <1>5, <1>6, <1>7, <1>8 DEF AccountsInv

-----------------------------------------------------------------------------
(* The theorems.                                                           *)

LEMMA StartStepVectors ==
  ASSUME StartupInv, NEW s \in Starter,
         \/ EnsureDatabase(s) \/ ReadEmbeddings(s) \/ DropIndex(s) \/ ClearVectors(s)
         \/ CreateIndex(s) \/ Record(s) \/ ReadNames(s) \/ StoreKeys(s) \/ MakeUnique(s)
         \/ TrackActivity(s) \/ ReadRoles(s) \/ StoreRoles(s)
         \/ Cut(s) \/ Stop(s) \/ Ingest(s) \/ Reembed(s)
  PROVE  VectorsInv'
<1>1. VectorsInv /\ StartupTypeOK
  BY TwoHalves DEF StartupInv
<1>2. CASE ReadNames(s) \/ StoreKeys(s) \/ MakeUnique(s) \/ TrackActivity(s) \/ ReadRoles(s)
           \/ StoreRoles(s) \/ Stop(s)
  <2>1. UNCHANGED <<index, recorded, torn>>
    BY <1>2 DEF ReadNames, StoreKeys, MakeUnique, TrackActivity, ReadRoles, StoreRoles, StoreRolesAnyway,
                Stop, vecs
  <2>2. \E from \in Later \union {"up"} : \E to \in Later \union {"up", "down"} : \E found :
          Goes(s, from, to, found) /\ (from = "up" => to = "down")
    BY <1>2 DEF ReadNames, StoreKeys, MakeUnique, TrackActivity, ReadRoles, StoreRoles, StoreRolesAnyway,
                Stop, Later
  <2> QED BY <1>1, <2>1, <2>2, MigrationVectors
<1>3. CASE Ingest(s)
  BY <1>1, <1>3, RequestVectors DEF Ingest, apart
<1> QED BY <1>1, <1>2, <1>3, EnsureDatabaseVectors, ReadEmbeddingsVectors, DropIndexVectors,
           ClearVectorsVectors, CreateIndexVectors, RecordVectors, CutVectors, ReembedVectors

LEMMA StartStepAccounts ==
  ASSUME StartupInv, NEW s \in Starter,
         \/ EnsureDatabase(s) \/ ReadEmbeddings(s) \/ DropIndex(s) \/ ClearVectors(s)
         \/ CreateIndex(s) \/ Record(s) \/ ReadNames(s) \/ StoreKeys(s) \/ MakeUnique(s)
         \/ TrackActivity(s) \/ ReadRoles(s) \/ StoreRoles(s)
         \/ Cut(s) \/ Stop(s) \/ Ingest(s) \/ Reembed(s)
  PROVE  AccountsInv'
<1>1. CASE Ingest(s) \/ Reembed(s)
  <2>1. UNCHANGED <<at, read, role, key, unique, meta, given>>
    BY <1>1 DEF Ingest, Reembed, apart, accs
  <2> QED BY <2>1, TwoHalves, AccountsKept
<1> QED BY <1>1, EnsureDatabaseAccounts, SchemaAccounts, ReadNamesAccounts, StoreKeysAccounts,
           MakeUniqueAccounts, TrackActivityAccounts, ReadRolesAccounts, StoreRolesAccounts, CutAccounts

\* What every start, sign-up and role change relies on, in every reachable state
\* (schema.py, lines 204-249; migrations.py, lines 42-104).
THEOREM StartupInvariant == StartupSpec => []StartupInv
<1>1. StartupInit => StartupInv
  <2>1. SUFFICES ASSUME StartupInit PROVE StartupInv
    OBVIOUS
  <2>2. PICK n \in 0..MaxAccounts : role = [u \in Account |-> IF u <= n THEN "admin" ELSE "none"]
    BY <2>1 DEF StartupInit
  <2>3. \A s \in Starter : at[s] = "down"
    BY <2>1 DEF StartupInit
  <2>4. RunsInv /\ RecordedInv /\ \A s \in Starter : IndexInv(s) /\ ProviderInv(s) /\ AccountInv(s)
    BY <2>1, <2>3 DEF StartupInit, RunsInv, RecordedInv, Unrecorded, IndexInv, ProviderInv, AccountInv,
                      Preparing, Later
  <2>5. StartupTypeOK
    <3>1. role \in [Account -> {"none", "admin", "member"}]
      BY <2>2
    <3>2. key \in [Account -> Keys] /\ given \in [Account -> {Unset, "admin", "member"}]
      BY <2>1 DEF StartupInit, Keys
    <3>3. /\ at \in [Starter -> StartSteps] /\ DOMAIN read = Starter
          /\ runs \in [Starter -> Embedder] /\ configured \in Embedder
      BY <2>1 DEF StartupInit, StartSteps
    <3>4. /\ index \in Nat /\ recorded \in Recorded \union {Unset}
          /\ unique \in BOOLEAN /\ torn \in BOOLEAN
      BY <2>1 DEF StartupInit
    <3> QED BY <3>1, <3>2, <3>3, <3>4 DEF StartupTypeOK
  <2>6. GivenInv
    BY <2>1 DEF StartupInit, GivenInv
  <2>7. MadeInv
    <3>1. \A u \in Account : u \in Made <=> u <= n
      BY <2>2 DEF Made
    <3>2. ASSUME NEW u \in Made, NEW v \in 1..u PROVE v \in Made
      <4>1. u \in Account /\ u <= n /\ u \in Nat /\ n \in Nat
        BY <3>1, StartupAssumption DEF Made, Account
      <4>2. v \in Account /\ v <= n
        BY <4>1, <3>2, StartupAssumption DEF Account
      <4> QED BY <3>1, <4>2
    <3> QED BY <3>2 DEF MadeInv
  <2>8. KeyInv
    BY <2>1, KeysDiffer DEF StartupInit, KeyInv, Distinct
  <2> QED BY <2>4, <2>5, <2>6, <2>7, <2>8 DEF StartupInv
<1>2. StartupInv /\ [StartupNext]_startupVars => StartupInv'
  <2>1. SUFFICES ASSUME StartupInv, [StartupNext]_startupVars PROVE StartupInv'
    OBVIOUS
  <2>2. VectorsInv /\ AccountsInv
    BY <2>1, TwoHalves
  <2>3. CASE UNCHANGED startupVars
    BY <2>2, <2>3, RequestVectors, AccountsKept, TwoHalves DEF startupVars, store
  <2>4. CASE StartupNext
    <3>1. CASE \E s \in Starter :
                 \/ EnsureDatabase(s) \/ ReadEmbeddings(s) \/ DropIndex(s) \/ ClearVectors(s)
                 \/ CreateIndex(s) \/ Record(s) \/ ReadNames(s) \/ StoreKeys(s) \/ MakeUnique(s)
                 \/ TrackActivity(s) \/ ReadRoles(s) \/ StoreRoles(s)
                 \/ Cut(s) \/ Stop(s) \/ Ingest(s) \/ Reembed(s)
      <4>1. VectorsInv'
        BY <2>1, <3>1, StartStepVectors
      <4>2. AccountsInv'
        BY <2>1, <3>1, StartStepAccounts
      <4> QED BY <4>1, <4>2, TwoHalves
    <3>2. CASE \E e \in Embedder : Configure(e)
      <4>1. VectorsInv'
        BY <2>2, <3>2, ConfigureVectors
      <4>2. AccountsInv'
        BY <2>2, <3>2, AccountsKept DEF Configure, store
      <4> QED BY <4>1, <4>2, TwoHalves
    <3>3. CASE \E u \in Account : SignUp(u) \/ \E r \in {"admin", "member"} : ChangeRole(u, r)
      <4>1. VectorsInv'
        BY <2>2, <3>3, RequestVectors DEF SignUp, ChangeRole, apart, vecs
      <4>2. AccountsInv'
        BY <2>1, <3>3, SignUpAccounts, ChangeRoleAccounts
      <4> QED BY <4>1, <4>2, TwoHalves
    <3> QED BY <2>4, <3>1, <3>2, <3>3 DEF StartupNext
  <2> QED BY <2>1, <2>3, <2>4
<1> QED BY <1>1, <1>2, PTL DEF StartupSpec

\* The roles migration "never touches roles an admin set later" (migrations.py, lines 10-14),
\* however many processes run it and however often it is cut short.
THEOREM GivenRolesKept == StartupSpec => []GivenRolesStay
<1>1. StartupInv => GivenRolesStay
  BY DEF StartupInv, GivenInv, GivenRolesStay
<1> QED BY <1>1, StartupInvariant, PTL

\* A process comes up only from the migration of the roles.
LEMMA ComesUpFrom ==
  ASSUME StartupTypeOK, StartupNext, NEW s \in Starter, at[s] # "up", at'[s] = "up"
  PROVE  at[s] \in {"roles", "demote"}
<1>1. CASE \E t \in Starter : EnsureDatabase(t) \/ Cut(t)
  BY <1>1 DEF EnsureDatabase, Cut, StartupTypeOK
<1>2. CASE UNCHANGED at
  BY <1>2
<1>3. CASE \E t \in Starter : \E from, to, found :
             Goes(t, from, to, found) /\ (to = "up" => from \in {"roles", "demote"})
  BY <1>3 DEF Goes, StartupTypeOK
<1>4. CASE \E t \in Starter :
             \/ ReadEmbeddings(t) \/ DropIndex(t) \/ ClearVectors(t) \/ CreateIndex(t) \/ Record(t)
             \/ ReadNames(t) \/ StoreKeys(t) \/ MakeUnique(t) \/ TrackActivity(t) \/ ReadRoles(t)
             \/ StoreRoles(t) \/ Stop(t)
  <2>1. PICK t \in Starter :
             \/ ReadEmbeddings(t) \/ DropIndex(t) \/ ClearVectors(t) \/ CreateIndex(t) \/ Record(t)
             \/ ReadNames(t) \/ StoreKeys(t) \/ MakeUnique(t) \/ TrackActivity(t) \/ ReadRoles(t)
             \/ StoreRoles(t) \/ Stop(t)
    BY <1>4
  <2>2. \E from, to, found : Goes(t, from, to, found) /\ (to = "up" => from \in {"roles", "demote"})
    BY <2>1 DEF ReadEmbeddings, DropIndex, ClearVectors, CreateIndex, Record, ReadNames, StoreKeys,
                MakeUnique, TrackActivity, ReadRoles, StoreRoles, StoreRolesAnyway, Stop
  <2> QED BY <2>2 DEF Goes, StartupTypeOK
<1>5. CASE \/ \E t \in Starter : Ingest(t) \/ Reembed(t)
           \/ \E e \in Embedder : Configure(e)
           \/ \E u \in Account : SignUp(u) \/ \E r \in {"admin", "member"} : ChangeRole(u, r)
  BY <1>5 DEF Ingest, Reembed, Configure, SignUp, ChangeRole, apart
<1> QED BY <1>1, <1>4, <1>5 DEF StartupNext

\* A process that comes up finds every account with a key of its own, and an index for the
\* vectors its model makes unless a start was cut short while it recorded one.
THEOREM StartsReady == StartupSpec => ComesUpReady
<1>1. ASSUME StartupInv, NEW s \in Starter, at[s] \in {"roles", "demote"}
      PROVE  NamesSettled /\ (torn \/ index = Dims[runs[s]])
  <2>1. torn \/ index = Dims[runs[s]]
    <3>1. runs[s] = configured
      BY <1>1 DEF StartupInv, RunsInv
    <3> QED BY <1>1, <3>1 DEF StartupInv, IndexInv, Later
  <2>2. Keyed(Made) /\ unique
    BY <1>1 DEF StartupInv, AccountInv
  <2>3. ASSUME NEW u \in Made, key[u] = Suffixed(u)
        PROVE  \E v \in Made : v < u /\ key[v] = <<Names[u]>>
    <3>1. u \in Account /\ u \in Nat /\ 1..u \subseteq Made
      BY <1>1, StartupAssumption DEF StartupInv, MadeInv, Made, Account
    <3>2. PICK v \in 1..(u - 1) : Names[v] = Names[u] /\ key[v] = <<Names[v]>>
      BY <1>1, <2>3, <3>1 DEF StartupInv, KeyInv
    <3>3. v \in 1..u /\ v < u
      BY <3>1
    <3> QED BY <3>1, <3>2, <3>3
  <2>4. \A u \in Made : key[u] # Unset /\ \A v \in Made \ {u} : key[u] # key[v]
    BY <1>1, <2>2 DEF StartupInv, KeyInv, Distinct, Keyed
  <2> QED BY <2>1, <2>3, <2>4 DEF NamesSettled
<1>2. StartupInv /\ [StartupNext]_startupVars
        => [\A s \in Starter :
              at[s] # "up" /\ at'[s] = "up" => NamesSettled /\ (torn \/ index = Dims[runs[s]])]_startupVars
  <2>1. StartupInv => StartupTypeOK
    BY DEF StartupInv
  <2> QED BY <1>1, <2>1, ComesUpFrom
<1> QED BY <1>2, StartupInvariant, PTL DEF StartupSpec, ComesUpReady
=============================================================================
