--------------------------- MODULE SettingsProofs ---------------------------
(***************************************************************************)
(* Proofs about LocalModels and Credentials: which model an account ends   *)
(* up with, and which secret a connector keeps, for any number of models,  *)
(* accounts, requests, connectors, instances and keys.                     *)
(***************************************************************************)
EXTENDS LocalModels, Credentials, WellFoundedInduction, TLAPS

-----------------------------------------------------------------------------
(* Local models.                                                           *)

Steps == {"done", "asked", "bootstrap", "install", "remove", "switch", "sign-in", "deleted", "listed"}

CallType ==
  [for : {"none", "bootstrap", "install", "remove", "switch", "sign-in"},
   user : User \union {NoModel}, model : Model \union {NoModel}, kept : Model \union {NoModel},
   remaining : SUBSET Model, moves : SUBSET User, at : Steps, clean : BOOLEAN]

ModelsTypeOK ==
  /\ installed \subseteq Model
  /\ chosen \in [User -> Model \union {NoModel}]
  /\ call \in [Call -> CallType]
  /\ raced \in BOOLEAN

\* A request is where its kind goes; one under way is an account's, about a model.
OnItsWay(c) ==
  /\ call[c].at \in {"bootstrap", "install", "remove", "switch", "sign-in"}
       => call[c].for = call[c].at
  /\ call[c].at \in {"deleted", "listed"} => call[c].for = "remove"
  /\ ~AtStep(c, "done") => call[c].user \in User /\ call[c].model \in Model

\* What a sign-in that nothing overtook has read is still so.
SignInInv(c) ==
  call[c].for = "sign-in" /\ call[c].clean =>
    /\ AtStep(c, "asked") \/ AtStep(c, "sign-in") => chosen[call[c].user] = call[c].kept
    /\ AtStep(c, "sign-in") => call[c].model \in installed

\* What a removal looked at: some other model was there, and still is unless another
\* removal has been under way; while nothing overtook it, all it saw is there, and it knows
\* all the accounts to move.
RemovalInv(c) ==
  /\ call[c].at \in {"remove", "deleted", "listed"} =>
       /\ call[c].remaining # {} /\ call[c].model \notin call[c].remaining
       /\ call[c].clean => call[c].remaining \subseteq installed
  /\ AtStep(c, "remove") /\ ~raced => installed \ {call[c].model} # {}
  /\ AtStep(c, "listed") /\ call[c].clean =>
       \A u \in User : chosen[u] = call[c].model => u \in call[c].moves

OneRemoval == ~raced => \A c, d \in Call : Removing(c) /\ Removing(d) => c = d

ModelsInv ==
  /\ ModelsTypeOK
  /\ OneRemoval
  /\ \A c \in Call : OnItsWay(c) /\ SignInInv(c) /\ RemovalInv(c)

LEMMA Least ==
  ASSUME NEW T \in SUBSET Nat, T # {}
  PROVE  \E m \in T : \A n \in T : m <= n
<1>1. IsWellFoundedOn(OpToRel(<, Nat), Nat)
  BY NatLessThanWellFounded
<1>2. PICK m \in T : \A n \in T : ~(<<n, m>> \in OpToRel(<, Nat))
  BY <1>1, WFMin
<1>3. \A n \in T : n \in Nat /\ ~(n < m)
  BY <1>2 DEF OpToRel
<1>4. \A n \in T : m <= n
  BY <1>3, m \in Nat
<1> QED BY <1>4

LEMMA MinIsIn ==
  ASSUME NEW T \in SUBSET Nat, T # {}
  PROVE  Min(T) \in T /\ \A n \in T : Min(T) <= n
BY Least DEF Min

LEMMA PickDefaultIn ==
  ASSUME NEW there \in SUBSET Model, there # {}, NEW preferred
  PROVE  PickDefault(there, preferred) \in there
<1> DEFINE places == {i \in DOMAIN Catalogue : Catalogue[i] \in there}
<1>1. places # {} /\ places \in SUBSET Nat
  BY ModelsAssumption DEF Model
<1>2. Min(places) \in places
  BY <1>1, MinIsIn
<1> QED BY <1>2 DEF PickDefault

LEMMA ProceedFacts ==
  ASSUME ModelsTypeOK, NEW c \in Call, NEW fields, NEW upset, Proceed(c, fields, upset)
  PROVE  /\ fields \in CallType => call' \in [Call -> CallType]
         /\ call'[c] = fields
         /\ \A d \in Call \ {c} :
              /\ call'[d] \in CallType
              /\ call'[d].for = call[d].for /\ call'[d].user = call[d].user
              /\ call'[d].model = call[d].model /\ call'[d].kept = call[d].kept
              /\ call'[d].remaining = call[d].remaining /\ call'[d].moves = call[d].moves
              /\ call'[d].at = call[d].at
              /\ call'[d].clean => call[d].clean /\ d \notin upset
<1>1. call' = [d \in Call |-> IF d = c THEN fields
                              ELSE [call[d] EXCEPT !.clean = call[d].clean /\ d \notin upset]]
  BY DEF Proceed
<1>2. \A d \in Call : call[d] \in CallType
  BY DEF ModelsTypeOK
<1>3. \A x \in CallType, b \in BOOLEAN :
        LET y == [x EXCEPT !.clean = b]
        IN /\ y \in CallType
           /\ y.for = x.for /\ y.user = x.user /\ y.model = x.model /\ y.kept = x.kept
           /\ y.remaining = x.remaining /\ y.moves = x.moves /\ y.at = x.at /\ y.clean = b
  BY DEF CallType
<1>4. \A d \in Call \ {c} :
        call'[d] = [call[d] EXCEPT !.clean = call[d].clean /\ d \notin upset]
  BY <1>1
<1>6. \A d \in Call \ {c} :
              /\ call'[d] \in CallType
              /\ call'[d].for = call[d].for /\ call'[d].user = call[d].user
              /\ call'[d].model = call[d].model /\ call'[d].kept = call[d].kept
              /\ call'[d].remaining = call[d].remaining /\ call'[d].moves = call[d].moves
              /\ call'[d].at = call[d].at
              /\ call'[d].clean => call[d].clean /\ d \notin upset
  <2> TAKE d \in Call \ {c}
  <2>1. PICK b \in BOOLEAN : b = (call[d].clean /\ d \notin upset)
    OBVIOUS
  <2>2. call'[d] = [call[d] EXCEPT !.clean = b]
    BY <1>4, <2>1
  <2>3. /\ call'[d] \in CallType
        /\ call'[d].for = call[d].for /\ call'[d].user = call[d].user
        /\ call'[d].model = call[d].model /\ call'[d].kept = call[d].kept
        /\ call'[d].remaining = call[d].remaining /\ call'[d].moves = call[d].moves
        /\ call'[d].at = call[d].at
        /\ call'[d].clean = b
    BY <1>2, <1>3, <2>2
  <2>4. call'[d].clean => call[d].clean /\ d \notin upset
    BY <2>1, <2>3
  <2> QED BY <2>3, <2>4
<1>7. call'[c] = fields
  BY <1>1
<1>8. fields \in CallType => call' \in [Call -> CallType]
  BY <1>1, <1>4, <1>6, <1>7
<1> QED BY <1>6, <1>7, <1>8

\* Another request keeps its invariant through a step that takes nothing it relies on away.
LEMMA OthersKeep ==
  ASSUME ModelsInv, NEW c \in Call, NEW fields, NEW upset, Proceed(c, fields, upset),
         NEW d \in Call \ {c},
         call[d].clean /\ d \notin upset =>
           /\ installed \subseteq installed'
           /\ call[d].for = "sign-in" /\ ~AtStep(d, "done") =>
                chosen'[call[d].user] = chosen[call[d].user]
           /\ Removing(d) => chosen' = chosen,
         ~raced /\ Removing(d) => installed \subseteq installed'
  PROVE  OnItsWay(d)' /\ SignInInv(d)' /\ RemovalInv(d)'
<1>0. /\ call'[d].for = call[d].for /\ call'[d].user = call[d].user
      /\ call'[d].model = call[d].model /\ call'[d].kept = call[d].kept
      /\ call'[d].remaining = call[d].remaining /\ call'[d].moves = call[d].moves
      /\ call'[d].at = call[d].at
      /\ call'[d].clean => call[d].clean /\ d \notin upset
  <2>1. ModelsTypeOK
    BY DEF ModelsInv
  <2> QED BY <2>1, ProceedFacts
<1>1. raced' = raced
  BY DEF Proceed
<1>2. OnItsWay(d) /\ SignInInv(d) /\ RemovalInv(d)
  BY DEF ModelsInv
<1>3. OnItsWay(d)'
  BY <1>0, <1>2 DEF OnItsWay, AtStep
<1>4. SignInInv(d)'
  BY <1>0, <1>2 DEF SignInInv, AtStep
<1>5. RemovalInv(d)'
  <2>1. call[d].at \in {"remove", "deleted", "listed"} => Removing(d)
    BY <1>2 DEF OnItsWay, Removing, AtStep
  <2> QED BY <1>0, <1>1, <1>2, <2>1 DEF RemovalInv, AtStep
<1> QED BY <1>3, <1>4, <1>5

\* No step but the first of a request adds a removal.
LEMMA OneRemovalKeeps ==
  ASSUME ModelsInv, NEW c \in Call, NEW fields, NEW upset, Proceed(c, fields, upset),
         fields.for = "remove" /\ fields.at # "done" => Removing(c)
  PROVE  OneRemoval'
<1>1. raced' = raced
  BY DEF Proceed
<1>2. \A d \in Call : Removing(d)' => Removing(d)
  <2>1. ModelsTypeOK
    BY DEF ModelsInv
  <2>2. call'[c] = fields /\ \A d \in Call \ {c} : call'[d].for = call[d].for /\ call'[d].at = call[d].at
    BY <2>1, ProceedFacts
  <2> QED BY <2>2 DEF Removing, AtStep
<1> QED BY <1>1, <1>2 DEF ModelsInv, OneRemoval

\* The two lemmas together, for a step that leaves c's own fields as its invariant says.
LEMMA StepKeeps ==
  ASSUME ModelsInv, NEW c \in Call, NEW fields \in CallType, NEW upset, Proceed(c, fields, upset),
         installed' \subseteq Model, chosen' \in [User -> Model \union {NoModel}],
         fields.for = "remove" /\ fields.at # "done" => Removing(c),
         \A d \in Call \ {c} :
           /\ call[d].clean /\ d \notin upset =>
                /\ installed \subseteq installed'
                /\ call[d].for = "sign-in" /\ ~AtStep(d, "done") =>
                     chosen'[call[d].user] = chosen[call[d].user]
                /\ Removing(d) => chosen' = chosen
           /\ ~raced /\ Removing(d) => installed \subseteq installed',
         call'[c] = fields => OnItsWay(c)' /\ SignInInv(c)' /\ RemovalInv(c)'
  PROVE  ModelsInv'
<1>1. call'[c] = fields /\ call' \in [Call -> CallType]
  BY ProceedFacts DEF ModelsInv
<1>2. ModelsTypeOK'
  BY <1>1 DEF ModelsInv, ModelsTypeOK, Proceed
<1>3. OneRemoval'
  BY OneRemovalKeeps
<1>4. \A d \in Call \ {c} : OnItsWay(d)' /\ SignInInv(d)' /\ RemovalInv(d)'
  BY OthersKeep
<1> QED BY <1>1, <1>2, <1>3, <1>4 DEF ModelsInv

LEMMA NoCallType == NoCall \in CallType
BY DEF NoCall, CallType, Steps

\* The forms in which a request's fields are updated.
LEMMA AtUpdated ==
  \A x \in CallType, s \in Steps :
    LET y == [x EXCEPT !.at = s]
    IN /\ y \in CallType
       /\ y.for = x.for /\ y.user = x.user /\ y.model = x.model /\ y.kept = x.kept
       /\ y.remaining = x.remaining /\ y.moves = x.moves /\ y.at = s /\ y.clean = x.clean
BY DEF CallType

\* ... a removal, with what would remain.
LEMMA RemainingUpdated ==
  \A x \in CallType, r \in SUBSET Model :
    LET y == [x EXCEPT !.remaining = r]
    IN /\ y \in CallType
       /\ y.for = x.for /\ y.user = x.user /\ y.model = x.model /\ y.kept = x.kept
       /\ y.remaining = r /\ y.moves = x.moves /\ y.at = x.at /\ y.clean = x.clean
BY DEF CallType

\* ... a sign-in, with its account's model.
LEMMA ModelUpdated ==
  \A x \in CallType, m \in Model :
    LET y == [x EXCEPT !.model = m]
    IN /\ y \in CallType
       /\ y.for = x.for /\ y.user = x.user /\ y.model = m /\ y.kept = x.kept
       /\ y.remaining = x.remaining /\ y.moves = x.moves /\ y.at = x.at /\ y.clean = x.clean
BY DEF CallType

\* ... a removal, with the accounts to move.
LEMMA MovesUpdated ==
  \A x \in CallType, s \in Steps, us \in SUBSET User :
    LET y == [x EXCEPT !.at = s, !.moves = us]
    IN /\ y \in CallType
       /\ y.for = x.for /\ y.user = x.user /\ y.model = x.model /\ y.kept = x.kept
       /\ y.remaining = x.remaining /\ y.moves = us /\ y.at = s /\ y.clean = x.clean
BY ZenonT(60) DEF CallType

\* A request that passes its checks, with what it now knows.
LEMMA PassesKeeps ==
  ASSUME ModelsInv, NEW c \in Call, NEW what \in {"bootstrap", "install", "remove", "switch", "sign-in"},
         NEW fields \in CallType, Passes(c, what, fields),
         fields.for = call[c].for, fields.user = call[c].user, fields.kept = call[c].kept,
         fields.clean => call[c].clean,
         fields.model \in Model,
         what = "sign-in" => fields.model \in installed,
         what = "remove" => fields.remaining = installed \ {fields.model} /\ fields.remaining # {}
  PROVE  ModelsInv'
<1> DEFINE new == [fields EXCEPT !.at = what]
<1>0. what \in Steps
  BY DEF Steps
<1>1. PICK next \in CallType : next = new
  BY <1>0, AtUpdated
<1>2. /\ next.for = what /\ next.user = call[c].user /\ next.kept = call[c].kept
      /\ next.clean => call[c].clean
      /\ next.model = fields.model /\ next.remaining = fields.remaining /\ next.at = what
  <2>1. /\ next.for = fields.for /\ next.user = fields.user /\ next.kept = fields.kept
        /\ next.clean = fields.clean
        /\ next.model = fields.model /\ next.remaining = fields.remaining /\ next.at = what
    BY <1>0, <1>1, AtUpdated
  <2> QED BY <2>1 DEF Passes
<1>3. Proceed(c, next, {}) /\ AtStep(c, "asked") /\ UNCHANGED <<installed, chosen, raced>>
  BY <1>1 DEF Passes, Proceed
<1>4. ASSUME call'[c] = next PROVE OnItsWay(c)' /\ SignInInv(c)' /\ RemovalInv(c)'
  <2>1. OnItsWay(c) /\ SignInInv(c)
    BY DEF ModelsInv
  <2>2. OnItsWay(c)'
    BY <1>2, <1>3, <1>4, <2>1 DEF OnItsWay, AtStep
  <2>3. SignInInv(c)'
    BY <1>2, <1>3, <1>4, <2>1 DEF SignInInv, AtStep, Passes
  <2>4. RemovalInv(c)'
    BY <1>2, <1>3, <1>4 DEF RemovalInv, AtStep
  <2> QED BY <2>2, <2>3, <2>4
<1>5. next.for = "remove" /\ next.at # "done" => Removing(c)
  BY <1>2, <1>3 DEF Removing, AtStep, Passes
<1>6. installed' \subseteq Model /\ chosen' \in [User -> Model \union {NoModel}]
  BY <1>3 DEF ModelsInv, ModelsTypeOK
<1> QED BY <1>3, <1>4, <1>5, <1>6, StepKeeps

\* A request ends, refused or cut short.
LEMMA EndsKeeps ==
  ASSUME ModelsInv, NEW c \in Call, NEW upset, Proceed(c, NoCall, upset),
         installed' \subseteq Model, installed \subseteq installed', UNCHANGED chosen
  PROVE  ModelsInv'
<1>1. PICK fields \in CallType : fields = NoCall
  BY NoCallType
<1>2. fields.for = "none" /\ fields.at = "done"
  BY <1>1 DEF NoCall
<1>3. Proceed(c, fields, upset)
  BY <1>1
<1>4. ASSUME call'[c] = fields PROVE OnItsWay(c)' /\ SignInInv(c)' /\ RemovalInv(c)'
  BY <1>2, <1>4 DEF OnItsWay, SignInInv, RemovalInv, AtStep
<1>5. chosen' \in [User -> Model \union {NoModel}]
  BY DEF ModelsInv, ModelsTypeOK
<1> QED BY <1>2, <1>3, <1>4, <1>5, StepKeeps

LEMMA UnderWay ==
  ASSUME ModelsInv, NEW c \in Call, ~AtStep(c, "done")
  PROVE  /\ call[c] \in CallType /\ call[c].model \in Model /\ call[c].user \in User
         /\ call[c].kept \in Model \union {NoModel}
         /\ installed \subseteq Model /\ chosen \in [User -> Model \union {NoModel}]
         /\ OnItsWay(c) /\ SignInInv(c) /\ RemovalInv(c)
<1>1. call[c] \in CallType /\ installed \subseteq Model /\ chosen \in [User -> Model \union {NoModel}]
  BY DEF ModelsInv, ModelsTypeOK
<1>2. OnItsWay(c) /\ SignInInv(c) /\ RemovalInv(c)
  BY DEF ModelsInv
<1>3. call[c].model \in Model /\ call[c].user \in User
  BY <1>2 DEF OnItsWay
<1>4. call[c].kept \in Model \union {NoModel}
  BY <1>1 DEF CallType
<1> QED BY <1>1, <1>2, <1>3, <1>4

LEMMA AskKeeps ==
  ASSUME ModelsInv, NEW c \in Call, NEW u \in User, NEW m \in Model,
         NEW what \in {"bootstrap", "install", "remove", "switch", "sign-in"}, Ask(c, what, u, m)
  PROVE  ModelsInv'
<1>1. PICK fields : fields = [NoCall EXCEPT !.for = what, !.user = u, !.model = m, !.kept = chosen[u],
                                            !.at = "asked", !.clean = ~ \E d \in Call \ {c} : Removing(d)]
  OBVIOUS
<1>2. call' = [call EXCEPT ![c] = fields]
  BY <1>1 DEF Ask
<1>3. /\ fields \in CallType /\ fields.for = what /\ fields.user = u /\ fields.model = m
      /\ fields.kept = chosen[u] /\ fields.at = "asked"
  <2>1. PICK b \in BOOLEAN : b = ~ \E d \in Call \ {c} : Removing(d)
    OBVIOUS
  <2>2. fields = [NoCall EXCEPT !.for = what, !.user = u, !.model = m, !.kept = chosen[u],
                                !.at = "asked", !.clean = b]
    BY <1>1, <2>1
  <2>3. chosen[u] \in Model \union {NoModel}
    BY DEF ModelsInv, ModelsTypeOK
  <2> QED BY <2>2, <2>3 DEF NoCall, CallType, Steps
<1>4. UNCHANGED <<installed, chosen>> /\ AtStep(c, "done")
  BY DEF Ask
<1>5. call'[c] = fields /\ \A d \in Call \ {c} : call'[d] = call[d]
  BY <1>2 DEF ModelsInv, ModelsTypeOK
<1>6. raced' = (raced \/ (what = "remove" /\ \E d \in Call \ {c} : Removing(d)))
  BY DEF Ask
<1>7. ModelsTypeOK'
  BY <1>2, <1>3, <1>4, <1>6 DEF ModelsInv, ModelsTypeOK
<1>8. OneRemoval'
  <2>1. SUFFICES ASSUME ~raced', NEW d \in Call, NEW e \in Call, Removing(d)', Removing(e)', d # e
                 PROVE  FALSE
    BY DEF OneRemoval
  <2>2. ~raced /\ ~(what = "remove" /\ \E f \in Call \ {c} : Removing(f))
    BY <1>6, <2>1
  <2>3. \A f \in Call \ {c} : Removing(f)' => Removing(f)
    BY <1>5 DEF Removing, AtStep
  <2>4. Removing(c)' => what = "remove"
    BY <1>3, <1>5 DEF Removing, AtStep
  <2> QED BY <2>1, <2>2, <2>3, <2>4 DEF ModelsInv, OneRemoval
<1>9. OnItsWay(c)' /\ SignInInv(c)' /\ RemovalInv(c)'
  BY <1>3, <1>4, <1>5 DEF OnItsWay, SignInInv, RemovalInv, AtStep
<1>10. ASSUME NEW d \in Call \ {c} PROVE OnItsWay(d)' /\ SignInInv(d)' /\ RemovalInv(d)'
  <2>1. OnItsWay(d) /\ SignInInv(d) /\ RemovalInv(d) /\ call'[d] = call[d]
    BY <1>5 DEF ModelsInv
  <2>2. ~raced' => ~raced
    BY <1>6
  <2>3. OnItsWay(d)'
    BY <2>1 DEF OnItsWay, AtStep
  <2>4. SignInInv(d)'
    BY <2>1, <1>4 DEF SignInInv, AtStep
  <2>5. RemovalInv(d)'
    BY <2>1, <2>2, <1>4 DEF RemovalInv, AtStep
  <2> QED BY <2>3, <2>4, <2>5
<1> QED BY <1>7, <1>8, <1>9, <1>10 DEF ModelsInv

LEMMA ChecksKeep ==
  ASSUME ModelsInv, NEW c \in Call,
         Bootstrap(c) \/ Install(c) \/ Remove(c) \/ SetActive(c) \/ SignIn(c)
  PROVE  ModelsInv'
<1>0. ~AtStep(c, "done")
  BY DEF Bootstrap, Install, Remove, SetActive, SignIn, Passes, AtStep
<1>1. call[c] \in CallType /\ call[c].model \in Model /\ installed \subseteq Model
  BY <1>0, UnderWay
<1>2. CASE Bootstrap(c) \/ Install(c) \/ SetActive(c)
  BY <1>1, <1>2, PassesKeeps DEF Bootstrap, Install, SetActive
<1>3. CASE Remove(c)
  <2>1. PICK rest \in SUBSET Model : rest = installed \ {call[c].model}
    BY <1>1
  <2>2. PICK fields \in CallType : fields = [call[c] EXCEPT !.remaining = rest]
    BY <1>1, RemainingUpdated
  <2>3. /\ fields.for = call[c].for /\ fields.user = call[c].user /\ fields.kept = call[c].kept
        /\ fields.clean = call[c].clean /\ fields.model = call[c].model /\ fields.remaining = rest
    BY <1>1, <2>2, RemainingUpdated
  <2>4. Passes(c, "remove", fields) /\ rest # {}
    BY <1>3, <2>1, <2>2 DEF Remove
  <2> QED BY <1>1, <2>1, <2>3, <2>4, PassesKeeps
<1>4. CASE SignIn(c)
  <2>1. PICK m \in Model : m = PickDefault(installed, call[c].kept) /\ m \in installed
    BY <1>1, <1>4, PickDefaultIn DEF SignIn
  <2>2. PICK fields \in CallType : fields = [call[c] EXCEPT !.model = m]
    BY <1>1, ModelUpdated
  <2>3. /\ fields.for = call[c].for /\ fields.user = call[c].user /\ fields.kept = call[c].kept
        /\ fields.clean = call[c].clean /\ fields.model = m
    BY <1>1, <2>2, ModelUpdated
  <2>4. Passes(c, "sign-in", fields)
    BY <1>4, <2>1, <2>2 DEF SignIn
  <2> QED BY <2>1, <2>3, <2>4, PassesKeeps
<1> QED BY <1>2, <1>3, <1>4

LEMMA StopsKeep ==
  ASSUME ModelsInv, NEW c \in Call, Refuse(c) \/ Break(c) \/ Pull(c)
  PROVE  ModelsInv'
<1>1. CASE Refuse(c) \/ Break(c)
  <2>1. UNCHANGED <<installed, chosen>> /\ installed \subseteq Model
    BY <1>1 DEF Refuse, Break, ModelsInv, ModelsTypeOK
  <2>2. Proceed(c, NoCall, {})
    BY <1>1 DEF Refuse, Break
  <2> QED BY <2>1, <2>2, EndsKeeps
<1>2. CASE Pull(c)
  <2>1. ~AtStep(c, "done")
    BY <1>2 DEF Pull, AtStep
  <2>2. installed \subseteq Model /\ call[c].model \in Model
    BY <2>1, UnderWay
  <2> QED BY <1>2, <2>2, EndsKeeps DEF Pull
<1> QED BY <1>1, <1>2

LEMMA DeleteModelKeeps ==
  ASSUME ModelsInv, NEW c \in Call, DeleteModel(c)
  PROVE  ModelsInv'
<1>1. AtStep(c, "remove") /\ installed' = installed \ {call[c].model} /\ UNCHANGED <<chosen, raced>>
  BY DEF DeleteModel, Proceed
<1>2. /\ call[c] \in CallType /\ installed \subseteq Model
      /\ chosen \in [User -> Model \union {NoModel}]
      /\ OnItsWay(c) /\ RemovalInv(c)
  BY <1>1, UnderWay DEF AtStep
<1>3. PICK fields \in CallType : fields = [call[c] EXCEPT !.at = "deleted"]
  BY <1>2, AtUpdated DEF Steps
<1>4. /\ fields.for = call[c].for /\ fields.user = call[c].user /\ fields.model = call[c].model
      /\ fields.remaining = call[c].remaining /\ fields.at = "deleted" /\ fields.clean = call[c].clean
  BY <1>2, <1>3, AtUpdated DEF Steps
<1>5. Proceed(c, fields, Others(c))
  BY <1>3 DEF DeleteModel, Moves
<1>6. Removing(c)
  BY <1>1, <1>2 DEF OnItsWay, Removing, AtStep
<1>7. \A d \in Call \ {c} : d \in Others(c) /\ (~raced => ~Removing(d))
  BY <1>6 DEF Others, ModelsInv, OneRemoval
<1>8. ASSUME call'[c] = fields PROVE OnItsWay(c)' /\ SignInInv(c)' /\ RemovalInv(c)'
  <2>1. call[c].for = "remove"
    BY <1>6 DEF Removing
  <2>2. OnItsWay(c)'
    BY <1>2, <1>4, <1>8, <1>1, <2>1 DEF OnItsWay, AtStep
  <2>3. SignInInv(c)'
    BY <1>4, <1>8, <2>1 DEF SignInInv
  <2>4. RemovalInv(c)'
    BY <1>1, <1>2, <1>4, <1>8 DEF RemovalInv, AtStep
  <2> QED BY <2>2, <2>3, <2>4
<1>9. installed' \subseteq Model /\ chosen' \in [User -> Model \union {NoModel}]
  BY <1>1, <1>2
<1> QED BY <1>5, <1>6, <1>7, <1>8, <1>9, StepKeeps

LEMMA ListUsersKeeps ==
  ASSUME ModelsInv, NEW c \in Call, ListUsers(c)
  PROVE  ModelsInv'
<1>1. AtStep(c, "deleted") /\ UNCHANGED <<installed, chosen, raced>>
  BY DEF ListUsers, Proceed
<1>2. /\ call[c] \in CallType /\ installed \subseteq Model
      /\ chosen \in [User -> Model \union {NoModel}]
      /\ OnItsWay(c) /\ RemovalInv(c)
  BY <1>1, UnderWay DEF AtStep
<1>3. PICK us \in SUBSET User : us = {u \in User : chosen[u] = call[c].model}
  OBVIOUS
<1>4. PICK fields \in CallType : fields = [call[c] EXCEPT !.at = "listed", !.moves = us]
  BY <1>2, MovesUpdated DEF Steps
<1>5. /\ fields.for = call[c].for /\ fields.user = call[c].user /\ fields.model = call[c].model
      /\ fields.remaining = call[c].remaining /\ fields.moves = us
      /\ fields.at = "listed" /\ fields.clean = call[c].clean
  BY <1>2, <1>4 DEF CallType
<1>6. Proceed(c, fields, {})
  BY <1>3, <1>4 DEF ListUsers
<1>7. Removing(c)
  BY <1>1, <1>2 DEF OnItsWay, Removing, AtStep
<1>8. ASSUME call'[c] = fields PROVE OnItsWay(c)' /\ SignInInv(c)' /\ RemovalInv(c)'
  <2>1. call[c].for = "remove"
    BY <1>7 DEF Removing
  <2>2. OnItsWay(c)'
    BY <1>2, <1>5, <1>8, <1>1, <2>1 DEF OnItsWay, AtStep
  <2>3. SignInInv(c)'
    BY <1>5, <1>8, <2>1 DEF SignInInv
  <2>4. RemovalInv(c)'
    BY <1>1, <1>2, <1>3, <1>5, <1>8 DEF RemovalInv, AtStep
  <2> QED BY <2>2, <2>3, <2>4
<1>9. installed' \subseteq Model /\ chosen' \in [User -> Model \union {NoModel}]
  BY <1>1, <1>2
<1> QED BY <1>1, <1>6, <1>7, <1>8, <1>9, StepKeeps

\* A request that has stored its accounts' models.
LEMMA StoresKeep ==
  ASSUME ModelsInv, NEW c \in Call, ~AtStep(c, "done"), NEW upset, Proceed(c, Ends(c), upset),
         UNCHANGED installed, chosen' \in [User -> Model \union {NoModel}],
         \A d \in Call \ {c} : call[d].clean /\ d \notin upset =>
            /\ call[d].for = "sign-in" /\ ~AtStep(d, "done") =>
                 chosen'[call[d].user] = chosen[call[d].user]
            /\ Removing(d) => chosen' = chosen
  PROVE  ModelsInv'
<1>1. call[c] \in CallType /\ installed \subseteq Model
  BY UnderWay
<1>2. PICK fields \in CallType : fields = [call[c] EXCEPT !.at = "done"]
  BY <1>1, AtUpdated DEF Steps
<1>3. fields.at = "done"
  BY <1>1, <1>2, AtUpdated DEF Steps
<1>4. Proceed(c, fields, upset)
  BY <1>2 DEF Ends
<1>5. ASSUME call'[c] = fields PROVE OnItsWay(c)' /\ SignInInv(c)' /\ RemovalInv(c)'
  BY <1>3, <1>5 DEF OnItsWay, SignInInv, RemovalInv, AtStep
<1> QED BY <1>1, <1>3, <1>4, <1>5, StepKeeps

LEMMA MoveUsersKeeps ==
  ASSUME ModelsInv, NEW c \in Call, MoveUsers(c)
  PROVE  ModelsInv'
<1>1. AtStep(c, "listed") /\ ~AtStep(c, "done")
  BY DEF MoveUsers, AtStep
<1>2. /\ call[c] \in CallType /\ installed \subseteq Model
      /\ chosen \in [User -> Model \union {NoModel}] /\ RemovalInv(c)
  BY <1>1, UnderWay
<1>3. call[c].remaining \in SUBSET Model /\ call[c].remaining # {}
  BY <1>1, <1>2 DEF CallType, RemovalInv, AtStep
<1>4. PickDefault(call[c].remaining, NoModel) \in Model
  BY <1>3, PickDefaultIn
<1>5. chosen' \in [User -> Model \union {NoModel}]
  BY <1>2, <1>4 DEF MoveUsers
<1>6. Proceed(c, Ends(c), Others(c)) /\ UNCHANGED installed
  BY DEF MoveUsers
<1> QED BY <1>1, <1>5, <1>6, StoresKeep DEF Others

LEMMA SetModelKeeps ==
  ASSUME ModelsInv, NEW c \in Call, SetModel(c)
  PROVE  ModelsInv'
<1>1. ~AtStep(c, "done")
  BY DEF SetModel, AtStep
<1>2. /\ call[c] \in CallType /\ call[c].user \in User /\ call[c].model \in Model
      /\ chosen \in [User -> Model \union {NoModel}]
  BY <1>1, UnderWay
<1>3. chosen' = chosen \/ chosen' = [chosen EXCEPT ![call[c].user] = call[c].model]
  BY DEF SetModel
<1>4. chosen' \in [User -> Model \union {NoModel}]
  BY <1>2, <1>3
<1>5. PICK upset : upset = {d \in Others(c) : call[d].user = call[c].user \/ Removing(d)}
  OBVIOUS
<1>6. Proceed(c, Ends(c), upset) /\ UNCHANGED installed
  BY <1>5 DEF SetModel
<1>7. ASSUME NEW d \in Call \ {c}, d \notin upset, call[d].for = "sign-in", ~AtStep(d, "done")
      PROVE  chosen'[call[d].user] = chosen[call[d].user]
  <2>1. call[d].user \in User
    BY <1>7, UnderWay
  <2>2. call[d].user # call[c].user
    BY <1>5, <1>7 DEF Others
  <2> QED BY <1>2, <1>3, <2>1, <2>2
<1>8. \A d \in Call \ {c} : d \notin upset => ~Removing(d)
  BY <1>5 DEF Others
<1> QED BY <1>1, <1>4, <1>6, <1>7, <1>8, StoresKeep

\* Everything the requests know of what is installed and chosen, and of each other, holds in
\* every reachable state (routers/models.py; the sign-in of routers/auth.py).
THEOREM ModelsInvariant == LocalModelsSpec => []ModelsInv
<1>1. LocalModelsInit => ModelsInv
  <2>1. SUFFICES ASSUME LocalModelsInit PROVE ModelsInv
    OBVIOUS
  <2>2. ModelsTypeOK
    <3>1. installed \subseteq Model /\ raced \in BOOLEAN
      BY <2>1 DEF LocalModelsInit
    <3>2. chosen \in [User -> Model \union {NoModel}]
      BY <2>1 DEF LocalModelsInit
    <3>3. call \in [Call -> CallType]
      BY <2>1, NoCallType DEF LocalModelsInit
    <3> QED BY <3>1, <3>2, <3>3 DEF ModelsTypeOK
  <2>3. \A c \in Call : call[c].at = "done" /\ call[c].for = "none"
    <3>1. NoCall.at = "done" /\ NoCall.for = "none"
      BY DEF NoCall
    <3> QED BY <2>1, <3>1 DEF LocalModelsInit
  <2> QED BY <2>2, <2>3
          DEF ModelsInv, OneRemoval, Removing, AtStep, OnItsWay, SignInInv, RemovalInv
<1>2. ModelsInv /\ [LocalModelsNext]_modelVars => ModelsInv'
  <2>1. SUFFICES ASSUME ModelsInv, [LocalModelsNext]_modelVars PROVE ModelsInv'
    OBVIOUS
  <2>2. CASE UNCHANGED modelVars
    BY <2>1, <2>2 DEF modelVars, ModelsInv, ModelsTypeOK, OneRemoval, Removing, AtStep, OnItsWay,
                      SignInInv, RemovalInv
  <2>3. CASE LocalModelsNext
    <3>1. PICK c \in Call :
            \/ \E what \in {"bootstrap", "install", "remove", "switch", "sign-in"},
                  u \in User, m \in Model : Ask(c, what, u, m)
            \/ Bootstrap(c) \/ Install(c) \/ Remove(c) \/ SetActive(c) \/ SignIn(c) \/ Refuse(c)
            \/ Pull(c) \/ Break(c)
            \/ DeleteModel(c) \/ ListUsers(c) \/ MoveUsers(c) \/ SetModel(c)
      BY <2>3 DEF LocalModelsNext
    <3> QED BY <2>1, <3>1, AskKeeps, ChecksKeep, StopsKeep, DeleteModelKeeps, ListUsersKeeps,
               MoveUsersKeeps, SetModelKeeps
  <2> QED BY <2>1, <2>2, <2>3
<1> QED BY <1>1, <1>2, PTL DEF LocalModelsSpec

\* "At least one model always stays installed" (docs/local-models.md, line 23): no step of any
\* number of requests empties Ollama while no two removals have been under way together.
THEOREM OneModelRemains == LocalModelsSpec => OneRemains
<1>1. ModelsInv /\ [LocalModelsNext]_modelVars
        => [installed # {} /\ ~raced => installed' # {}]_modelVars
  <2>1. SUFFICES ASSUME ModelsInv, LocalModelsNext, installed # {}, ~raced
                 PROVE  installed' # {}
    OBVIOUS
  <2>2. PICK c \in Call :
          \/ \E what \in {"bootstrap", "install", "remove", "switch", "sign-in"},
                u \in User, m \in Model : Ask(c, what, u, m)
          \/ Bootstrap(c) \/ Install(c) \/ Remove(c) \/ SetActive(c) \/ SignIn(c) \/ Refuse(c)
          \/ Pull(c) \/ Break(c)
          \/ DeleteModel(c) \/ ListUsers(c) \/ MoveUsers(c) \/ SetModel(c)
    BY <2>1 DEF LocalModelsNext
  <2>3. CASE DeleteModel(c)
    <3>1. AtStep(c, "remove") /\ ~AtStep(c, "done") /\ installed' = installed \ {call[c].model}
      BY <2>3 DEF DeleteModel, AtStep
    <3>2. RemovalInv(c)
      BY <2>1, <3>1, UnderWay
    <3> QED BY <2>1, <3>1, <3>2 DEF RemovalInv
  <2>4. CASE ~DeleteModel(c)
    <3>1. installed \subseteq installed'
      BY <2>2, <2>4 DEF Ask, Bootstrap, Install, Remove, SetActive, SignIn, Passes, Refuse, Pull, Break,
                        ListUsers, MoveUsers, SetModel
    <3> QED BY <2>1, <3>1
  <2> QED BY <2>3, <2>4
<1> QED BY <1>1, ModelsInvariant, PTL DEF LocalModelsSpec, OneRemains

\* A request that nothing overtook ends well only by storing its accounts' models.
LEMMA EndsByStoring ==
  ASSUME ModelsInv, LocalModelsNext, NEW c \in Call,
         call[c].clean, call'[c].clean, ~AtStep(c, "done"), call'[c].at = "done"
  PROVE  MoveUsers(c) \/ SetModel(c)
<1>0. ModelsTypeOK /\ NoCall.clean = FALSE /\ call \in [Call -> CallType]
  BY DEF ModelsInv, ModelsTypeOK, NoCall
<1>1. PICK d \in Call :
        \/ \E what \in {"bootstrap", "install", "remove", "switch", "sign-in"},
              u \in User, m \in Model : Ask(d, what, u, m)
        \/ Bootstrap(d) \/ Install(d) \/ Remove(d) \/ SetActive(d) \/ SignIn(d) \/ Refuse(d)
        \/ Pull(d) \/ Break(d)
        \/ DeleteModel(d) \/ ListUsers(d) \/ MoveUsers(d) \/ SetModel(d)
  BY DEF LocalModelsNext
<1>2. CASE \E what \in {"bootstrap", "install", "remove", "switch", "sign-in"},
              u \in User, m \in Model : Ask(d, what, u, m)
  <2>1. AtStep(d, "done") /\ \A e \in Call \ {d} : call'[e] = call[e]
    BY <1>0, <1>2 DEF Ask
  <2> QED BY <2>1 DEF AtStep
<1>3. CASE \E fields, upset : Proceed(d, fields, upset) /\ d # c
  BY <1>0, <1>3, ProceedFacts DEF AtStep
<1>4. CASE d = c /\ (Bootstrap(c) \/ Install(c) \/ Remove(c) \/ SetActive(c) \/ SignIn(c))
  <2>1. PICK what \in {"bootstrap", "install", "remove", "switch", "sign-in"}, fields \in CallType :
          Passes(c, what, fields)
    <3>1. call[c] \in CallType /\ call[c].model \in Model /\ installed \subseteq Model
      BY UnderWay
    <3>2. CASE Bootstrap(c) \/ Install(c) \/ SetActive(c)
      BY <3>1, <3>2 DEF Bootstrap, Install, SetActive
    <3>3. CASE Remove(c)
      <4>1. [call[c] EXCEPT !.remaining = installed \ {call[c].model}] \in CallType
        BY <3>1, RemainingUpdated
      <4> QED BY <3>3, <4>1 DEF Remove
    <3>4. CASE SignIn(c)
      <4>1. PickDefault(installed, call[c].kept) \in Model
        BY <3>1, <3>4, PickDefaultIn DEF SignIn
      <4>2. [call[c] EXCEPT !.model = PickDefault(installed, call[c].kept)] \in CallType
        BY <3>1, <4>1, ModelUpdated
      <4> QED BY <3>4, <4>2 DEF SignIn
    <3> QED BY <1>4, <3>2, <3>3, <3>4
  <2>2. call'[c] = [fields EXCEPT !.at = what]
    BY <1>0, <2>1, ProceedFacts DEF Passes
  <2>3. call'[c].at = what
    BY <2>2 DEF CallType
  <2> QED BY <2>3
<1>5. CASE d = c /\ (Refuse(c) \/ Pull(c) \/ Break(c))
  <2>1. Proceed(c, NoCall, {})
    BY <1>5 DEF Refuse, Pull, Break
  <2>2. call'[c] = NoCall
    BY <1>0, <2>1, ProceedFacts
  <2> QED BY <1>0, <2>2
<1>6. CASE d = c /\ DeleteModel(c)
  <2>1. call'[c] = [call[c] EXCEPT !.at = "deleted"]
    BY <1>0, <1>6, ProceedFacts DEF DeleteModel, Moves
  <2>2. call'[c].at = "deleted"
    BY <1>0, <2>1 DEF CallType
  <2> QED BY <2>2
<1>7. CASE d = c /\ ListUsers(c)
  <2>1. call'[c] = [call[c] EXCEPT !.at = "listed", !.moves = {u \in User : chosen[u] = call[c].model}]
    BY <1>0, <1>7, ProceedFacts DEF ListUsers
  <2>2. call'[c].at = "listed"
    BY <1>0, <2>1 DEF CallType
  <2> QED BY <2>2
<1>8. \/ d = c
      \/ \E fields, upset : Proceed(d, fields, upset) /\ d # c
      \/ \E what \in {"bootstrap", "install", "remove", "switch", "sign-in"},
            u \in User, m \in Model : Ask(d, what, u, m)
  BY <1>1 DEF Bootstrap, Install, Remove, SetActive, SignIn, Passes, Refuse, Pull, Break,
              DeleteModel, ListUsers, MoveUsers, SetModel
<1> QED BY <1>1, <1>2, <1>3, <1>4, <1>5, <1>6, <1>7, <1>8

\* A sign-in that no removal overtakes leaves its account on an installed model; a removal
\* that nothing overtakes leaves nobody on the model it removed, and everyone it moved on an
\* installed one (routers/models.py; services/llm_catalog.py, pick_default).
THEOREM ChoicesStayInstalled == LocalModelsSpec => ChoicesInstalled
<1> DEFINE Chosen(c) ==
             CASE call[c].for = "sign-in" -> chosen'[call[c].user] \in installed'
               [] call[c].for = "remove" -> \A u \in User : /\ chosen'[u] # call[c].model
                                                            /\ u \in call[c].moves => chosen'[u] \in installed'
               [] OTHER -> TRUE
<1>1. ASSUME ModelsInv, LocalModelsNext, NEW c \in Call,
             call[c].clean, call'[c].clean, ~AtStep(c, "done"), call'[c].at = "done"
      PROVE  Chosen(c)
  <2>1. /\ call[c] \in CallType /\ call[c].model \in Model /\ call[c].user \in User
        /\ installed \subseteq Model /\ chosen \in [User -> Model \union {NoModel}]
        /\ OnItsWay(c) /\ SignInInv(c) /\ RemovalInv(c)
    BY <1>1, UnderWay
  <2>2. CASE MoveUsers(c)
    <3>1. AtStep(c, "listed") /\ installed' = installed
      BY <2>2 DEF MoveUsers
    <3>2. /\ call[c].remaining \in SUBSET Model /\ call[c].remaining # {}
          /\ call[c].remaining \subseteq installed /\ call[c].model \notin call[c].remaining
      BY <1>1, <2>1, <3>1 DEF RemovalInv, AtStep, CallType
    <3>3. PickDefault(call[c].remaining, NoModel) \in call[c].remaining
      BY <3>2, PickDefaultIn
    <3>4. call[c].for = "remove"
      BY <2>1, <3>1 DEF OnItsWay, AtStep
    <3>5. \A u \in User : chosen[u] = call[c].model => u \in call[c].moves
      BY <1>1, <2>1, <3>1 DEF RemovalInv
    <3>6. \A u \in User : chosen'[u] = IF u \in call[c].moves
                                       THEN PickDefault(call[c].remaining, NoModel) ELSE chosen[u]
      BY <2>2 DEF MoveUsers
    <3>7. \A u \in User : /\ chosen'[u] # call[c].model
                          /\ u \in call[c].moves => chosen'[u] \in installed'
      BY <3>1, <3>2, <3>3, <3>5, <3>6
    <3> QED BY <3>4, <3>7
  <2>3. CASE SetModel(c)
    <3>1. installed' = installed /\ (AtStep(c, "switch") \/ AtStep(c, "sign-in"))
      BY <2>3 DEF SetModel
    <3>2. CASE AtStep(c, "sign-in")
      <4>1. call[c].for = "sign-in"
        BY <2>1, <3>2 DEF OnItsWay, AtStep
      <4>2. chosen[call[c].user] = call[c].kept /\ call[c].model \in installed
        BY <1>1, <2>1, <3>2, <4>1 DEF SignInInv
      <4>3. chosen'[call[c].user] = call[c].model
        BY <2>1, <2>3, <4>2 DEF SetModel
      <4> QED BY <3>1, <4>1, <4>2, <4>3
    <3>3. CASE AtStep(c, "switch")
      <4>1. call[c].for = "switch"
        BY <2>1, <3>3 DEF OnItsWay, AtStep
      <4> QED BY <4>1
    <3> QED BY <3>1, <3>2, <3>3
  <2> QED BY <1>1, <2>2, <2>3, EndsByStoring
<1>2. ModelsInv /\ [LocalModelsNext]_modelVars
        => [\A c \in Call :
              /\ call[c].clean /\ call'[c].clean /\ ~AtStep(c, "done") /\ call'[c].at = "done"
              => Chosen(c)]_modelVars
  BY <1>1
<1> QED BY <1>2, ModelsInvariant, PTL DEF LocalModelsSpec, ChoicesInstalled

-----------------------------------------------------------------------------
(* Credentials.                                                            *)

Secret == [value : Nat, key : Nat, explicit : BOOLEAN]
Ring == Seq(Nat \ {Plain})
JobSteps == {"done", "failed", "addresses", "moved", "credentials"}

EditType ==
  [at : {"done", "read"}, on : Instance \union {None}, of : Connector \union {None},
   read : Secret \union {None}, value : Nat \union {None}, stale : BOOLEAN]

JobType ==
  [at : JobSteps, keys : Ring, read : [Connector -> Secret \union {None}],
   stale : SUBSET Connector, settled : BOOLEAN]

CredentialsTypeOK ==
  /\ env \in Ring
  /\ keys \in [Instance -> Ring]
  /\ config \in [Connector -> Secret \union {None}]
  /\ edit \in [Edit -> EditType]
  /\ job \in JobType
  /\ entered \in [Connector -> Nat]
  /\ overtaken \in SUBSET Connector /\ late \in SUBSET Connector
  /\ values \in Nat

\* Whoever still encrypts does so under a key the operator has; once an instance has the keys of
\* now, so has the job.
RingInv ==
  /\ \A i \in Instance : keys[i] # <<>> => Has(env, keys[i][1])
  /\ \A i \in Instance : keys[i] = env => job.keys = env
  /\ job.at \notin {"done", "failed"} /\ job.keys # <<>> => Has(env, job.keys[1])

\* Since a settled migration began, nobody has had other keys than its own.
SettledInv == job.settled => Everywhere /\ job.keys = env

\* What an edit has read is what is stored, unless another commit came between.
EditInv(e) ==
  edit[e].at = "read" =>
    /\ edit[e].of \in Connector /\ edit[e].on \in Instance
    /\ edit[e].read \in Secret /\ edit[e].read # None /\ edit[e].value \in Nat
    /\ ~edit[e].stale => edit[e].read = config[edit[e].of]

\* Likewise what a migration is about to rewrite; a connector made since is unknown to it.
JobInv ==
  job.at \in {"addresses", "credentials"} =>
    \A c \in Connector \ job.stale : job.read[c] \in {None, config[c]}

Current(stored) == stored.key = Plain \/ (env # <<>> /\ stored.key = env[1])
UnderFirst(stored) == env # <<>> /\ stored.key = env[1]
Opens(stored) == stored.key = Plain \/ Has(env, stored.key)

\* Once the job has run with the keys of now, and once every instance has these, only late secrets
\* need the old key; while the job is about to write, the others that do are the ones it will write.
LateInv ==
  \A c \in Connector \ (overtaken \union late) :
    /\ (job.at = "done" /\ job.keys = env) \/ Everywhere => config[c] = None \/ Current(config[c])
    /\ job.at = "credentials" /\ job.keys = env =>
         \/ config[c] = None \/ Current(config[c])
         \/ job.read[c] # None /\ ~Current(job.read[c]) /\ Has(env, job.read[c].key)

\* Once a settled migration has run, what the operator's keys open is under the first; while it is
\* about to write, what is not is what it will write.
MigratedInv ==
  job.settled /\ env # <<>> =>
    \A c \in Connector \ overtaken :
      /\ job.at = "done" => config[c] = None \/ UnderFirst(config[c]) \/ ~Opens(config[c])
      /\ job.at = "credentials" =>
           \/ config[c] = None \/ UnderFirst(config[c]) \/ ~Opens(config[c])
           \/ job.read[c] # None /\ ~UnderFirst(job.read[c]) /\ Opens(job.read[c])

\* A secret keeps its value, and but for late ones a key that opens it.
KeptInv ==
  \A c \in Connector \ overtaken :
    config[c] # None => config[c].value = entered[c] /\ (Opens(config[c]) \/ c \in late)

CredentialsInv ==
  /\ CredentialsTypeOK /\ RingInv /\ SettledInv /\ JobInv /\ LateInv /\ MigratedInv /\ KeptInv
  /\ \A e \in Edit : EditInv(e)

LEMMA CredentialsAreKept == CredentialsInv => SecretsSurvive
BY DEF CredentialsInv, KeptInv, MigratedInv, SecretsSurvive, UnderFirst, Opens

\* The forms in which an edit is updated.
LEMMA NoEditType == NoEdit \in EditType /\ NoEdit.at = "done"
<1>1. NoEdit \in EditType
  BY DEF NoEdit, EditType
<1>2. NoEdit.at = "done"
  BY DEF NoEdit
<1> QED BY <1>1, <1>2

LEMMA OvertakesFacts ==
  ASSUME edit \in [Edit -> EditType], NEW cs, NEW own
  PROVE  /\ Overtakes(cs, own) \in [Edit -> EditType]
         /\ \A e \in Edit :
              LET x == Overtakes(cs, own)[e]
              IN /\ x.at = edit[e].at /\ x.on = edit[e].on /\ x.of = edit[e].of
                 /\ x.read = edit[e].read /\ x.value = edit[e].value
                 /\ ~x.stale => ~edit[e].stale /\ ~(e # own /\ edit[e].of \in cs)
<1>1. \A x \in EditType, b \in BOOLEAN :
        LET y == [x EXCEPT !.stale = b]
        IN /\ y \in EditType /\ y.at = x.at /\ y.on = x.on /\ y.of = x.of
           /\ y.read = x.read /\ y.value = x.value /\ y.stale = b
  BY DEF EditType
<1>2. \A e \in Edit :
        Overtakes(cs, own)[e] = [edit[e] EXCEPT !.stale = edit[e].stale \/ (e # own /\ edit[e].of \in cs)]
  BY DEF Overtakes
<1>3. ASSUME NEW e \in Edit
      PROVE  LET x == Overtakes(cs, own)[e]
             IN /\ x \in EditType
                /\ x.at = edit[e].at /\ x.on = edit[e].on /\ x.of = edit[e].of
                /\ x.read = edit[e].read /\ x.value = edit[e].value
                /\ ~x.stale => ~edit[e].stale /\ ~(e # own /\ edit[e].of \in cs)
  <2>1. PICK b \in BOOLEAN : b = (edit[e].stale \/ (e # own /\ edit[e].of \in cs))
    OBVIOUS
  <2>2. PICK x : x = Overtakes(cs, own)[e]
    OBVIOUS
  <2>3. x = [edit[e] EXCEPT !.stale = b]
    BY <1>2, <2>1, <2>2
  <2>4. /\ x \in EditType
        /\ x.at = edit[e].at /\ x.on = edit[e].on /\ x.of = edit[e].of
        /\ x.read = edit[e].read /\ x.value = edit[e].value /\ x.stale = b
    BY <1>1, <2>3
  <2>5. ~x.stale => ~edit[e].stale /\ ~(e # own /\ edit[e].of \in cs)
    BY <2>1, <2>4
  <2> QED BY <2>2, <2>4, <2>5
<1>4. Overtakes(cs, own) \in [Edit -> EditType]
  <2>1. \A e \in Edit : Overtakes(cs, own)[e] \in EditType
    BY <1>3
  <2> QED BY <2>1 DEF Overtakes
<1> QED BY <1>3, <1>4

\* Encryption changes the key and nothing else.
LEMMA EncryptFacts ==
  ASSUME NEW stored \in Secret, NEW ring \in Ring, ring # <<>>
  PROVE  /\ Encrypt(stored, ring) \in Secret
         /\ Encrypt(stored, ring).value = stored.value
         /\ Encrypt(stored, ring).key = ring[1]
<1>1. ring[1] \in Nat
  BY DEF Ring
<1> QED BY <1>1 DEF Encrypt, Secret

\* seal_fields leaves a cipher, and encrypts a plaintext under the server's current key.
LEMMA SealFacts ==
  ASSUME NEW stored \in Secret, NEW ring \in Ring, stored.key = Plain => ring # <<>>
  PROVE  /\ Seal(stored, ring) \in Secret
         /\ Seal(stored, ring).value = stored.value
         /\ Seal(stored, ring).key = IF stored.key = Plain THEN ring[1] ELSE stored.key
BY EncryptFacts DEF Seal

LEMMA ExplicitFacts ==
  ASSUME NEW stored \in Secret, NEW b \in BOOLEAN
  PROVE  LET y == [stored EXCEPT !.explicit = b]
         IN y \in Secret /\ y.value = stored.value /\ y.key = stored.key
BY DEF Secret

LEMMA RingFacts ==
  /\ \A ring \in Ring : ring # <<>> => ring[1] \in Nat \ {Plain} /\ Has(ring, ring[1])
  /\ \A ring \in Ring, k \in Nat \ {Plain} :
       /\ <<k>> \o ring \in Ring
       /\ \A x : Has(ring, x) => Has(<<k>> \o ring, x)
  /\ \A ring \in Ring : ring # <<>> => <<ring[1]>> \in Ring
  /\ \A ring \in Ring : \A k : <<k>> \o ring # ring
  /\ \A ring \in Ring : \A k : Len(ring) = 2 => <<k>> # ring
<1>1. \A ring \in Ring : ring # <<>> => ring[1] \in Nat \ {Plain} /\ 1 \in DOMAIN ring
  BY DEF Ring
<1>2. \A ring \in Ring : ring # <<>> => Has(ring, ring[1])
  BY <1>1 DEF Has
<1>3. \A ring \in Ring, k \in Nat \ {Plain} : <<k>> \o ring \in Ring
  BY DEF Ring
<1>4. ASSUME NEW ring \in Ring, NEW k \in Nat \ {Plain}, NEW x, Has(ring, x)
      PROVE  Has(<<k>> \o ring, x)
  <2>1. PICK i \in DOMAIN ring : ring[i] = x
    BY <1>4 DEF Has
  <2>2. i \in 1..Len(ring) /\ Len(<<k>> \o ring) = 1 + Len(ring)
    BY <2>1 DEF Ring
  <2>3. i + 1 \in 1..Len(<<k>> \o ring) /\ (<<k>> \o ring)[i + 1] = ring[i]
    BY <2>2 DEF Ring
  <2>4. i + 1 \in DOMAIN (<<k>> \o ring)
    BY <2>3, <1>3 DEF Ring
  <2> QED BY <2>1, <2>3, <2>4 DEF Has
<1>5. \A ring \in Ring : ring # <<>> => <<ring[1]>> \in Ring
  BY <1>1 DEF Ring
<1>6. ASSUME NEW ring \in Ring, NEW k PROVE <<k>> \o ring # ring
  <2>1. Len(ring) \in Nat /\ Len(<<k>> \o ring) = 1 + Len(ring)
    BY DEF Ring
  <2> QED BY <2>1
<1>7. ASSUME NEW ring \in Ring, NEW k, Len(ring) = 2 PROVE <<k>> # ring
  <2>1. Len(<<k>>) = 1
    OBVIOUS
  <2> QED BY <1>7, <2>1
<1> QED BY <1>1, <1>2, <1>3, <1>4, <1>5, <1>6, <1>7

\* The forms in which the job is updated.
LEMMA JobUpdates ==
  ASSUME job \in JobType
  PROVE  /\ \A s \in JobSteps :
              LET j == [job EXCEPT !.at = s]
              IN /\ j \in JobType /\ j.at = s /\ j.keys = job.keys /\ j.read = job.read
                 /\ j.stale = job.stale /\ j.settled = job.settled
         /\ \A cs \in SUBSET Connector :
              LET j == [job EXCEPT !.stale = cs]
              IN /\ j \in JobType /\ j.at = job.at /\ j.keys = job.keys /\ j.read = job.read
                 /\ j.stale = cs /\ j.settled = job.settled
         /\ LET j == [job EXCEPT !.settled = FALSE]
            IN /\ j \in JobType /\ j.at = job.at /\ j.keys = job.keys /\ j.read = job.read
               /\ j.stale = job.stale /\ j.settled = FALSE
<1>1. \A s \in JobSteps :
        LET j == [job EXCEPT !.at = s]
        IN /\ j \in JobType /\ j.at = s /\ j.keys = job.keys /\ j.read = job.read
           /\ j.stale = job.stale /\ j.settled = job.settled
  BY DEF JobType
<1>2. \A cs \in SUBSET Connector :
        LET j == [job EXCEPT !.stale = cs]
        IN /\ j \in JobType /\ j.at = job.at /\ j.keys = job.keys /\ j.read = job.read
           /\ j.stale = cs /\ j.settled = job.settled
  BY DEF JobType
<1>3. LET j == [job EXCEPT !.settled = FALSE]
      IN /\ j \in JobType /\ j.at = job.at /\ j.keys = job.keys /\ j.read = job.read
         /\ j.stale = job.stale /\ j.settled = FALSE
  BY DEF JobType
<1> QED BY <1>1, <1>2, <1>3

\* An edit under way.
LEMMA EditUnderWay ==
  ASSUME CredentialsInv, NEW e \in Edit, edit[e].at = "read"
  PROVE  /\ edit[e].of \in Connector /\ edit[e].on \in Instance
         /\ edit[e].read \in Secret /\ edit[e].read # None /\ edit[e].value \in Nat
         /\ ~edit[e].stale => edit[e].read = config[edit[e].of]
BY DEF CredentialsInv, EditInv

LEMMA CreateKeeps ==
  ASSUME CredentialsInv, NEW c \in Connector, NEW i \in Instance, Create(c, i)
  PROVE  CredentialsInv'
<1>1. CredentialsTypeOK /\ keys[i] \in Ring /\ keys[i] # <<>> /\ config[c] = None /\ values \in Nat
  BY DEF CredentialsInv, CredentialsTypeOK, Create, Available
<1>2. PICK plain \in Secret : plain = [value |-> values + 1, key |-> Plain, explicit |-> TRUE]
  <2>1. values + 1 \in Nat /\ Plain \in Nat
    BY <1>1 DEF Plain
  <2>2. [value |-> values + 1, key |-> Plain, explicit |-> TRUE] \in Secret
    BY <2>1 DEF Secret
  <2> QED BY <2>2
<1>3. plain.value = values + 1 /\ plain.key = Plain
  BY <1>2
<1>4. PICK stored \in Secret : stored = Seal(plain, keys[i])
  BY <1>1, SealFacts
<1>5. stored.value = values + 1 /\ stored.key = keys[i][1]
  BY <1>1, <1>3, <1>4, SealFacts
<1>6. /\ config' = [config EXCEPT ![c] = stored] /\ values' = values + 1
      /\ entered' = [entered EXCEPT ![c] = values + 1]
      /\ late' = (IF SealedLate(keys[i]) THEN late \union {c} ELSE late \ {c})
      /\ UNCHANGED <<env, keys, edit, job, overtaken>>
  BY <1>2, <1>4 DEF Create
<1>7. /\ config'[c] = stored /\ entered'[c] = values + 1
      /\ \A d \in Connector \ {c} : config'[d] = config[d] /\ entered'[d] = entered[d]
  BY <1>1, <1>6 DEF CredentialsTypeOK
<1>8. CredentialsTypeOK'
  BY <1>1, <1>6 DEF CredentialsTypeOK
<1>9. RingInv' /\ SettledInv'
  BY <1>6 DEF CredentialsInv, RingInv, SettledInv, Everywhere
<1>10. JobInv'
  BY <1>1, <1>6, <1>7 DEF CredentialsInv, JobInv
<1>11. MigratedInv'
  <2>1. job.settled => keys[i] = env
    BY DEF CredentialsInv, SettledInv, Everywhere
  <2>2. job.settled => env # <<>> /\ stored.key = env[1]
    BY <1>1, <1>5, <2>1
  <2> QED BY <1>6, <1>7, <2>2 DEF CredentialsInv, MigratedInv, UnderFirst, Opens
<1>12. Has(env, stored.key)
  BY <1>1, <1>5 DEF CredentialsInv, RingInv
<1>14. LateInv'
  <2>1. c \notin late' => ~(job.keys = env /\ job.at \in {"credentials", "done"} /\ keys[i][1] # env[1])
    BY <1>6 DEF SealedLate
  <2>2. env # <<>>
    BY <1>12 DEF Has
  <2>3. Everywhere => keys[i] = env
    BY DEF Everywhere
  <2> QED BY <1>5, <1>6, <1>7, <2>1, <2>2, <2>3 DEF CredentialsInv, LateInv, Current, Everywhere
<1>15. KeptInv'
  BY <1>5, <1>6, <1>7, <1>12 DEF CredentialsInv, KeptInv, Opens
<1>13. ASSUME NEW e \in Edit PROVE EditInv(e)'
  <2>1. edit[e].at = "read" /\ ~edit[e].stale => edit[e].of # c
    BY <1>1, EditUnderWay
  <2> QED BY <1>6, <1>7, <2>1 DEF CredentialsInv, EditInv
<1> QED BY <1>8, <1>9, <1>10, <1>11, <1>13, <1>14, <1>15 DEF CredentialsInv

LEMMA EditReadsKeeps ==
  ASSUME CredentialsInv, NEW e \in Edit, NEW c \in Connector, NEW i \in Instance, EditReads(e, c, i)
  PROVE  CredentialsInv'
<1>1. CredentialsTypeOK /\ config[c] \in Secret /\ config[c] # None /\ values \in Nat
  BY DEF CredentialsInv, CredentialsTypeOK, EditReads
<1>2. PICK sends \in {Masked} \union (IF values < MaxValues THEN {values + 1} ELSE {}) :
        /\ edit' = [edit EXCEPT ![e] = [at |-> "read", on |-> i, of |-> c, read |-> config[c],
                                       value |-> sends, stale |-> FALSE]]
        /\ values' = IF sends = Masked THEN values ELSE sends
  BY DEF EditReads
<1>3. sends \in Nat /\ values' \in Nat
  BY <1>1, <1>2 DEF Masked
<1>4. UNCHANGED <<env, keys, config, job, entered, overtaken, late>>
  BY DEF EditReads
<1>5. PICK new : new = [at |-> "read", on |-> i, of |-> c, read |-> config[c], value |-> sends, stale |-> FALSE]
  OBVIOUS
<1>6. new \in EditType /\ new.of = c /\ new.on = i /\ new.read = config[c] /\ new.value = sends
  BY <1>1, <1>3, <1>5 DEF EditType
<1>7. edit' = [edit EXCEPT ![e] = new]
  BY <1>2, <1>5
<1>8. edit'[e] = new /\ \A f \in Edit \ {e} : edit'[f] = edit[f]
  BY <1>1, <1>7 DEF CredentialsTypeOK
<1>9. CredentialsTypeOK'
  BY <1>1, <1>3, <1>4, <1>6, <1>7 DEF CredentialsTypeOK
<1>10. RingInv' /\ SettledInv' /\ JobInv' /\ LateInv' /\ MigratedInv' /\ KeptInv'
  BY <1>4 DEF CredentialsInv, RingInv, SettledInv, Everywhere, JobInv, LateInv, MigratedInv, KeptInv, Current, UnderFirst, Opens
<1>11. ASSUME NEW f \in Edit PROVE EditInv(f)'
  BY <1>1, <1>3, <1>4, <1>6, <1>8 DEF CredentialsInv, EditInv
<1> QED BY <1>9, <1>10, <1>11 DEF CredentialsInv

LEMMA EditEndsKeeps ==
  ASSUME CredentialsInv, NEW e \in Edit, EditEnds(e)
  PROVE  CredentialsInv'
<1>1. edit' = [edit EXCEPT ![e] = NoEdit] /\ UNCHANGED <<env, keys, config, job, entered, overtaken, late, values>>
  BY DEF EditEnds
<1>2. edit'[e] = NoEdit /\ \A f \in Edit \ {e} : edit'[f] = edit[f]
  BY <1>1 DEF CredentialsInv, CredentialsTypeOK
<1>3. CredentialsTypeOK'
  BY <1>1, NoEditType DEF CredentialsInv, CredentialsTypeOK
<1>4. RingInv' /\ SettledInv' /\ JobInv' /\ LateInv' /\ MigratedInv' /\ KeptInv'
  BY <1>1 DEF CredentialsInv, RingInv, SettledInv, Everywhere, JobInv, LateInv, MigratedInv, KeptInv, Current, UnderFirst, Opens
<1>5. ASSUME NEW f \in Edit PROVE EditInv(f)'
  BY <1>1, <1>2, NoEditType DEF CredentialsInv, EditInv
<1> QED BY <1>3, <1>4, <1>5 DEF CredentialsInv

\* An edit commits what it read, which the migration may have overtaken, and makes what the
\* migration has read stale in turn.
LEMMA EditStoresKeeps ==
  ASSUME CredentialsInv, NEW e \in Edit, EditStores(e)
  PROVE  CredentialsInv'
<1> DEFINE c == edit[e].of
           i == edit[e].on
           kept == edit[e].value = Masked
<1>1. edit[e].at = "read" /\ UNCHANGED <<env, keys, values>>
  BY DEF EditStores
<1>2. /\ c \in Connector /\ i \in Instance
      /\ edit[e].read \in Secret /\ edit[e].read # None /\ edit[e].value \in Nat
      /\ ~edit[e].stale => edit[e].read = config[c]
  BY <1>1, EditUnderWay
<1>3. CredentialsTypeOK /\ keys[i] \in Ring /\ job \in JobType /\ edit \in [Edit -> EditType]
  BY <1>2 DEF CredentialsInv, CredentialsTypeOK
<1>4. PICK sent \in Secret :
        sent = IF kept THEN edit[e].read ELSE [edit[e].read EXCEPT !.value = edit[e].value, !.key = Plain]
  <2>1. [edit[e].read EXCEPT !.value = edit[e].value, !.key = Plain] \in Secret
    BY <1>2 DEF Secret, Plain
  <2> QED BY <1>2, <2>1
<1>5. kept => sent = edit[e].read
  BY <1>4
<1>6. ~kept => sent.value = edit[e].value /\ sent.key = Plain
  BY <1>2, <1>4 DEF Secret
<1>7. sent.key = Plain => keys[i] # <<>>
  BY <1>4 DEF EditStores, Available
<1>8. PICK sealed \in Secret : sealed = Seal(sent, keys[i])
  BY <1>3, <1>7, SealFacts
<1>9. PICK stored \in Secret : stored = [sealed EXCEPT !.explicit = TRUE]
  BY ExplicitFacts
<1>10. stored.value = sent.value /\ stored.key = IF sent.key = Plain THEN keys[i][1] ELSE sent.key
  <2>1. sealed.value = sent.value /\ sealed.key = IF sent.key = Plain THEN keys[i][1] ELSE sent.key
    BY <1>3, <1>7, <1>8, SealFacts
  <2>2. stored.value = sealed.value /\ stored.key = sealed.key
    BY <1>9, ExplicitFacts
  <2> QED BY <2>1, <2>2
<1>11. /\ config' = [config EXCEPT ![c] = stored]
       /\ edit' = [Overtakes({c}, e) EXCEPT ![e] = NoEdit]
       /\ job' = [job EXCEPT !.stale = job.stale \union {c}]
       /\ entered' = IF kept THEN entered ELSE [entered EXCEPT ![c] = edit[e].value]
       /\ overtaken' = IF ~kept THEN overtaken \ {c}
                      ELSE IF edit[e].stale THEN overtaken \union {c} ELSE overtaken
       /\ late' = IF sent.key # Plain THEN late
                  ELSE IF SealedLate(keys[i]) THEN late \union {c} ELSE late \ {c}
  BY <1>4, <1>8, <1>9 DEF EditStores
<1>12. config'[c] = stored /\ \A d \in Connector \ {c} : config'[d] = config[d]
  BY <1>2, <1>3, <1>11 DEF CredentialsTypeOK
<1>13. \A d \in Connector \ {c} : /\ entered'[d] = entered[d] /\ (d \in overtaken' <=> d \in overtaken)
                                  /\ (d \in late' <=> d \in late)
  BY <1>2, <1>3, <1>11 DEF CredentialsTypeOK
<1>14. job.stale \union {c} \in SUBSET Connector
  BY <1>2, <1>3 DEF JobType
<1>15. /\ job' \in JobType /\ job'.at = job.at /\ job'.keys = job.keys /\ job'.read = job.read
       /\ job'.stale = job.stale \union {c} /\ job'.settled = job.settled
  BY <1>3, <1>11, <1>14, JobUpdates
<1>16. /\ edit'[e] = NoEdit
       /\ \A f \in Edit \ {e} : edit'[f] = Overtakes({c}, e)[f]
       /\ edit' \in [Edit -> EditType]
  BY <1>3, <1>11, OvertakesFacts, NoEditType
<1>17. CredentialsTypeOK'
  BY <1>1, <1>2, <1>3, <1>11, <1>15, <1>16 DEF CredentialsTypeOK
<1>18. RingInv' /\ SettledInv'
  BY <1>1, <1>15 DEF CredentialsInv, RingInv, SettledInv, Everywhere
<1>19. JobInv'
  BY <1>12, <1>15 DEF CredentialsInv, JobInv
<1>20. c \notin overtaken' =>
         \/ ~kept
         \/ kept /\ sent = config[c] /\ config[c] # None /\ c \notin overtaken /\ entered' = entered
  BY <1>2, <1>5, <1>11
<1>21. sent.key = Plain => /\ Has(env, stored.key)
                           /\ job.settled => env # <<>> /\ stored.key = env[1]
  <2>1. ASSUME sent.key = Plain PROVE Has(env, stored.key)
    BY <1>2, <1>7, <1>10, <2>1 DEF CredentialsInv, RingInv
  <2>2. ASSUME sent.key = Plain, job.settled PROVE env # <<>> /\ stored.key = env[1]
    BY <1>2, <1>7, <1>10, <2>2 DEF CredentialsInv, SettledInv, Everywhere
  <2> QED BY <2>1, <2>2
<1>22. MigratedInv'
  <2>1. SUFFICES ASSUME job.settled, env # <<>>, NEW d \in Connector \ overtaken'
                 PROVE  /\ job.at = "done" =>
                             config'[d] = None \/ UnderFirst(config'[d]) \/ ~Opens(config'[d])
                        /\ job.at = "credentials" =>
                             \/ config'[d] = None \/ UnderFirst(config'[d]) \/ ~Opens(config'[d])
                             \/ job.read[d] # None /\ ~UnderFirst(job.read[d]) /\ Opens(job.read[d])
    BY <1>1, <1>15 DEF MigratedInv, UnderFirst, Opens
  <2>2. CASE d # c
    BY <1>12, <1>13, <2>1, <2>2 DEF CredentialsInv, MigratedInv
  <2>3. CASE d = c /\ sent.key = Plain
    BY <1>12, <1>21, <2>1, <2>3 DEF UnderFirst
  <2>4. CASE d = c /\ sent.key # Plain
    <3>1. sent = config[c] /\ config[c] # None /\ c \notin overtaken
      BY <1>6, <1>20, <2>1, <2>4
    <3>2. (UnderFirst(config'[c]) <=> UnderFirst(config[c])) /\ (Opens(config'[c]) <=> Opens(config[c]))
      BY <1>10, <1>12, <2>4, <3>1 DEF UnderFirst, Opens
    <3> QED BY <1>2, <2>1, <2>4, <3>1, <3>2 DEF CredentialsInv, MigratedInv
  <2> QED BY <2>2, <2>3, <2>4
<1>23. KeptInv'
  <2>1. SUFFICES ASSUME NEW d \in Connector, d \notin overtaken', config'[d] # None
                 PROVE  config'[d].value = entered'[d] /\ (Opens(config'[d]) \/ d \in late')
    BY <1>1 DEF KeptInv, Opens
  <2>2. CASE d # c
    BY <1>12, <1>13, <2>1, <2>2 DEF CredentialsInv, KeptInv
  <2>3. CASE d = c /\ ~kept
    <3>1. entered'[c] = edit[e].value
      BY <1>2, <1>3, <1>11, <2>3 DEF CredentialsTypeOK
    <3> QED BY <1>6, <1>10, <1>12, <1>21, <2>3, <3>1 DEF Opens
  <2>4. CASE d = c /\ kept
    <3>1. sent = config[c] /\ config[c] # None /\ c \notin overtaken /\ entered' = entered
      BY <1>20, <2>1, <2>4
    <3>2. config[c].value = entered[c] /\ (Opens(config[c]) \/ c \in late)
      BY <1>2, <3>1 DEF CredentialsInv, KeptInv
    <3>3. sent.key # Plain => Opens(config'[c]) \/ c \in late'
      BY <1>10, <1>11, <1>12, <3>1, <3>2 DEF Opens
    <3>4. sent.key = Plain => Opens(config'[c])
      BY <1>12, <1>21 DEF Opens
    <3> QED BY <1>10, <1>12, <2>4, <3>1, <3>2, <3>3, <3>4
  <2> QED BY <2>2, <2>3, <2>4
<1>25. LateInv'
  <2>1. SUFFICES ASSUME NEW d \in Connector \ (overtaken' \union late')
                 PROVE  /\ (job.at = "done" /\ job.keys = env) \/ Everywhere =>
                             config'[d] = None \/ Current(config'[d])
                        /\ job.at = "credentials" /\ job.keys = env =>
                             \/ config'[d] = None \/ Current(config'[d])
                             \/ job.read[d] # None /\ ~Current(job.read[d]) /\ Has(env, job.read[d].key)
    BY <1>1, <1>15 DEF LateInv, Current, Everywhere
  <2>2. CASE d # c
    BY <1>12, <1>13, <2>1, <2>2 DEF CredentialsInv, LateInv
  <2>3. CASE d = c /\ sent.key = Plain
    <3>1. ~(job.keys = env /\ job.at \in {"credentials", "done"} /\ keys[i][1] # env[1])
      BY <1>11, <2>1, <2>3 DEF SealedLate
    <3>2. Everywhere => keys[i] = env
      BY <1>2 DEF Everywhere
    <3>3. env # <<>> /\ stored.key = keys[i][1]
      BY <1>10, <1>21, <2>3 DEF Has
    <3> QED BY <1>12, <2>3, <3>1, <3>2, <3>3 DEF Current
  <2>4. CASE d = c /\ sent.key # Plain
    <3>1. sent = config[c] /\ config[c] # None /\ c \notin overtaken /\ c \notin late
      BY <1>6, <1>11, <1>20, <2>1, <2>4
    <3>2. Current(config'[c]) <=> Current(config[c])
      BY <1>10, <1>12, <2>4, <3>1 DEF Current
    <3> QED BY <1>2, <2>1, <2>4, <3>1, <3>2 DEF CredentialsInv, LateInv
  <2> QED BY <2>2, <2>3, <2>4
<1>24. ASSUME NEW f \in Edit PROVE EditInv(f)'
  <2>1. CASE f = e
    BY <1>16, <2>1, NoEditType DEF EditInv
  <2>2. CASE f # e
    <3>1. /\ edit'[f].at = edit[f].at /\ edit'[f].on = edit[f].on /\ edit'[f].of = edit[f].of
          /\ edit'[f].read = edit[f].read /\ edit'[f].value = edit[f].value
          /\ ~edit'[f].stale => ~edit[f].stale /\ edit[f].of # c
      <4>1. edit'[f] = Overtakes({c}, e)[f]
        BY <1>16, <2>2
      <4> QED BY <1>3, <2>2, <4>1, OvertakesFacts
    <3> QED BY <1>12, <3>1 DEF CredentialsInv, EditInv
  <2> QED BY <2>1, <2>2
<1> QED BY <1>17, <1>18, <1>19, <1>22, <1>23, <1>24, <1>25 DEF CredentialsInv

\* A step of the job that stores nothing.
LEMMA JobStepKeeps ==
  ASSUME CredentialsInv, job' \in JobType,
         UNCHANGED <<env, keys, config, edit, entered, overtaken, late, values>>,
         RingInv', SettledInv', JobInv', LateInv', MigratedInv'
  PROVE  CredentialsInv'
<1>1. CredentialsTypeOK' /\ KeptInv'
  BY DEF CredentialsInv, CredentialsTypeOK, KeptInv, Opens
<1>2. ASSUME NEW e \in Edit PROVE EditInv(e)'
  BY DEF CredentialsInv, EditInv
<1> QED BY <1>1, <1>2 DEF CredentialsInv

LEMMA JobStartsKeeps ==
  ASSUME CredentialsInv, JobStarts
  PROVE  CredentialsInv'
<1>1. UNCHANGED <<env, keys, config, edit, entered, overtaken, late, values>>
  BY DEF JobStarts
<1>2. PICK b \in BOOLEAN : b = \A i \in Instance : keys[i] = env
  OBVIOUS
<1>3. job' = [at |-> "addresses", keys |-> env, read |-> config, stale |-> {}, settled |-> b]
  BY <1>2 DEF JobStarts
<1>4. /\ job' \in JobType /\ job'.at = "addresses" /\ job'.keys = env /\ job'.read = config
      /\ job'.stale = {} /\ job'.settled = b
  BY <1>3 DEF CredentialsInv, CredentialsTypeOK, JobType, JobSteps
<1>5. RingInv'
  <2>1. env # <<>> => Has(env, env[1])
    BY RingFacts DEF CredentialsInv, CredentialsTypeOK
  <2> QED BY <1>1, <1>4, <2>1 DEF CredentialsInv, RingInv
<1>6. SettledInv'
  BY <1>1, <1>2, <1>4 DEF SettledInv, Everywhere
<1>7. JobInv' /\ MigratedInv' /\ LateInv'
  BY <1>1, <1>4 DEF CredentialsInv, JobInv, MigratedInv, LateInv, Everywhere, Current
<1> QED BY <1>1, <1>4, <1>5, <1>6, <1>7, JobStepKeeps

LEMMA ReadSecretsKeeps ==
  ASSUME CredentialsInv, ReadSecrets
  PROVE  CredentialsInv'
<1>1. UNCHANGED <<env, keys, config, edit, entered, overtaken, late, values>> /\ job.at = "moved"
  BY DEF ReadSecrets
<1>2. job' = [job EXCEPT !.at = "credentials", !.read = config, !.stale = {}]
  BY DEF ReadSecrets
<1>3. /\ job' \in JobType /\ job'.at = "credentials" /\ job'.keys = job.keys /\ job'.read = config
      /\ job'.stale = {} /\ job'.settled = job.settled
  BY <1>2 DEF CredentialsInv, CredentialsTypeOK, JobType, JobSteps
<1>4. RingInv' /\ SettledInv' /\ JobInv'
  BY <1>1, <1>3 DEF CredentialsInv, RingInv, SettledInv, Everywhere, JobInv
<1>5. MigratedInv'
  BY <1>1, <1>3 DEF MigratedInv, UnderFirst, Opens
<1>6. LateInv'
  <2>1. \A c \in Connector \ (overtaken \union late) :
          \/ config[c] = None \/ Current(config[c])
          \/ config[c] # None /\ ~Current(config[c]) /\ Has(env, config[c].key)
    BY DEF CredentialsInv, KeptInv, Current, Opens
  <2> QED BY <1>1, <1>3, <2>1 DEF CredentialsInv, LateInv, Current, Everywhere
<1> QED BY <1>1, <1>3, <1>4, <1>5, <1>6, JobStepKeeps

LEMMA JobFailsKeeps ==
  ASSUME CredentialsInv, JobFails
  PROVE  CredentialsInv'
<1>1. UNCHANGED <<env, keys, config, edit, entered, overtaken, late, values>>
  BY DEF JobFails
<1>2. /\ job' \in JobType /\ job'.at = "failed" /\ job'.keys = job.keys /\ job'.settled = job.settled
  <2>1. job \in JobType /\ "failed" \in JobSteps
    BY DEF CredentialsInv, CredentialsTypeOK, JobSteps
  <2> QED BY <2>1, JobUpdates DEF JobFails
<1>3. RingInv' /\ SettledInv' /\ JobInv' /\ LateInv' /\ MigratedInv'
  BY <1>1, <1>2 DEF CredentialsInv, RingInv, SettledInv, Everywhere, JobInv, LateInv, Current, MigratedInv
<1> QED BY <1>1, <1>2, <1>3, JobStepKeeps

\* What a migration's transaction leaves, of what it read, as it becomes.
LEMMA JobStoresFacts ==
  ASSUME CredentialsInv, NEW dirty \in SUBSET Connector, NEW becomes, JobStores(dirty, becomes),
         \A c \in dirty : becomes[c] \in Secret,
         late' \in SUBSET late,
         \A c \in dirty \ (job.stale \union overtaken) :
           /\ config[c] # None
           /\ becomes[c].value = config[c].value
           /\ \/ becomes[c].key = config[c].key /\ (c \in late' <=> c \in late)
              \/ Has(env, becomes[c].key),
         \A c \in Connector \ dirty : c \in late' <=> c \in late
  PROVE  /\ config' \in [Connector -> Secret \union {None}]
         /\ edit' \in [Edit -> EditType] /\ overtaken' \in SUBSET Connector
         /\ UNCHANGED <<env, keys, entered, values>>
         /\ \A c \in Connector : config'[c] = IF c \in dirty THEN becomes[c] ELSE config[c]
         /\ overtaken' = overtaken \union (dirty \intersect job.stale)
         /\ KeptInv'
         /\ \A e \in Edit : EditInv(e)'
<1>1. /\ config' = [c \in Connector |-> IF c \in dirty THEN becomes[c] ELSE config[c]]
      /\ edit' = Overtakes(dirty, None)
      /\ overtaken' = overtaken \union (dirty \intersect job.stale)
      /\ UNCHANGED <<env, keys, entered, values>>
  BY DEF JobStores
<1>2. CredentialsTypeOK
  BY DEF CredentialsInv
<1>3. config' \in [Connector -> Secret \union {None}] /\ overtaken' \in SUBSET Connector
  BY <1>1, <1>2 DEF CredentialsTypeOK
<1>4. edit \in [Edit -> EditType] /\ edit' \in [Edit -> EditType]
  BY <1>1, <1>2, OvertakesFacts DEF CredentialsTypeOK
<1>5. \A c \in Connector : config'[c] = IF c \in dirty THEN becomes[c] ELSE config[c]
  BY <1>1
<1>6. KeptInv'
  <2>1. SUFFICES ASSUME NEW c \in Connector, c \notin overtaken', config'[c] # None
                 PROVE  config'[c].value = entered[c] /\ (Opens(config'[c]) \/ c \in late')
    BY <1>1 DEF KeptInv, Opens
  <2>2. CASE c \notin dirty
    BY <1>1, <1>5, <2>1, <2>2 DEF CredentialsInv, KeptInv
  <2>3. CASE c \in dirty
    <3>1. c \in dirty \ (job.stale \union overtaken)
      BY <1>1, <2>1, <2>3
    <3>2. config[c].value = entered[c] /\ (Opens(config[c]) \/ c \in late)
      BY <3>1 DEF CredentialsInv, KeptInv
    <3> QED BY <1>5, <2>3, <3>1, <3>2 DEF Opens
  <2> QED BY <2>2, <2>3
<1>7. ASSUME NEW e \in Edit PROVE EditInv(e)'
  <2>1. e # None
    BY KeysAssumption
  <2>2. /\ edit'[e].at = edit[e].at /\ edit'[e].on = edit[e].on /\ edit'[e].of = edit[e].of
        /\ edit'[e].read = edit[e].read /\ edit'[e].value = edit[e].value
        /\ ~edit'[e].stale => ~edit[e].stale /\ edit[e].of \notin dirty
    BY <1>1, <1>4, <2>1, OvertakesFacts
  <2> QED BY <1>5, <2>2 DEF CredentialsInv, EditInv
<1> QED BY <1>1, <1>3, <1>4, <1>5, <1>6, <1>7

LEMMA MigrateAddressesKeeps ==
  ASSUME CredentialsInv, MigrateAddresses
  PROVE  CredentialsInv'
<1>1. PICK dirty \in SUBSET Connector :
        /\ dirty = {c \in Connector : job.read[c] # None /\ ~job.read[c].explicit}
        /\ JobStores(dirty, [c \in dirty |-> [job.read[c] EXCEPT !.explicit = TRUE]])
  BY DEF MigrateAddresses
<1>2. PICK becomes : becomes = [c \in dirty |-> [job.read[c] EXCEPT !.explicit = TRUE]]
  OBVIOUS
<1>3. CredentialsTypeOK /\ job \in JobType /\ job.at = "addresses"
  BY DEF CredentialsInv, CredentialsTypeOK, MigrateAddresses
<1>4. \A c \in dirty : job.read[c] \in Secret /\ job.read[c] # None
  BY <1>1, <1>3 DEF JobType
<1>5. \A c \in dirty : /\ becomes[c] \in Secret /\ becomes[c].value = job.read[c].value
                       /\ becomes[c].key = job.read[c].key
  <2>1. \A c \in dirty : becomes[c] = [job.read[c] EXCEPT !.explicit = TRUE]
    BY <1>2
  <2> QED BY <1>4, <2>1, ExplicitFacts
<1>6. \A c \in dirty \ job.stale : job.read[c] = config[c]
  BY <1>1, <1>3, <1>4 DEF CredentialsInv, JobInv
<1>7. JobStores(dirty, becomes)
  BY <1>1, <1>2
<1>8. \A c \in dirty \ (job.stale \union overtaken) :
        /\ config[c] # None
        /\ becomes[c].value = config[c].value
        /\ becomes[c].key = config[c].key
  BY <1>4, <1>5, <1>6
<1>13. late' = late
  BY DEF MigrateAddresses
<1>9. /\ job' \in JobType /\ job'.at = "moved" /\ job'.keys = job.keys /\ job'.settled = job.settled
  <2>1. "moved" \in JobSteps
    BY DEF JobSteps
  <2> QED BY <1>3, <2>1, JobUpdates DEF MigrateAddresses
<1>10. /\ config' \in [Connector -> Secret \union {None}]
       /\ edit' \in [Edit -> EditType] /\ overtaken' \in SUBSET Connector
       /\ UNCHANGED <<env, keys, entered, values>>
       /\ KeptInv' /\ \A e \in Edit : EditInv(e)'
       /\ \A c \in Connector : config'[c] = IF c \in dirty THEN becomes[c] ELSE config[c]
       /\ overtaken' = overtaken \union (dirty \intersect job.stale)
  BY <1>5, <1>7, <1>8, <1>13, JobStoresFacts
<1>11. CredentialsTypeOK'
  BY <1>3, <1>9, <1>10, <1>13 DEF CredentialsTypeOK
<1>12. RingInv' /\ SettledInv' /\ JobInv' /\ MigratedInv'
  BY <1>3, <1>9, <1>10 DEF CredentialsInv, RingInv, SettledInv, Everywhere, JobInv, MigratedInv
<1>14. LateInv'
  <2>1. SUFFICES ASSUME NEW c \in Connector \ (overtaken' \union late), Everywhere
                 PROVE  config'[c] = None \/ Current(config'[c])
    BY <1>9, <1>10, <1>13 DEF LateInv, Everywhere, Current
  <2>2. config[c] = None \/ Current(config[c])
    BY <1>10, <2>1 DEF CredentialsInv, LateInv
  <2>3. CASE c \in dirty
    <3>1. config[c] # None /\ becomes[c].key = config[c].key
      BY <1>8, <1>10, <2>1, <2>3
    <3> QED BY <1>10, <2>2, <2>3, <3>1 DEF Current
  <2>4. CASE c \notin dirty
    BY <1>10, <2>2, <2>4
  <2> QED BY <2>3, <2>4
<1> QED BY <1>10, <1>11, <1>12, <1>14 DEF CredentialsInv

LEMMA MigrateCredentialsKeeps ==
  ASSUME CredentialsInv, MigrateCredentials
  PROVE  CredentialsInv'
<1>1. PICK dirty \in SUBSET Connector :
        /\ dirty = {c \in Connector :
                      /\ job.read[c] # None
                      /\ NeedsReencryption(job.read[c], job.keys)
                      /\ Available(job.keys)
                      /\ job.read[c].key = Plain \/ Has(job.keys, job.read[c].key)}
        /\ JobStores(dirty, [c \in dirty |-> Encrypt(job.read[c], job.keys)])
        /\ late' = late \ dirty
  BY DEF MigrateCredentials
<1>2. PICK becomes : becomes = [c \in dirty |-> Encrypt(job.read[c], job.keys)]
  OBVIOUS
<1>3. CredentialsTypeOK /\ job \in JobType /\ job.at = "credentials" /\ job.keys \in Ring
  BY DEF CredentialsInv, CredentialsTypeOK, JobType, MigrateCredentials
<1>4. \A c \in dirty : job.read[c] \in Secret /\ job.read[c] # None /\ job.keys # <<>>
  BY <1>1, <1>3 DEF JobType, Available
<1>5. \A c \in dirty : /\ becomes[c] \in Secret /\ becomes[c].value = job.read[c].value
                       /\ becomes[c].key = job.keys[1]
  <2>1. \A c \in dirty : becomes[c] = Encrypt(job.read[c], job.keys)
    BY <1>2
  <2> QED BY <1>3, <1>4, <2>1, EncryptFacts
<1>6. \A c \in dirty \ job.stale : job.read[c] = config[c]
  BY <1>1, <1>3, <1>4 DEF CredentialsInv, JobInv
<1>7. JobStores(dirty, becomes)
  BY <1>1, <1>2
<1>8. \A c \in dirty \ (job.stale \union overtaken) :
        /\ config[c] # None
        /\ becomes[c].value = config[c].value
        /\ Has(env, becomes[c].key)
  <2>1. job.keys # <<>> => Has(env, job.keys[1])
    BY <1>3 DEF CredentialsInv, RingInv
  <2> QED BY <1>4, <1>5, <1>6, <2>1
<1>9. /\ job' \in JobType /\ job'.at = "done" /\ job'.keys = job.keys /\ job'.settled = job.settled
  <2>1. "done" \in JobSteps
    BY DEF JobSteps
  <2> QED BY <1>3, <2>1, JobUpdates DEF MigrateCredentials
<1>10. /\ config' \in [Connector -> Secret \union {None}]
       /\ edit' \in [Edit -> EditType] /\ overtaken' \in SUBSET Connector
       /\ UNCHANGED <<env, keys, entered, values>>
       /\ \A c \in Connector : config'[c] = IF c \in dirty THEN becomes[c] ELSE config[c]
       /\ overtaken' = overtaken \union (dirty \intersect job.stale)
       /\ KeptInv' /\ \A e \in Edit : EditInv(e)'
  BY <1>1, <1>5, <1>7, <1>8, JobStoresFacts
<1>11. CredentialsTypeOK'
  BY <1>1, <1>3, <1>9, <1>10 DEF CredentialsTypeOK
<1>12. RingInv' /\ SettledInv' /\ JobInv'
  BY <1>3, <1>9, <1>10 DEF CredentialsInv, RingInv, SettledInv, Everywhere, JobInv
<1>13. MigratedInv'
  <2>1. SUFFICES ASSUME job.settled, env # <<>>, NEW c \in Connector, c \notin overtaken'
                 PROVE  config'[c] = None \/ UnderFirst(config'[c]) \/ ~Opens(config'[c])
    BY <1>9, <1>10 DEF MigratedInv, UnderFirst, Opens
  <2>2. job.keys = env /\ c \notin overtaken
    BY <1>10, <2>1 DEF CredentialsInv, SettledInv
  <2>3. CASE c \in dirty
    BY <1>4, <1>5, <1>10, <2>2, <2>3 DEF UnderFirst
  <2>4. CASE c \notin dirty
    <3>1. ~(job.read[c] # None /\ ~UnderFirst(job.read[c]) /\ Opens(job.read[c]))
      BY <1>1, <2>1, <2>2, <2>4 DEF UnderFirst, Opens, NeedsReencryption, Available
    <3>2. config[c] = None \/ UnderFirst(config[c]) \/ ~Opens(config[c])
      BY <1>3, <2>1, <2>2, <3>1 DEF CredentialsInv, MigratedInv
    <3> QED BY <1>10, <2>4, <3>2
  <2> QED BY <2>3, <2>4
<1>14. LateInv'
  <2>1. SUFFICES ASSUME NEW c \in Connector \ (overtaken' \union late'), job.keys = env \/ Everywhere
                 PROVE  config'[c] = None \/ Current(config'[c])
    BY <1>9, <1>10 DEF LateInv, Everywhere, Current
  <2>2. job.keys = env /\ c \notin overtaken
    BY <1>10, <2>1, KeysAssumption DEF CredentialsInv, RingInv, Everywhere
  <2>3. CASE c \in dirty
    BY <1>4, <1>5, <1>10, <2>2, <2>3 DEF Current
  <2>4. CASE c \notin dirty
    <3>1. c \notin late
      BY <1>1, <2>1, <2>4
    <3>2. ~(job.read[c] # None /\ ~Current(job.read[c]) /\ Has(env, job.read[c].key))
      <4>1. SUFFICES ASSUME job.read[c] # None, ~Current(job.read[c]), Has(env, job.read[c].key)
                     PROVE  FALSE
        OBVIOUS
      <4>2. env # <<>>
        BY <4>1 DEF Has
      <4>3. NeedsReencryption(job.read[c], job.keys) /\ Available(job.keys)
        BY <2>2, <4>1, <4>2 DEF NeedsReencryption, Available, Current
      <4> QED BY <1>1, <2>2, <2>4, <4>1, <4>3
    <3>3. config[c] = None \/ Current(config[c])
      BY <1>3, <2>2, <3>1, <3>2 DEF CredentialsInv, LateInv
    <3> QED BY <1>10, <2>4, <3>3
  <2> QED BY <2>3, <2>4
<1> QED BY <1>10, <1>11, <1>12, <1>13, <1>14 DEF CredentialsInv

LEMMA PrependKeeps ==
  ASSUME CredentialsInv, Prepend
  PROVE  CredentialsInv'
<1>1. CredentialsTypeOK /\ env \in Ring /\ job \in JobType
  BY DEF CredentialsInv, CredentialsTypeOK
<1>2. PICK k : k = (IF env = <<>> THEN 1 ELSE env[1] + 1) /\ env' = <<k>> \o env
  BY DEF Prepend
<1>3. k \in Nat \ {Plain}
  BY <1>1, <1>2, RingFacts DEF Plain
<1>4. env' \in Ring /\ \A x : Has(env, x) => Has(env', x)
  BY <1>1, <1>2, <1>3, RingFacts
<1>5. UNCHANGED <<keys, config, edit, entered, overtaken, late, values>>
  BY DEF Prepend
<1>6. /\ job' \in JobType /\ job'.at = job.at /\ job'.keys = job.keys /\ job'.read = job.read
      /\ job'.stale = job.stale /\ job'.settled = FALSE
  BY <1>1, JobUpdates DEF Prepend
<1>7. CredentialsTypeOK'
  BY <1>1, <1>4, <1>5, <1>6 DEF CredentialsTypeOK
<1>12. /\ \A i \in Instance : keys[i] = env
       /\ job.keys = env /\ env' # env /\ ~Everywhere'
  <2>1. \A i \in Instance : keys[i] = env
    BY DEF Prepend, Everywhere
  <2>2. job.keys = env
    BY <2>1, KeysAssumption DEF CredentialsInv, RingInv
  <2>3. env' # env
    BY <1>1, <1>2, RingFacts
  <2> QED BY <1>5, <2>1, <2>2, <2>3, KeysAssumption DEF Everywhere
<1>8. RingInv'
  BY <1>4, <1>5, <1>6, <1>12 DEF CredentialsInv, RingInv
<1>9. SettledInv' /\ MigratedInv' /\ JobInv' /\ LateInv'
  BY <1>5, <1>6, <1>12 DEF CredentialsInv, SettledInv, MigratedInv, JobInv, LateInv
<1>10. KeptInv'
  BY <1>4, <1>5 DEF CredentialsInv, KeptInv, Opens
<1>11. ASSUME NEW e \in Edit PROVE EditInv(e)'
  BY <1>5 DEF CredentialsInv, EditInv
<1> QED BY <1>7, <1>8, <1>9, <1>10, <1>11 DEF CredentialsInv

LEMMA DropOldKeeps ==
  ASSUME CredentialsInv, DropOld
  PROVE  CredentialsInv'
<1>1. CredentialsTypeOK /\ env \in Ring /\ job \in JobType
  BY DEF CredentialsInv, CredentialsTypeOK
<1>2. /\ Everywhere /\ env # <<>> /\ env' = <<env[1]>>
      /\ UNCHANGED <<keys, config, edit, entered, overtaken, late, values>>
  <2>1. env # <<>>
    <3>1. Len(env) = 2
      BY DEF DropOld
    <3>2. Len(<<>>) = 0
      OBVIOUS
    <3> QED BY <3>1, <3>2
  <2> QED BY <2>1 DEF DropOld
<1>3. env' \in Ring /\ Has(env', env[1])
  <2>1. <<env[1]>> \in Ring /\ <<env[1]>> # <<>> /\ <<env[1]>>[1] = env[1]
    BY <1>1, <1>2, RingFacts
  <2> QED BY <1>2, <2>1, RingFacts
<1>4. /\ job' \in JobType /\ job'.at = job.at /\ job'.keys = job.keys /\ job'.read = job.read
      /\ job'.stale = job.stale /\ job'.settled = FALSE
  BY <1>1, JobUpdates DEF DropOld
<1>5. CredentialsTypeOK'
  BY <1>1, <1>2, <1>3, <1>4 DEF CredentialsTypeOK
<1>10. /\ \A i \in Instance : keys[i] = env
       /\ job.keys = env /\ env' # env
  <2>1. \A i \in Instance : keys[i] = env
    BY <1>2 DEF Everywhere
  <2>2. job.keys = env
    BY <2>1, KeysAssumption DEF CredentialsInv, RingInv
  <2>3. env' # env
    BY <1>1, <1>2, RingFacts DEF DropOld
  <2> QED BY <2>1, <2>2, <2>3
<1>6. RingInv'
  BY <1>2, <1>3, <1>4, <1>10 DEF RingInv
<1>7. SettledInv' /\ MigratedInv' /\ JobInv'
  BY <1>2, <1>4 DEF CredentialsInv, SettledInv, MigratedInv, JobInv
<1>11. \A c \in Connector \ (overtaken \union late) : config[c] = None \/ Current(config[c])
  BY <1>2 DEF CredentialsInv, LateInv
<1>12. LateInv'
  <2>1. ~Everywhere' /\ job'.keys # env'
    BY <1>2, <1>4, <1>10, KeysAssumption DEF Everywhere
  <2> QED BY <2>1 DEF LateInv
<1>8. KeptInv'
  BY <1>2, <1>3, <1>11 DEF CredentialsInv, KeptInv, Current, Opens
<1>9. ASSUME NEW e \in Edit PROVE EditInv(e)'
  BY <1>2 DEF CredentialsInv, EditInv
<1> QED BY <1>5, <1>6, <1>7, <1>8, <1>9, <1>12 DEF CredentialsInv

LEMMA RestartKeeps ==
  ASSUME CredentialsInv, NEW i \in Instance, Restart(i)
  PROVE  CredentialsInv'
<1>1. /\ keys[i] # env /\ keys' = [keys EXCEPT ![i] = env]
      /\ edit' = [e \in Edit |-> IF edit[e].on = i THEN NoEdit ELSE edit[e]]
      /\ job.at = "done" /\ job.keys = env
      /\ UNCHANGED <<env, config, job, entered, overtaken, late, values>>
  BY DEF Restart
<1>2. CredentialsTypeOK'
  BY <1>1, NoEditType DEF CredentialsInv, CredentialsTypeOK
<1>3. RingInv'
  <2>1. env # <<>> => Has(env, env[1])
    BY RingFacts DEF CredentialsInv, CredentialsTypeOK
  <2>2. \A j \in Instance : keys'[j] = env \/ keys'[j] = keys[j]
    BY <1>1 DEF CredentialsInv, CredentialsTypeOK
  <2> QED BY <1>1, <2>1, <2>2 DEF CredentialsInv, RingInv
<1>4. ~job.settled
  BY <1>1 DEF CredentialsInv, SettledInv, Everywhere
<1>5. SettledInv' /\ JobInv' /\ LateInv' /\ MigratedInv' /\ KeptInv'
  BY <1>1, <1>4 DEF CredentialsInv, SettledInv, JobInv, LateInv, Current, MigratedInv, KeptInv, Opens
<1>6. ASSUME NEW e \in Edit PROVE EditInv(e)'
  BY <1>1, NoEditType DEF CredentialsInv, EditInv
<1> QED BY <1>2, <1>3, <1>5, <1>6 DEF CredentialsInv

\* What edits and migrations have read, and who has which keys, in every reachable state
\* (routers/connectors.py; migrations.py; crypto.py).
THEOREM CredentialsInvariant == CredentialsSpec => []CredentialsInv
<1>1. CredentialsInit => CredentialsInv
  <2>1. SUFFICES ASSUME CredentialsInit PROVE CredentialsInv
    OBVIOUS
  <2>2. env \in Ring
    <3>1. <<>> \in Ring
      BY DEF Ring
    <3>2. 1 \in Nat \ {Plain}
      BY DEF Plain
    <3>3. <<1>> \in Ring
      BY <3>2 DEF Ring
    <3> QED BY <2>1, <3>1, <3>3 DEF CredentialsInit
  <2>3. config \in [Connector -> Secret \union {None}]
    <3>1. [value |-> 1, key |-> Plain, explicit |-> FALSE] \in Secret
      BY DEF Secret, Plain
    <3> QED BY <2>1, <3>1 DEF CredentialsInit
  <2>4. edit \in [Edit -> EditType] /\ \A e \in Edit : edit[e].at = "done"
    BY <2>1, NoEditType DEF CredentialsInit
  <2>5. /\ job \in JobType /\ job.at = "done" /\ job.settled = FALSE
    BY <2>1, <2>2, <2>3 DEF CredentialsInit, JobType, JobSteps
  <2>6. CredentialsTypeOK
    BY <2>1, <2>2, <2>3, <2>4, <2>5 DEF CredentialsInit, CredentialsTypeOK
  <2>7. RingInv
    BY <2>1, <2>2, <2>5, RingFacts DEF CredentialsInit, RingInv
  <2>8. SettledInv /\ JobInv /\ MigratedInv
    BY <2>5 DEF SettledInv, JobInv, MigratedInv
  <2>9. KeptInv /\ LateInv
    <3>1. \A c \in Connector : config[c] \in {None, [value |-> 1, key |-> Plain, explicit |-> FALSE]}
      BY <2>1 DEF CredentialsInit
    <3>2. \A c \in Connector : config[c] = None \/ (config[c].value = 1 /\ config[c].key = Plain)
      BY <3>1
    <3> QED BY <2>1, <2>5, <3>2 DEF CredentialsInit, KeptInv, Opens, LateInv, Current
  <2> QED BY <2>4, <2>6, <2>7, <2>8, <2>9 DEF CredentialsInv, EditInv
<1>2. CredentialsInv /\ [CredentialsNext]_credentialVars => CredentialsInv'
  <2>1. SUFFICES ASSUME CredentialsInv, [CredentialsNext]_credentialVars PROVE CredentialsInv'
    OBVIOUS
  <2>2. CASE UNCHANGED credentialVars
    <3>1. CredentialsTypeOK' /\ RingInv' /\ SettledInv' /\ JobInv'
      BY <2>1, <2>2 DEF credentialVars, CredentialsInv, CredentialsTypeOK, RingInv, SettledInv, Everywhere,
                        JobInv
    <3>3. LateInv' /\ MigratedInv' /\ KeptInv'
      BY <2>1, <2>2 DEF credentialVars, CredentialsInv, LateInv, MigratedInv, KeptInv, Current, UnderFirst, Opens, Everywhere
    <3>2. ASSUME NEW e \in Edit PROVE EditInv(e)'
      BY <2>1, <2>2 DEF credentialVars, CredentialsInv, EditInv
    <3> QED BY <3>1, <3>2, <3>3 DEF CredentialsInv
  <2>3. CASE CredentialsNext
    BY <2>1, <2>3, CreateKeeps, EditReadsKeeps, EditStoresKeeps, EditEndsKeeps, JobStartsKeeps,
       MigrateAddressesKeeps, ReadSecretsKeeps, MigrateCredentialsKeeps, JobFailsKeeps, PrependKeeps,
       DropOldKeeps, RestartKeeps DEF CredentialsNext
  <2> QED BY <2>1, <2>2, <2>3
<1> QED BY <1>1, <1>2, PTL DEF CredentialsSpec

\* Through every order of edits, migrations, failures, restarts and documented rotations a connector
\* keeps the secret entered last, under a key the operator still has, unless a write put back what it
\* had read before another commit (routers/connectors.py:187; migrations.py:156), or an instance not
\* yet restarted stored the secret after the job had read: of such a secret only the value is claimed.
\* A migration begun after every restart leaves what the operator's keys open under the first.
THEOREM SecretsKept == CredentialsSpec => []SecretsSurvive
BY CredentialsAreKept, CredentialsInvariant, PTL
=============================================================================
