---------------------------- MODULE LocalModels ----------------------------
(***************************************************************************)
(* The language models of the machine's one Ollama, and the model each     *)
(* account uses (routers/models.py, services/llm_catalog.py and the        *)
(* sign-in of routers/auth.py).  Ollama and the database share no          *)
(* transaction: a request looks at what is installed, and acts on that     *)
(* while other requests install, remove and switch.                        *)
(***************************************************************************)
EXTENDS Naturals, Sequences, FiniteSetsExt

CONSTANTS
  Catalogue,   \* the supported models, OLLAMA_MODEL first and then in catalogue order
  User, Call, NoModel,
  MaxCalls     \* bound on the requests received

Model == {Catalogue[i] : i \in DOMAIN Catalogue}

ASSUME ModelsAssumption == Catalogue \in Seq(Model) /\ NoModel \notin Model

VARIABLES
  installed,   \* what Ollama holds
  chosen,      \* each account's llm_model
  call,        \* each request: what it is for, what it has read, how far it is
  raced,       \* history: two removals were under way together
  calls

modelVars == <<installed, chosen, call, raced, calls>>

NoCall == [for |-> "none", user |-> NoModel, model |-> NoModel, kept |-> NoModel,
         remaining |-> {}, moves |-> {}, at |-> "done", clean |-> FALSE]

LocalModelsInit ==
  /\ installed \in SUBSET Model
  /\ chosen = [u \in User |-> NoModel]
  /\ call = [c \in Call |-> NoCall]
  /\ raced = FALSE /\ calls = 0

\* Mutated form: an account's choice is kept whether or not it is there.
PickDefaultUnchecked(there, preferred) ==
  IF preferred # NoModel THEN preferred
  ELSE Catalogue[Min({i \in DOMAIN Catalogue : Catalogue[i] \in there})]

\* pick_default: the preferred model if it is there, else the first that is.
PickDefault(there, preferred) ==
  IF preferred \in there THEN preferred
  ELSE Catalogue[Min({i \in DOMAIN Catalogue : Catalogue[i] \in there})]

AtStep(c, step) == call[c].at = step
Removing(c) == call[c].for = "remove" /\ ~AtStep(c, "done")

\* A request of one account; a sign-in reads the account's model here.
Ask(c, what, u, m) ==
  /\ AtStep(c, "done") /\ calls < MaxCalls
  /\ call' = [call EXCEPT ![c] = [NoCall EXCEPT !.for = what, !.user = u, !.model = m,
                                              !.kept = chosen[u], !.at = "asked",
                                              !.clean = ~ \E d \in Call \ {c} : Removing(d)]]
  /\ raced' = (raced \/ (what = "remove" /\ \E d \in Call \ {c} : Removing(d)))
  /\ calls' = calls + 1
  /\ UNCHANGED <<installed, chosen>>

\* A request's next step, which overtakes the requests in `upset`.
Proceed(c, fields, upset) ==
  /\ call' = [d \in Call |-> IF d = c THEN fields
                             ELSE [call[d] EXCEPT !.clean = @ /\ d \notin upset]]
  /\ UNCHANGED <<raced, calls>>

Ends(c) == [call[c] EXCEPT !.at = "done"]
Moves(c, step) == [call[c] EXCEPT !.at = step]
Others(c) == Call \ {c}

\* A request that may go on, with what it has read of installed_models.
Passes(c, what, fields) ==
  /\ AtStep(c, "asked") /\ call[c].for = what
  /\ Proceed(c, [fields EXCEPT !.at = what], {})
  /\ UNCHANGED <<installed, chosen>>

Bootstrap(c) == installed = {} /\ Passes(c, "bootstrap", call[c])

Install(c) == Passes(c, "install", call[c])

\* Mutated form: what remains is not looked at.
RemoveLast(c) ==
  /\ call[c].model \in installed
  /\ Passes(c, "remove", [call[c] EXCEPT !.remaining = installed \ {call[c].model}])

Remove(c) ==
  /\ call[c].model \in installed /\ installed # {call[c].model}
  /\ Passes(c, "remove", [call[c] EXCEPT !.remaining = installed \ {call[c].model}])

SetActive(c) == call[c].model \in installed /\ Passes(c, "switch", call[c])

SignIn(c) ==
  /\ installed # {}
  /\ Passes(c, "sign-in", [call[c] EXCEPT !.model = PickDefault(installed, call[c].kept)])

\* Ollama does not answer, or what it has installed does not allow the request.
Refuse(c) ==
  /\ AtStep(c, "asked")
  /\ Proceed(c, NoCall, {})
  /\ UNCHANGED <<installed, chosen>>

\* Ollama has downloaded the model, or the download failed.
Pull(c) ==
  /\ AtStep(c, "bootstrap") \/ AtStep(c, "install")
  /\ installed' \in {installed, installed \union {call[c].model}}
  /\ Proceed(c, NoCall, {})
  /\ UNCHANGED chosen

\* Ollama removes the model; it refuses one that is no longer there.
DeleteModel(c) ==
  /\ AtStep(c, "remove") /\ call[c].model \in installed
  /\ installed' = installed \ {call[c].model}
  /\ Proceed(c, Moves(c, "deleted"), Others(c))
  /\ UNCHANGED chosen

\* The accounts to move, read before the transaction begins.
ListUsers(c) ==
  /\ AtStep(c, "deleted")
  /\ Proceed(c, [call[c] EXCEPT !.at = "listed",
                                !.moves = {u \in User : chosen[u] = call[c].model}], {})
  /\ UNCHANGED <<installed, chosen>>

MoveUsers(c) ==
  /\ AtStep(c, "listed")
  /\ chosen' = [u \in User |-> IF u \in call[c].moves
                               THEN PickDefault(call[c].remaining, NoModel) ELSE chosen[u]]
  /\ Proceed(c, Ends(c), Others(c))
  /\ UNCHANGED installed

\* A sign-in stores the model only when it is not the one it read.
SetModel(c) ==
  LET u == call[c].user IN
  /\ AtStep(c, "switch") \/ AtStep(c, "sign-in")
  /\ chosen' = IF AtStep(c, "sign-in") /\ call[c].model = call[c].kept THEN chosen
               ELSE [chosen EXCEPT ![u] = call[c].model]
  /\ Proceed(c, Ends(c), {d \in Others(c) : call[d].user = u \/ Removing(d)})
  /\ UNCHANGED installed

\* A failing call of Ollama or the database, or the instance's death.
Break(c) ==
  /\ ~AtStep(c, "done") /\ ~AtStep(c, "asked")
  /\ Proceed(c, NoCall, {})
  /\ UNCHANGED <<installed, chosen>>

LocalModelsNext ==
  \E c \in Call :
    \/ \E what \in {"bootstrap", "install", "remove", "switch", "sign-in"}, u \in User, m \in Model :
         Ask(c, what, u, m)
    \/ Bootstrap(c) \/ Install(c) \/ Remove(c) \/ SetActive(c) \/ SignIn(c) \/ Refuse(c)
    \/ Pull(c) \/ Break(c)
    \/ DeleteModel(c) \/ ListUsers(c) \/ MoveUsers(c) \/ SetModel(c)

LocalModelsSpec == LocalModelsInit /\ [][LocalModelsNext]_modelVars

-----------------------------------------------------------------------------
(* Properties.                                                             *)

\* "At least one model always stays installed" (docs/local-models.md, line 23): once there
\* is one, no order of installs, removals, failures and deaths leaves none, as long as two
\* removals are not under way together (routers/models.py, line 162).
OneRemains == [][installed # {} /\ ~raced => installed' # {}]_modelVars

\* A sign-in that no removal overtakes leaves its account on an installed model, whatever an
\* interrupted removal or a late switch left behind; and a removal that nothing overtakes
\* leaves nobody on the model it removed and everyone it moved on an installed one.
ChoicesInstalled ==
  [][\A c \in Call :
       /\ call[c].clean /\ call'[c].clean /\ ~AtStep(c, "done") /\ call'[c].at = "done"
       => CASE call[c].for = "sign-in" -> chosen'[call[c].user] \in installed'
            [] call[c].for = "remove" -> \A u \in User : /\ chosen'[u] # call[c].model
                                                         /\ u \in call[c].moves => chosen'[u] \in installed'
            [] OTHER -> TRUE]_modelVars
=============================================================================
