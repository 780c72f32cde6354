--------------------------- MODULE PluginLifecycle ---------------------------
(***************************************************************************)
(* One application plugin: the service that loads, enables, disables and   *)
(* unloads it (application/src/plugin/service.rs), the policy store that   *)
(* says what it may do (policy.rs), the dispatcher that asks the store for *)
(* every call (dispatcher.rs), and the Lua runtime behind one lock         *)
(* (crates/feature/src/app_plugin/manager.rs).  The service has no lock of *)
(* its own: an operation is a row of database statements and one section   *)
(* under the lock of the runtime, and a script run there makes calls too.  *)
(***************************************************************************)
EXTENDS Naturals, FiniteSets, Sequences

CONSTANTS Callers,     \* concurrent requests to the service
          MaxBundle,   \* bound: contents the directory of the plugin may have
          MaxTokens,   \* bound: single-use tokens issued
          None         \* nobody, no token

Lifecycle == {"load", "enable", "disable", "unload"}

ASSUME PluginAssumption ==
    /\ None \notin Callers \cup Lifecycle \cup {"invoke"}
    /\ MaxBundle \in Nat \ {0} /\ MaxTokens \in Nat

Bundles == 1..MaxBundle     \* a bundle stands for its fingerprint
Tokens  == 1..MaxTokens
NoBundle == 0

\* The catalogue, a capability of each kind that is on: what it needs.
Caps == {"status", "act"}
Needs(cap) == IF cap = "status" THEN {"granted"} ELSE {"trusted", "session", "token"}

Consents == {"trusted", "granted", "session"}
Facts    == {"enabled"} \cup Consents
Asked(cap) == {"enabled"} \cup (Needs(cap) \ {"token"})

VARIABLES
    disk,       \* the bundle in the directory of the plugin
    enabled,    \* plugin_policy_plugins.enabled
    trusted,    \* is there explicit trust in plugin_policy_trust?
    granted,    \* is there a row of the persistent grant that is not revoked?
    stored,     \* plugin_policy_bundles.fingerprint
    session,    \* in memory: the grant of the current session
    issued, tokens,   \* in memory: tokens issued, those still valid
    state,      \* the plugin in the manager: "absent", "Loaded", "Enabled"
    code,       \* the bundle whose code the manager runs
    lock,       \* who holds the lock of the manager
    pc, op,     \* where each caller is, its operation
    version,    \* load: the fingerprint it computed
    step,       \* load: the next statement of reconcile_bundle
    req,        \* a call: its request
    seen,       \* history: the facts a call needs that held at some moment of it
    spent,      \* history: calls each token let through
    given,      \* history: the bundle the store named when each consent was given
    overlap,    \* history: have two lifecycle operations run at once since last all was off?
    unsaved,    \* history: did the last rollback of enable fail to be saved?
    leftover,   \* history: is enabled what the last process left?
    mixed       \* history: may consents and code be of different bundles?

policy == <<enabled, trusted, granted, stored>>
memory == <<session, issued, tokens>>
runtime == <<state, code, lock>>
local  == <<pc, op, version, step, req>>
ghosts == <<spent, overlap, unsaved, leftover, mixed>>
vars   == <<disk, policy, memory, runtime, local, seen, given, ghosts>>

Calling   == {"evaluate", "trust", "grant", "session", "audit", "consume", "dispatch"}
NoRequest == [cap |-> "status", token |-> None]

Init ==
    /\ disk = 1
    /\ enabled = FALSE /\ trusted = FALSE /\ granted = FALSE /\ stored = NoBundle
    /\ session = FALSE /\ issued = 0 /\ tokens = {}
    /\ state = "absent" /\ code = NoBundle /\ lock = None
    /\ pc = [c \in Callers |-> "idle"] /\ op = [c \in Callers |-> None]
    /\ version = [c \in Callers |-> NoBundle] /\ step = [c \in Callers |-> 0]
    /\ req = [c \in Callers |-> NoRequest]
    /\ seen = [c \in Callers |-> {}]
    /\ spent = [t \in Tokens |-> 0]
    /\ given = [f \in Consents |-> NoBundle]
    /\ overlap = FALSE /\ unsaved = FALSE /\ leftover = FALSE /\ mixed = FALSE

-----------------------------------------------------------------------------

At(c, label) == pc[c] = label
Goto(c, label) == pc' = [pc EXCEPT ![c] = label] /\ UNCHANGED <<op, version, step, req>>

\* Mutant: the operation of the caller is not cleared.
ReturnKept(c) ==
    /\ pc' = [pc EXCEPT ![c] = "idle"]
    /\ version' = [version EXCEPT ![c] = NoBundle] /\ step' = [step EXCEPT ![c] = 0]
    /\ req' = [req EXCEPT ![c] = NoRequest] /\ UNCHANGED op

Return(c) ==
    /\ pc' = [pc EXCEPT ![c] = "idle"] /\ op' = [op EXCEPT ![c] = None]
    /\ version' = [version EXCEPT ![c] = NoBundle] /\ step' = [step EXCEPT ![c] = 0]
    /\ req' = [req EXCEPT ![c] = NoRequest]

Acquire(c) == lock = None /\ lock' = c

\* Is code of the plugin in the manager, or being run by load?
Running == state # "absent" \/ lock # None

Reconciling == \E c \in Callers : pc[c] = "reconcile"

-----------------------------------------------------------------------------
(* Operations of the lifecycle: the policy first, then the runtime.        *)

Begin(c) ==
    /\ At(c, "idle")
    /\ \E o \in Lifecycle :
         /\ op' = [op EXCEPT ![c] = o]
         /\ pc' = [pc EXCEPT ![c] = IF o = "load" THEN "fingerprint" ELSE "policy"]
    /\ overlap' = \/ \E d \in Callers : op[d] \in Lifecycle
                  \/ overlap /\ (enabled \/ state = "Enabled")
    /\ UNCHANGED <<disk, policy, memory, runtime, version, step, req,
                   spent, unsaved, leftover, mixed>>

\* load reads the manifest and computes the fingerprint, then asks the store
\* whether this is the bundle it knows.
Fingerprint(c) ==
    /\ At(c, "fingerprint")
    /\ version' = [version EXCEPT ![c] = disk]
    /\ pc' = [pc EXCEPT ![c] = "known"]
    /\ UNCHANGED <<disk, policy, memory, runtime, op, step, req, ghosts>>

\* Mutant: a bundle the store knows goes on without set_enabled(false).
KnownGoesOn(c) ==
    /\ At(c, "known")
    /\ pc' = [pc EXCEPT ![c] = IF stored = version[c] THEN "runtime" ELSE "reconcile"]
    /\ step' = [step EXCEPT ![c] = IF stored = version[c] THEN 0 ELSE 1]
    /\ UNCHANGED <<op, version, req, disk, policy, memory, runtime, ghosts>>

Known(c) ==
    /\ At(c, "known")
    /\ IF stored = version[c]
       THEN Goto(c, "policy")
       ELSE /\ pc' = [pc EXCEPT ![c] = "reconcile"]
            /\ step' = [step EXCEPT ![c] = 1]
            /\ UNCHANGED <<op, version, req>>
    /\ UNCHANGED <<disk, policy, memory, runtime, ghosts>>

\* Mutant: the fingerprint is stored before the old state is taken away.
StoreFirst == <<"store", "revoke", "distrust", "disable", "clear">>

\* The statements of reconcile_bundle for an unknown bundle, and what follows
\* them: each is awaited on its own, in no transaction.
Statements == <<"revoke", "distrust", "disable", "store", "clear">>

Statement(c, s) ==
    /\ granted' = (granted /\ s # "revoke")
    /\ trusted' = (trusted /\ s # "distrust")
    /\ enabled' = (enabled /\ s # "disable")
    /\ stored' = IF s = "store" THEN version[c] ELSE stored
    /\ session' = (session /\ s # "clear")
    /\ tokens' = IF s = "clear" THEN {} ELSE tokens
    /\ leftover' = (leftover /\ s # "disable")
    /\ mixed' = (mixed \/ (s = "store" /\ Running /\ code # version[c]))

Reconcile(c) ==
    /\ At(c, "reconcile")
    /\ Statement(c, Statements[step[c]])
    /\ IF step[c] < Len(Statements)
       THEN step' = [step EXCEPT ![c] = @ + 1] /\ UNCHANGED pc
       ELSE step' = [step EXCEPT ![c] = 0] /\ pc' = [pc EXCEPT ![c] = "policy"]
    /\ UNCHANGED <<disk, issued, runtime, op, version, req, spent, overlap, unsaved>>

\* set_enabled: on for enable, off for the others.
SetPolicy(c) ==
    /\ At(c, "policy")
    /\ enabled' = (op[c] = "enable")
    /\ leftover' = FALSE /\ unsaved' = FALSE
    /\ Goto(c, "runtime")
    /\ UNCHANGED <<disk, trusted, granted, stored, memory, runtime, spent, overlap, mixed>>

\* A statement fails: the operation ends with its error, nothing is undone.
StatementFails(c) ==
    /\ \/ pc[c] \in {"known", "policy"}
       \/ At(c, "reconcile") /\ Statements[step[c]] # "clear"
    /\ Return(c)
    /\ UNCHANGED <<disk, policy, memory, runtime, ghosts>>

\* Under the lock of the manager, where no script has to run.
NoScript(c) ==
    \/ op[c] = "load" /\ state # "absent"       \* is already loaded
    \/ op[c] # "load" /\ state = "absent"       \* is not loaded
    \/ op[c] = "enable" /\ state = "Enabled"
    \/ op[c] = "disable" /\ state = "Loaded"

WithoutScript(c) ==
    /\ At(c, "runtime") /\ lock = None /\ NoScript(c)
    /\ IF op[c] = "enable" /\ state = "absent" THEN Goto(c, "rollback") ELSE Return(c)
    /\ UNCHANGED <<disk, policy, memory, runtime, ghosts>>

\* The script runs with the lock held; load reads the code from the disk now.
BeginScript(c) ==
    /\ At(c, "runtime") /\ ~NoScript(c) /\ Acquire(c)
    /\ code' = IF op[c] = "load" THEN disk ELSE code
    /\ mixed' = (mixed \/ (op[c] = "load" /\ (disk # stored \/ Reconciling)))
    /\ Goto(c, "script")
    /\ UNCHANGED <<disk, policy, memory, state, spent, overlap, unsaved, leftover>>

\* A script that fails in load, enable or disable takes the plugin out of the
\* manager; unload takes it out whatever its scripts do.
After(c, ok) ==
    CASE ~ok \/ op[c] = "unload"          -> "absent"
      [] op[c] \in {"load", "disable"}    -> "Loaded"
      [] OTHER                            -> "Enabled"

EndScript(c) ==
    /\ At(c, "script")
    /\ \E ok \in BOOLEAN :
         /\ state' = After(c, ok)
         /\ code' = IF After(c, ok) = "absent" THEN NoBundle ELSE code
         /\ IF op[c] = "enable" /\ ~ok THEN Goto(c, "rollback") ELSE Return(c)
    /\ lock' = None
    /\ UNCHANGED <<disk, policy, memory, ghosts>>

\* enable failed: the policy is switched off again; that this could not be
\* saved is logged and nothing else.
Rollback(c) ==
    /\ At(c, "rollback")
    /\ \E saved \in BOOLEAN :
         /\ enabled' = (enabled /\ ~saved)
         /\ unsaved' = ~saved
         /\ leftover' = (leftover /\ ~saved)
    /\ Return(c)
    /\ UNCHANGED <<disk, trusted, granted, stored, memory, runtime, spent, overlap, mixed>>

-----------------------------------------------------------------------------
(* A call of a capability: from outside, or from a script that runs.       *)

\* "status" needs neither session nor token.  "act" comes with a session: one
\* without is denied like one whose session was not granted anything.
Requests == [cap : {"act"}, token : (1..issued) \cup {None}] \cup {NoRequest}

Ask(c) ==
    /\ \E r \in Requests : req' = [req EXCEPT ![c] = r]
    /\ pc' = [pc EXCEPT ![c] = "evaluate"]
    /\ UNCHANGED <<disk, policy, memory, runtime, op, version, step, ghosts>>

\* From outside the plugin must be loaded; both looks take the lock.
Invoke(c) ==
    /\ At(c, "idle") /\ lock = None /\ state # "absent"
    /\ op' = [op EXCEPT ![c] = "invoke"]
    /\ pc' = [pc EXCEPT ![c] = "dispatcher"]
    /\ UNCHANGED <<disk, policy, memory, runtime, version, step, req, ghosts>>

Dispatcher(c)    == At(c, "dispatcher") /\ lock = None /\ Ask(c)
ScriptInvokes(c) == At(c, "script") /\ Ask(c)

\* The answer: a script goes on, a request from outside is over.
Answer(c) ==
    IF op[c] = "invoke" THEN Return(c)
    ELSE /\ pc' = [pc EXCEPT ![c] = "script"] /\ req' = [req EXCEPT ![c] = NoRequest]
         /\ UNCHANGED <<op, version, step>>

\* The rate limit, a denial, a statement that fails, the answer of the host.
Refused(c) ==
    /\ pc[c] \in {"evaluate", "trust", "grant", "session", "audit", "dispatch"}
    /\ Answer(c)
    /\ UNCHANGED <<disk, policy, memory, runtime, ghosts>>

\* evaluate reads the facts one after the other, and a pure function decides
\* over them.  A fact that is needed and does not hold is a denial whatever is
\* read after it, so that only Refused goes on from there.
Read(c, at, fact, holds, next) ==
    /\ At(c, at) /\ (fact \in Needs(req[c].cap) => holds)
    /\ Goto(c, next)
    /\ UNCHANGED <<disk, policy, memory, runtime, ghosts>>

ReadEnabled(c) == enabled /\ Read(c, "evaluate", "enabled", enabled, "trust")
ReadTrust(c)   == Read(c, "trust", "trusted", trusted, "grant")
ReadGrant(c)   == Read(c, "grant", "granted", granted, "session")
ReadSession(c) == Read(c, "session", "session", session, "audit")

\* For the decision it is enough that a token came with the request; the token
\* itself is looked at afterwards.
Audit(c) ==
    /\ At(c, "audit") /\ ("token" \in Needs(req[c].cap) => req[c].token # None)
    /\ Goto(c, IF req[c].token # None THEN "consume" ELSE "dispatch")
    /\ UNCHANGED <<disk, policy, memory, runtime, ghosts>>

\* Mutant: the token is looked up and left where it is.
ConsumePeek(c) ==
    /\ At(c, "consume")
    /\ IF req[c].token \in tokens
       THEN Goto(c, "dispatch") /\ spent' = [spent EXCEPT ![req[c].token] = @ + 1]
       ELSE Answer(c) /\ UNCHANGED spent
    /\ UNCHANGED <<disk, policy, memory, runtime, overlap, unsaved, leftover, mixed>>

\* consume_single_use_token: the token is taken out, and must have been there;
\* the tokens of this model are all issued for "act".
Consume(c) ==
    /\ At(c, "consume")
    /\ tokens' = tokens \ {req[c].token}
    /\ IF req[c].token \in tokens
       THEN Goto(c, "dispatch") /\ spent' = [spent EXCEPT ![req[c].token] = @ + 1]
       ELSE Answer(c) /\ UNCHANGED spent
    /\ UNCHANGED <<disk, policy, session, issued, runtime, overlap, unsaved, leftover,
                   mixed>>

\* The web host drops the future of a request whose client is gone.
Abandon(c) ==
    /\ op[c] = "invoke"
    /\ Return(c)
    /\ UNCHANGED <<disk, policy, memory, runtime, ghosts>>

-----------------------------------------------------------------------------
(* What the user decides, each in one statement or under one lock.         *)

Give ==
    /\ mixed' = (mixed \/ Reconciling)
    /\ UNCHANGED <<disk, enabled, stored, issued, tokens, runtime, local, spent, overlap,
                   unsaved, leftover>>

GrantPersistent == granted' = TRUE /\ Give /\ UNCHANGED <<trusted, session>>
SetTrust        == trusted' = TRUE /\ Give /\ UNCHANGED <<granted, session>>
GrantSession    == session' = TRUE /\ Give /\ UNCHANGED <<granted, trusted>>

RevokePersistent ==
    /\ granted /\ granted' = FALSE
    /\ UNCHANGED <<disk, enabled, trusted, stored, memory, runtime, local, ghosts>>

Distrust ==
    /\ trusted /\ trusted' = FALSE
    /\ UNCHANGED <<disk, enabled, granted, stored, memory, runtime, local, ghosts>>

IssueToken ==
    /\ issued < MaxTokens
    /\ issued' = issued + 1 /\ tokens' = tokens \cup {issued + 1}
    /\ UNCHANGED <<disk, policy, session, runtime, local, ghosts>>

EndSession ==
    /\ session \/ tokens # {}
    /\ session' = FALSE /\ tokens' = {}
    /\ UNCHANGED <<disk, policy, issued, runtime, local, ghosts>>

\* A token lives for a limited time.
Expire ==
    /\ \E t \in tokens : tokens' = tokens \ {t}
    /\ UNCHANGED <<disk, policy, session, issued, runtime, local, ghosts>>

\* Another version of the plugin is put into its directory.
Replace ==
    /\ disk < MaxBundle /\ disk' = disk + 1
    /\ UNCHANGED <<policy, memory, runtime, local, ghosts>>

\* The process ends at any moment and a new one opens the same database.
Restart ==
    /\ session' = FALSE /\ tokens' = {}
    /\ state' = "absent" /\ code' = NoBundle /\ lock' = None
    /\ pc' = [c \in Callers |-> "idle"] /\ op' = [c \in Callers |-> None]
    /\ version' = [c \in Callers |-> NoBundle] /\ step' = [c \in Callers |-> 0]
    /\ req' = [c \in Callers |-> NoRequest]
    /\ leftover' = enabled
    /\ UNCHANGED <<disk, policy, issued, spent, overlap, unsaved, mixed>>

-----------------------------------------------------------------------------

Policy(c) == Begin(c) \/ Fingerprint(c) \/ Known(c) \/ Reconcile(c) \/ SetPolicy(c)
                \/ StatementFails(c) \/ Rollback(c)
Runtime(c) == WithoutScript(c) \/ BeginScript(c) \/ EndScript(c)
Call(c) == Invoke(c) \/ Dispatcher(c) \/ ScriptInvokes(c) \/ Refused(c) \/ ReadEnabled(c)
              \/ ReadTrust(c) \/ ReadGrant(c) \/ ReadSession(c) \/ Audit(c) \/ Consume(c)
              \/ Abandon(c)
Retract == RevokePersistent \/ Distrust \/ EndSession \/ Expire
Outside == IssueToken \/ Replace \/ Restart

\* What holds now, and what has held since a call began to be evaluated.
Holding == {f \in Facts : \/ f = "enabled" /\ enabled
                          \/ f = "trusted" /\ trusted
                          \/ f = "granted" /\ granted
                          \/ f = "session" /\ session}
Observe(consented) ==
    /\ seen' = [c \in Callers |->
                  IF pc'[c] \in Calling
                  THEN Asked(req'[c].cap) \cap (Holding' \cup seen[c])
                  ELSE {}]
    /\ given' = [f \in Consents |-> CASE mixed' \/ f \notin Holding' -> NoBundle
                                       [] f \in consented             -> stored
                                       [] OTHER                       -> given[f]]

Next ==
    \/ GrantPersistent /\ Observe({"granted"})
    \/ SetTrust /\ Observe({"trusted"})
    \/ GrantSession /\ Observe({"session"})
    \/ (Retract \/ Outside) /\ Observe({})
    \/ (\E c \in Callers : Policy(c) \/ Runtime(c) \/ Call(c)) /\ Observe({})

Spec == Init /\ [][Next]_vars

-----------------------------------------------------------------------------

Labels == Calling \cup {"idle", "fingerprint", "known", "reconcile", "policy", "runtime",
                        "script", "rollback", "dispatcher"}

\* The types; the lock of the manager is held by exactly the operation whose
\* script runs, also while the script makes a call, and what runs has code.
TypeOK ==
    /\ disk \in Bundles /\ stored \in Bundles \cup {NoBundle} /\ code \in Bundles \cup {NoBundle}
    /\ enabled \in BOOLEAN /\ trusted \in BOOLEAN /\ granted \in BOOLEAN /\ session \in BOOLEAN
    /\ issued \in 0..MaxTokens /\ tokens \subseteq 1..issued /\ spent \in [Tokens -> Nat]
    /\ state \in {"absent", "Loaded", "Enabled"} /\ lock \in Callers \cup {None}
    /\ Running => code # NoBundle
    /\ pc \in [Callers -> Labels] /\ op \in [Callers -> Lifecycle \cup {"invoke", None}]
    /\ version \in [Callers -> Bundles \cup {NoBundle}]
    /\ step \in [Callers -> 0..Len(Statements)]
    /\ req \in [Callers -> [cap : Caps, token : Tokens \cup {None}]]
    /\ seen \in [Callers -> SUBSET Facts]
    /\ overlap \in BOOLEAN /\ unsaved \in BOOLEAN /\ leftover \in BOOLEAN /\ mixed \in BOOLEAN
    /\ \A c \in Callers :
         /\ At(c, "idle") <=> op[c] = None
         /\ lock = c <=> At(c, "script") \/ (pc[c] \in Calling /\ op[c] # "invoke")

\* A call reaches the host only if the plugin was enabled and each consent its
\* capability needs was given at some moment while the call was evaluated, and
\* a single-use token lets one call through, however calls interleave with
\* each other, with disable and with a revocation (dispatcher.rs, invoke).
Authorised ==
    /\ \A c \in Callers : At(c, "dispatch") => Asked(req[c].cap) \subseteq seen[c]
    /\ \A t \in Tokens : spent[t] <= 1

\* While the code of a bundle runs, every consent in force was given to that
\* bundle and not to the one it replaced, also when the process ended or a
\* statement failed half-way through reconcile_bundle.  Not so after a
\* consent given or a second load during a reconcile, a directory replaced
\* between the fingerprint and the load, or a load refused because older code
\* is loaded (mixed).
ConsentIsForThisCode ==
    Running /\ ~mixed =>
      /\ granted => given["granted"] = code
      /\ trusted => given["trusted"] = code
      /\ session => given["session"] = code

\* The policy says enabled only of a plugin that is enabled in the manager or
\* about to be; what the last process left behind is switched off before the
\* script of load runs.  Excepted: operations that overlapped, and a rollback
\* that could not be saved.
EnabledIsRunning ==
    enabled /\ ~overlap /\ ~unsaved =>
      \/ state = "Enabled"
      \/ \E c \in Callers : op[c] = "enable" /\ pc[c] # "policy"
      \/ leftover /\ state = "absent" /\ lock = None

=============================================================================
