------------------------ MODULE PluginLifecycleProofs ------------------------
(***************************************************************************)
(* Proofs about PluginLifecycle: types and the lock of the manager, that a *)
(* call is let through only with what it needs, that consents are for the  *)
(* code that runs, and that what the policy calls enabled is enabled; for  *)
(* any number of callers, bundles and tokens.                              *)
(***************************************************************************)
EXTENDS PluginLifecycle, TLAPS

\* Which operation a caller can be in where it is.
PlaceOf(c) ==
    /\ pc[c] \in {"fingerprint", "known", "reconcile"} => op[c] = "load"
    /\ pc[c] \in {"policy", "runtime", "script"} => op[c] \in Lifecycle
    /\ pc[c] = "rollback" => op[c] = "enable"
    /\ pc[c] = "dispatcher" => op[c] = "invoke"
    /\ pc[c] = "reconcile" => step[c] # 0
PlaceInv == \A c \in Callers : PlaceOf(c)

\* The facts evaluate has read when it is at a label.
ReadAt(label) ==
    CASE label = "evaluate" -> {}
      [] label = "trust"    -> {"enabled"}
      [] label = "grant"    -> {"enabled", "trusted"}
      [] label = "session"  -> {"enabled", "trusted", "granted"}
      [] OTHER              -> Facts

\* What was read held, and a token that was spent is gone.
ReadInv ==
    \A c \in Callers : pc[c] \in Calling => Asked(req[c].cap) \cap ReadAt(pc[c]) \subseteq seen[c]
SpentInv ==
    \A t \in Tokens : spent[t] = 0 \/ (spent[t] = 1 /\ t \notin tokens /\ t <= issued)

\* A reconcile that has stored its bundle and not cleared the session yet.
Unclear == ~Running /\ \E c \in Callers : pc[c] = "reconcile" /\ step[c] = 5

\* Consents and code are of the bundle the store names, and a reconcile has
\* taken away the old consents when it stores the new bundle.
Consistent ==
    /\ granted => given["granted"] = stored
    /\ trusted => given["trusted"] = stored
    /\ session => given["session"] = stored \/ Unclear
    /\ Running => code = stored
    /\ \A c \in Callers : pc[c] = "reconcile" =>
         (step[c] >= 2 => ~granted) /\ (step[c] >= 3 => ~trusted)
ConsentInv == ~mixed => Consistent

\* What makes the policy right when it says enabled.
Backed ==
    \/ state = "Enabled"
    \/ \E c \in Callers : op[c] = "enable" /\ pc[c] # "policy"
    \/ leftover /\ state = "absent" /\ lock = None

\* Without overlap one operation of the lifecycle runs at a time, and one that
\* has set the policy, but for enable, has it off.
Solo == \A c, d \in Callers : op[c] \in Lifecycle /\ op[d] \in Lifecycle => c = d
PolicySet == {"runtime", "script"} \cup Calling
EnabledInv ==
    /\ ~overlap => Solo
    /\ ~overlap => \A c \in Callers :
         op[c] \in Lifecycle \ {"enable"} /\ pc[c] \in PolicySet => ~enabled
    /\ enabled /\ ~overlap /\ ~unsaved => Backed

LEMMA Constants ==
    /\ None \notin Callers /\ None \notin {"load", "enable", "disable", "unload", "invoke"}
    /\ MaxBundle \in Nat /\ MaxBundle > 0 /\ MaxTokens \in Nat
BY PluginAssumption DEF Lifecycle

LEMMA StatementsAre ==
    /\ Len(Statements) = 5
    /\ Statements[1] = "revoke" /\ Statements[2] = "distrust" /\ Statements[3] = "disable"
    /\ Statements[4] = "store" /\ Statements[5] = "clear"
BY DEF Statements

RequestSet == [cap : Caps, token : Tokens \cup {None}]

LEMMA RequestsAre ==
    ASSUME issued \in 0..MaxTokens
    PROVE  NoRequest \in RequestSet /\ Requests \subseteq RequestSet
BY Constants DEF NoRequest, Caps, Requests, RequestSet, Tokens

LEMMA SeenIs ==
    ASSUME NEW consented, Observe(consented)
    PROVE  seen' \in [Callers -> SUBSET Facts]
BY DEF Observe, Asked, Needs, Facts, Consents

-----------------------------------------------------------------------------
(* Where the callers are.                                                    *)

LocalTypes ==
    /\ pc \in [Callers -> Labels] /\ op \in [Callers -> Lifecycle \cup {"invoke", None}]
    /\ version \in [Callers -> Bundles \cup {NoBundle}] /\ step \in [Callers -> 0..5]
    /\ req \in [Callers -> RequestSet]

LockOf(c) ==
    /\ pc[c] = "idle" <=> op[c] = None
    /\ lock = c <=> pc[c] = "script" \/ (pc[c] \in Calling /\ op[c] # "invoke")

LocalInv == LocalTypes /\ PlaceInv /\ \A c \in Callers : LockOf(c)

GlobalInv ==
    /\ disk \in Bundles /\ stored \in Bundles \cup {NoBundle} /\ code \in Bundles \cup {NoBundle}
    /\ enabled \in BOOLEAN /\ trusted \in BOOLEAN /\ granted \in BOOLEAN /\ session \in BOOLEAN
    /\ issued \in 0..MaxTokens /\ tokens \subseteq 1..issued /\ spent \in [Tokens -> Nat]
    /\ state \in {"absent", "Loaded", "Enabled"} /\ lock \in Callers \cup {None}
    /\ Running => code # NoBundle
    /\ overlap \in BOOLEAN /\ unsaved \in BOOLEAN /\ leftover \in BOOLEAN /\ mixed \in BOOLEAN

\* The type invariant in the parts the steps disturb.
SeenTypes == seen \in [Callers -> SUBSET Facts]
ShapeInv == LocalInv /\ GlobalInv /\ SeenTypes

LEMMA ShapeIsTypes == (ShapeInv <=> TypeOK /\ PlaceInv) /\ (ShapeInv <=> TypeOK /\ PlaceInv)'
BY StatementsAre DEF ShapeInv, LocalInv, LocalTypes, LockOf, GlobalInv, SeenTypes, TypeOK, At,
   RequestSet

\* Caller c goes to label p in operation o, with what it knows; nobody else moves.
Moves(c, p, o, v, s, r) ==
    /\ LocalTypes'
    /\ pc'[c] = p /\ op'[c] = o /\ version'[c] = v /\ step'[c] = s /\ req'[c] = r
    /\ \A d \in Callers \ {c} :
         pc'[d] = pc[d] /\ op'[d] = op[d] /\ version'[d] = version[d] /\ step'[d] = step[d] /\ req'[d] = req[d]

Goes(c, p) == Moves(c, p, op[c], version[c], step[c], req[c])
Ends(c)    == Moves(c, "idle", None, NoBundle, 0, NoRequest)

LEMMA GotoIs ==
    ASSUME LocalTypes, NEW c \in Callers, NEW p \in Labels, Goto(c, p)
    PROVE  Goes(c, p)
BY DEF Goto, Goes, Moves, LocalTypes

LEMMA ReturnIs ==
    ASSUME LocalTypes, NEW c \in Callers, Return(c), issued \in 0..MaxTokens
    PROVE  Ends(c)
BY RequestsAre DEF Return, Ends, Moves, LocalTypes, Labels, NoBundle

LEMMA AnswerIs ==
    ASSUME LocalTypes, NEW c \in Callers, Answer(c), issued \in 0..MaxTokens
    PROVE  /\ op[c] = "invoke" => Ends(c)
           /\ op[c] # "invoke" => Moves(c, "script", op[c], version[c], step[c], NoRequest)
<1>1. CASE op[c] = "invoke"
  BY <1>1, ReturnIs DEF Answer
<1>2. CASE op[c] # "invoke"
  BY <1>2, RequestsAre DEF Answer, Moves, LocalTypes, Labels
<1> QED BY <1>1, <1>2

\* What is left to show of the invariant after a move: it is right for the mover.
LEMMA MovesWell ==
    ASSUME LocalInv, NEW c \in Callers, NEW p, NEW o, NEW v, NEW s, NEW r, Moves(c, p, o, v, s, r),
           p \in {"fingerprint", "known", "reconcile"} => o = "load",
           p \in {"policy", "runtime", "script"} => o \in Lifecycle,
           p = "rollback" => o = "enable",
           p = "dispatcher" => o = "invoke",
           p = "reconcile" => s # 0,
           p = "idle" <=> o = None,
           lock' = c <=> p = "script" \/ (p \in Calling /\ o # "invoke"),
           \A d \in Callers \ {c} : lock' = d <=> lock = d
    PROVE  LocalInv'
<1>1. PlaceInv'
  BY DEF Moves, LocalInv, PlaceInv, PlaceOf
<1>2. ASSUME NEW d \in Callers PROVE LockOf(d)'
  BY DEF Moves, LocalInv, LockOf
<1> QED BY <1>1, <1>2 DEF LocalInv, Moves

LEMMA BeginMoves ==
    ASSUME LocalInv, GlobalInv, NEW c \in Callers, Begin(c)
    PROVE  \E o \in Lifecycle : Moves(c, IF o = "load" THEN "fingerprint" ELSE "policy", o, version[c], step[c], req[c])
BY DEF Begin, Moves, Labels, LocalInv, LocalTypes

LEMMA FingerprintMoves ==
    ASSUME LocalInv, GlobalInv, NEW c \in Callers, Fingerprint(c)
    PROVE  Moves(c, "known", op[c], disk, step[c], req[c])
BY DEF Fingerprint, Moves, Labels, LocalInv, LocalTypes, GlobalInv

LEMMA KnownMoves ==
    ASSUME LocalInv, GlobalInv, NEW c \in Callers, Known(c)
    PROVE  /\ stored = version[c] => Goes(c, "policy")
           /\ stored # version[c] => Moves(c, "reconcile", op[c], version[c], 1, req[c])
<1>1. CASE stored = version[c]
  BY <1>1, GotoIs DEF Known, LocalInv, Labels
<1>2. CASE stored # version[c]
  BY <1>2 DEF Known, Moves, Labels, LocalInv, LocalTypes
<1> QED BY <1>1, <1>2

LEMMA ReconcileMoves ==
    ASSUME LocalInv, GlobalInv, NEW c \in Callers, Reconcile(c)
    PROVE  /\ step[c] < 5 => Moves(c, "reconcile", op[c], version[c], step[c] + 1, req[c])
           /\ step[c] >= 5 => Moves(c, "policy", op[c], version[c], 0, req[c])
<1>1. CASE step[c] < 5
  BY <1>1, StatementsAre DEF Reconcile, At, Moves, Labels, LocalInv, LocalTypes
<1>2. CASE ~(step[c] < 5)
  BY <1>2, StatementsAre DEF Reconcile, At, Moves, Labels, LocalInv, LocalTypes
<1> QED BY <1>1, <1>2 DEF LocalInv, LocalTypes

LEMMA SetPolicyMoves ==
    ASSUME LocalInv, GlobalInv, NEW c \in Callers, SetPolicy(c)
    PROVE  Goes(c, "runtime")
BY GotoIs DEF SetPolicy, LocalInv, Labels

LEMMA StatementFailsMoves ==
    ASSUME LocalInv, GlobalInv, NEW c \in Callers, StatementFails(c)
    PROVE  Ends(c)
BY ReturnIs DEF StatementFails, LocalInv, GlobalInv

LEMMA RollbackMoves ==
    ASSUME LocalInv, GlobalInv, NEW c \in Callers, Rollback(c)
    PROVE  Ends(c)
BY ReturnIs DEF Rollback, LocalInv, GlobalInv

LEMMA WithoutScriptMoves ==
    ASSUME LocalInv, GlobalInv, NEW c \in Callers, WithoutScript(c)
    PROVE  /\ op[c] = "enable" /\ state = "absent" => Goes(c, "rollback")
           /\ ~(op[c] = "enable" /\ state = "absent") => Ends(c)
<1>1. CASE op[c] = "enable" /\ state = "absent"
  BY <1>1, GotoIs DEF WithoutScript, LocalInv, Labels
<1>2. CASE ~(op[c] = "enable" /\ state = "absent")
  BY <1>2, ReturnIs DEF WithoutScript, LocalInv, GlobalInv
<1> QED BY <1>1, <1>2

LEMMA BeginScriptMoves ==
    ASSUME LocalInv, GlobalInv, NEW c \in Callers, BeginScript(c)
    PROVE  Goes(c, "script")
BY GotoIs DEF BeginScript, LocalInv, Labels

LEMMA EndScriptMoves ==
    ASSUME LocalInv, GlobalInv, NEW c \in Callers, EndScript(c)
    PROVE  Ends(c) \/ (op[c] = "enable" /\ Goes(c, "rollback"))
<1>1. Return(c) \/ (op[c] = "enable" /\ Goto(c, "rollback"))
  BY DEF EndScript
<1> QED BY <1>1, GotoIs, ReturnIs DEF LocalInv, GlobalInv, Labels

LEMMA InvokeMoves ==
    ASSUME LocalInv, GlobalInv, NEW c \in Callers, Invoke(c)
    PROVE  Moves(c, "dispatcher", "invoke", version[c], step[c], req[c])
BY DEF Invoke, Moves, Labels, LocalInv, LocalTypes

LEMMA AskMoves ==
    ASSUME LocalInv, GlobalInv, NEW c \in Callers, Ask(c)
    PROVE  \E r \in Requests : Moves(c, "evaluate", op[c], version[c], step[c], r)
BY RequestsAre DEF Ask, Moves, Labels, Calling, LocalInv, LocalTypes, GlobalInv

LEMMA RefusedMoves ==
    ASSUME LocalInv, GlobalInv, NEW c \in Callers, Refused(c)
    PROVE  /\ op[c] = "invoke" => Ends(c)
           /\ op[c] # "invoke" => Moves(c, "script", op[c], version[c], step[c], NoRequest)
BY AnswerIs DEF Refused, LocalInv, GlobalInv

LEMMA ReadEnabledMoves ==
    ASSUME LocalInv, GlobalInv, NEW c \in Callers, ReadEnabled(c)
    PROVE  Goes(c, "trust")
BY GotoIs DEF ReadEnabled, Read, LocalInv, Labels, Calling

LEMMA ReadTrustMoves ==
    ASSUME LocalInv, GlobalInv, NEW c \in Callers, ReadTrust(c)
    PROVE  Goes(c, "grant")
BY GotoIs DEF ReadTrust, Read, LocalInv, Labels, Calling

LEMMA ReadGrantMoves ==
    ASSUME LocalInv, GlobalInv, NEW c \in Callers, ReadGrant(c)
    PROVE  Goes(c, "session")
BY GotoIs DEF ReadGrant, Read, LocalInv, Labels, Calling

LEMMA ReadSessionMoves ==
    ASSUME LocalInv, GlobalInv, NEW c \in Callers, ReadSession(c)
    PROVE  Goes(c, "audit")
BY GotoIs DEF ReadSession, Read, LocalInv, Labels, Calling

LEMMA AuditMoves ==
    ASSUME LocalInv, GlobalInv, NEW c \in Callers, Audit(c)
    PROVE  Goes(c, "consume") \/ Goes(c, "dispatch")
BY GotoIs DEF Audit, LocalInv, Labels, Calling

LEMMA ConsumeMoves ==
    ASSUME LocalInv, GlobalInv, NEW c \in Callers, Consume(c)
    PROVE  /\ req[c].token \in tokens => Goes(c, "dispatch")
           /\ req[c].token \notin tokens /\ op[c] = "invoke" => Ends(c)
           /\ req[c].token \notin tokens /\ op[c] # "invoke"
                => Moves(c, "script", op[c], version[c], step[c], NoRequest)
<1>1. CASE req[c].token \in tokens
  BY <1>1, GotoIs DEF Consume, LocalInv, Labels, Calling
<1>2. CASE req[c].token \notin tokens
  BY <1>2, AnswerIs DEF Consume, LocalInv, GlobalInv
<1> QED BY <1>1, <1>2

LEMMA AbandonMoves ==
    ASSUME LocalInv, GlobalInv, NEW c \in Callers, Abandon(c)
    PROVE  Ends(c)
BY ReturnIs DEF Abandon, LocalInv, GlobalInv

-----------------------------------------------------------------------------
(* Types.                                                                    *)

LEMMA TypesStart == Init => ShapeInv
<1> SUFFICES ASSUME Init PROVE ShapeInv
  OBVIOUS
<1>1. NoRequest \in RequestSet
  BY Constants, RequestsAre DEF Init
<1>2. LocalInv
  BY <1>1, Constants DEF Init, LocalInv, LocalTypes, PlaceInv, PlaceOf, LockOf, Labels, Calling,
     Bundles, NoBundle
<1>3. GlobalInv
  <2>1. 1 \in Bundles /\ NoBundle = 0 /\ 0 \in 0..MaxTokens
    BY Constants DEF Bundles, NoBundle
  <2>2. spent \in [Tokens -> Nat] /\ tokens \subseteq 1..issued /\ ~Running
    BY DEF Init, Running
  <2> QED BY <2>1, <2>2 DEF Init, GlobalInv
<1> QED BY <1>2, <1>3 DEF Init, ShapeInv, SeenTypes

LEMMA TypesStep == ShapeInv /\ [Next]_vars => ShapeInv'
<1> SUFFICES ASSUME LocalInv, GlobalInv, SeenTypes, [Next]_vars PROVE ShapeInv'
  BY DEF ShapeInv
<1>s. SeenTypes'
  BY SeenIs DEF Next, vars, SeenTypes
<1>1. ASSUME NEW c \in Callers, Begin(c) PROVE LocalInv' /\ GlobalInv'
  <2>1. LocalInv'
    <3>1. lock' = lock /\ lock # c /\ pc[c] = "idle"
      BY <1>1 DEF Begin, At, LocalInv, LockOf, Calling, runtime
    <3>2. PICK o \in Lifecycle :
            Moves(c, IF o = "load" THEN "fingerprint" ELSE "policy", o, version[c], step[c], req[c])
      BY <1>1, BeginMoves
    <3>3. CASE o = "load"
      <4>1. Moves(c, "fingerprint", o, version[c], step[c], req[c])
        BY <3>2, <3>3
      <4> QED BY <3>1, <3>3, <4>1, MovesWell, Constants DEF Calling
    <3>4. CASE o # "load"
      <4>1. Moves(c, "policy", o, version[c], step[c], req[c])
        BY <3>2, <3>4
      <4> QED BY <3>1, <3>4, <4>1, MovesWell, Constants DEF Calling, Lifecycle
    <3> QED BY <3>3, <3>4
  <2>2. GlobalInv'
    BY <1>1, Constants DEF Begin, LocalInv, GlobalInv, LocalTypes, PlaceInv, PlaceOf, LockOf,
       Running, At, Bundles, Lifecycle, Tokens, policy, memory, runtime, ghosts
  <2> QED BY <2>1, <2>2
<1>2. ASSUME NEW c \in Callers, Fingerprint(c) PROVE LocalInv' /\ GlobalInv'
  <2>1. LocalInv'
    <3>1. lock' = lock /\ lock # c /\ op[c] = "load"
      BY <1>2 DEF Fingerprint, At, LocalInv, PlaceInv, PlaceOf, LockOf, Calling, runtime
    <3> QED BY <1>2, <3>1, FingerprintMoves, MovesWell, Constants DEF Calling
  <2>2. GlobalInv'
    BY <1>2, Constants DEF Fingerprint, LocalInv, GlobalInv, LocalTypes, PlaceInv, PlaceOf,
       LockOf, Running, At, Bundles, Lifecycle, Tokens, policy, memory, runtime, ghosts
  <2> QED BY <2>1, <2>2
<1>3. ASSUME NEW c \in Callers, Known(c) PROVE LocalInv' /\ GlobalInv'
  <2>1. LocalInv'
    BY <1>3, KnownMoves, MovesWell, Constants DEF Known, At, Goes, Ends, LocalInv, GlobalInv,
       LocalTypes, PlaceInv, PlaceOf, LockOf, Lifecycle, Calling, runtime
  <2>2. GlobalInv'
    BY <1>3, Constants DEF Known, LocalInv, GlobalInv, LocalTypes, PlaceInv, PlaceOf, LockOf,
       Running, At, Bundles, Lifecycle, Tokens, policy, memory, runtime, ghosts
  <2> QED BY <2>1, <2>2
<1>4. ASSUME NEW c \in Callers, Reconcile(c) PROVE LocalInv' /\ GlobalInv'
  <2>1. LocalInv'
    <3>1. lock' = lock /\ lock # c /\ op[c] = "load" /\ step[c] \in 1..5
      BY <1>4 DEF Reconcile, At, LocalInv, LocalTypes, PlaceInv, PlaceOf, LockOf, Calling, runtime
    <3>2. CASE step[c] < 5
      <4>1. Moves(c, "reconcile", op[c], version[c], step[c] + 1, req[c])
        BY <1>4, <3>2, ReconcileMoves
      <4> QED BY <3>1, <4>1, MovesWell, Constants DEF Calling
    <3>3. CASE ~(step[c] < 5)
      <4>1. Moves(c, "policy", op[c], version[c], 0, req[c])
        BY <1>4, <3>1, <3>3, ReconcileMoves
      <4> QED BY <3>1, <4>1, MovesWell, Constants DEF Calling, Lifecycle
    <3> QED BY <3>2, <3>3
  <2>2. GlobalInv'
    BY <1>4, Constants DEF Reconcile, Statement, LocalInv, GlobalInv, LocalTypes, PlaceInv,
       PlaceOf, LockOf, Running, At, Bundles, Lifecycle, Tokens, policy, memory, runtime, ghosts
  <2> QED BY <2>1, <2>2
<1>5. ASSUME NEW c \in Callers, SetPolicy(c) PROVE LocalInv' /\ GlobalInv'
  <2>1. LocalInv'
    <3>1. lock' = lock /\ lock # c /\ op[c] \in Lifecycle
      BY <1>5 DEF SetPolicy, At, LocalInv, PlaceInv, PlaceOf, LockOf, Calling, runtime
    <3> QED BY <1>5, <3>1, SetPolicyMoves, MovesWell, Constants DEF Goes, Calling, Lifecycle
  <2>2. GlobalInv'
    BY <1>5, Constants DEF SetPolicy, LocalInv, GlobalInv, LocalTypes, PlaceInv, PlaceOf, LockOf,
       Running, At, Bundles, Lifecycle, Tokens, policy, memory, runtime, ghosts
  <2> QED BY <2>1, <2>2
<1>6. ASSUME NEW c \in Callers, StatementFails(c) PROVE LocalInv' /\ GlobalInv'
  <2>1. LocalInv'
    BY <1>6, StatementFailsMoves, MovesWell, Constants DEF StatementFails, At, Goes, Ends,
       LocalInv, GlobalInv, LocalTypes, PlaceInv, PlaceOf, LockOf, Lifecycle, Calling, runtime
  <2>2. GlobalInv'
    BY <1>6, Constants DEF StatementFails, LocalInv, GlobalInv, LocalTypes, PlaceInv, PlaceOf,
       LockOf, Running, At, Bundles, Lifecycle, Tokens, policy, memory, runtime, ghosts
  <2> QED BY <2>1, <2>2
<1>7. ASSUME NEW c \in Callers, Rollback(c) PROVE LocalInv' /\ GlobalInv'
  <2>1. LocalInv'
    BY <1>7, RollbackMoves, MovesWell, Constants DEF Rollback, At, Goes, Ends, LocalInv,
       GlobalInv, LocalTypes, PlaceInv, PlaceOf, LockOf, Lifecycle, Calling, runtime
  <2>2. GlobalInv'
    BY <1>7, Constants DEF Rollback, LocalInv, GlobalInv, LocalTypes, PlaceInv, PlaceOf, LockOf,
       Running, At, Bundles, Lifecycle, Tokens, policy, memory, runtime, ghosts
  <2> QED BY <2>1, <2>2
<1>8. ASSUME NEW c \in Callers, WithoutScript(c) PROVE LocalInv' /\ GlobalInv'
  <2>1. LocalInv'
    BY <1>8, WithoutScriptMoves, MovesWell, Constants DEF WithoutScript, At, Goes, Ends,
       LocalInv, GlobalInv, LocalTypes, PlaceInv, PlaceOf, LockOf, Lifecycle, Calling, runtime
  <2>2. GlobalInv'
    BY <1>8, Constants DEF WithoutScript, LocalInv, GlobalInv, LocalTypes, PlaceInv, PlaceOf,
       LockOf, Running, At, Bundles, Lifecycle, Tokens, policy, memory, runtime, ghosts
  <2> QED BY <2>1, <2>2
<1>9. ASSUME NEW c \in Callers, BeginScript(c) PROVE LocalInv' /\ GlobalInv'
  <2>1. LocalInv'
    BY <1>9, BeginScriptMoves, MovesWell, Constants DEF BeginScript, At, Acquire, Goes, Ends,
       LocalInv, GlobalInv, LocalTypes, PlaceInv, PlaceOf, LockOf, Lifecycle, Calling, runtime
  <2>2. GlobalInv'
    <3>1. Running' /\ code' # NoBundle /\ code' \in Bundles \cup {NoBundle}
      BY <1>9, Constants DEF BeginScript, NoScript, Acquire, Running, GlobalInv, Bundles, NoBundle
    <3> QED BY <1>9, <3>1 DEF BeginScript, Acquire, GlobalInv, policy, memory
  <2> QED BY <2>1, <2>2
<1>10. ASSUME NEW c \in Callers, EndScript(c) PROVE LocalInv' /\ GlobalInv'
  <2>1. LocalInv'
    BY <1>10, EndScriptMoves, MovesWell, Constants DEF EndScript, At, Goes, Ends, LocalInv,
       GlobalInv, LocalTypes, PlaceInv, PlaceOf, LockOf, Lifecycle, Calling, runtime
  <2>2. GlobalInv'
    BY <1>10, Constants DEF EndScript, After, LocalInv, GlobalInv, LocalTypes, PlaceInv, PlaceOf,
       LockOf, Running, At, Bundles, Lifecycle, Tokens, policy, memory, runtime, ghosts
  <2> QED BY <2>1, <2>2
<1>11. ASSUME NEW c \in Callers, Invoke(c) PROVE LocalInv' /\ GlobalInv'
  <2>1. LocalInv'
    <3>1. lock' = lock /\ lock # c
      BY <1>11 DEF Invoke, At, LocalInv, LockOf, Calling, runtime
    <3> QED BY <1>11, <3>1, InvokeMoves, MovesWell, Constants DEF Calling
  <2>2. GlobalInv'
    BY <1>11, Constants DEF Invoke, LocalInv, GlobalInv, LocalTypes, PlaceInv, PlaceOf, LockOf,
       Running, At, Bundles, Lifecycle, Tokens, policy, memory, runtime, ghosts
  <2> QED BY <2>1, <2>2
<1>12. ASSUME NEW c \in Callers, Dispatcher(c) PROVE LocalInv' /\ GlobalInv'
  <2>1. LocalInv'
    BY <1>12, AskMoves, MovesWell, Constants DEF Dispatcher, At, Ask, Goes, Ends, LocalInv,
       GlobalInv, LocalTypes, PlaceInv, PlaceOf, LockOf, Lifecycle, Calling, runtime
  <2>2. GlobalInv'
    BY <1>12, Constants DEF Dispatcher, Ask, LocalInv, GlobalInv, LocalTypes, PlaceInv, PlaceOf,
       LockOf, Running, At, Bundles, Lifecycle, Tokens, policy, memory, runtime, ghosts
  <2> QED BY <2>1, <2>2
<1>13. ASSUME NEW c \in Callers, ScriptInvokes(c) PROVE LocalInv' /\ GlobalInv'
  <2>1. LocalInv'
    BY <1>13, AskMoves, MovesWell, Constants DEF ScriptInvokes, At, Ask, Goes, Ends, LocalInv,
       GlobalInv, LocalTypes, PlaceInv, PlaceOf, LockOf, Lifecycle, Calling, runtime
  <2>2. GlobalInv'
    BY <1>13, Constants DEF ScriptInvokes, Ask, LocalInv, GlobalInv, LocalTypes, PlaceInv,
       PlaceOf, LockOf, Running, At, Bundles, Lifecycle, Tokens, policy, memory, runtime, ghosts
  <2> QED BY <2>1, <2>2
<1>14. ASSUME NEW c \in Callers, Refused(c) PROVE LocalInv' /\ GlobalInv'
  <2>1. LocalInv'
    BY <1>14, RefusedMoves, MovesWell, Constants DEF Refused, At, Goes, Ends, LocalInv,
       GlobalInv, LocalTypes, PlaceInv, PlaceOf, LockOf, Lifecycle, Calling, runtime
  <2>2. GlobalInv'
    BY <1>14, Constants DEF Refused, LocalInv, GlobalInv, LocalTypes, PlaceInv, PlaceOf, LockOf,
       Running, At, Bundles, Lifecycle, Tokens, policy, memory, runtime, ghosts
  <2> QED BY <2>1, <2>2
<1>15. ASSUME NEW c \in Callers, ReadEnabled(c) PROVE LocalInv' /\ GlobalInv'
  <2>1. LocalInv'
    BY <1>15, ReadEnabledMoves, MovesWell, Constants DEF ReadEnabled, Read, At, Goes, Ends,
       LocalInv, GlobalInv, LocalTypes, PlaceInv, PlaceOf, LockOf, Lifecycle, Calling, runtime
  <2>2. GlobalInv'
    BY <1>15, Constants DEF ReadEnabled, Read, LocalInv, GlobalInv, LocalTypes, PlaceInv,
       PlaceOf, LockOf, Running, At, Bundles, Lifecycle, Tokens, policy, memory, runtime, ghosts
  <2> QED BY <2>1, <2>2
<1>16. ASSUME NEW c \in Callers, ReadTrust(c) PROVE LocalInv' /\ GlobalInv'
  <2>1. LocalInv'
    BY <1>16, ReadTrustMoves, MovesWell, Constants DEF ReadTrust, Read, At, Goes, Ends, LocalInv,
       GlobalInv, LocalTypes, PlaceInv, PlaceOf, LockOf, Lifecycle, Calling, runtime
  <2>2. GlobalInv'
    BY <1>16, Constants DEF ReadTrust, Read, LocalInv, GlobalInv, LocalTypes, PlaceInv, PlaceOf,
       LockOf, Running, At, Bundles, Lifecycle, Tokens, policy, memory, runtime, ghosts
  <2> QED BY <2>1, <2>2
<1>17. ASSUME NEW c \in Callers, ReadGrant(c) PROVE LocalInv' /\ GlobalInv'
  <2>1. LocalInv'
    BY <1>17, ReadGrantMoves, MovesWell, Constants DEF ReadGrant, Read, At, Goes, Ends, LocalInv,
       GlobalInv, LocalTypes, PlaceInv, PlaceOf, LockOf, Lifecycle, Calling, runtime
  <2>2. GlobalInv'
    BY <1>17, Constants DEF ReadGrant, Read, LocalInv, GlobalInv, LocalTypes, PlaceInv, PlaceOf,
       LockOf, Running, At, Bundles, Lifecycle, Tokens, policy, memory, runtime, ghosts
  <2> QED BY <2>1, <2>2
<1>18. ASSUME NEW c \in Callers, ReadSession(c) PROVE LocalInv' /\ GlobalInv'
  <2>1. LocalInv'
    BY <1>18, ReadSessionMoves, MovesWell, Constants DEF ReadSession, Read, At, Goes, Ends,
       LocalInv, GlobalInv, LocalTypes, PlaceInv, PlaceOf, LockOf, Lifecycle, Calling, runtime
  <2>2. GlobalInv'
    BY <1>18, Constants DEF ReadSession, Read, LocalInv, GlobalInv, LocalTypes, PlaceInv,
       PlaceOf, LockOf, Running, At, Bundles, Lifecycle, Tokens, policy, memory, runtime, ghosts
  <2> QED BY <2>1, <2>2
<1>19. ASSUME NEW c \in Callers, Audit(c) PROVE LocalInv' /\ GlobalInv'
  <2>1. LocalInv'
    BY <1>19, AuditMoves, MovesWell, Constants DEF Audit, At, Goes, Ends, LocalInv, GlobalInv,
       LocalTypes, PlaceInv, PlaceOf, LockOf, Lifecycle, Calling, runtime
  <2>2. GlobalInv'
    BY <1>19, Constants DEF Audit, LocalInv, GlobalInv, LocalTypes, PlaceInv, PlaceOf, LockOf,
       Running, At, Bundles, Lifecycle, Tokens, policy, memory, runtime, ghosts
  <2> QED BY <2>1, <2>2
<1>20. ASSUME NEW c \in Callers, Consume(c) PROVE LocalInv' /\ GlobalInv'
  <2>1. LocalInv'
    BY <1>20, ConsumeMoves, MovesWell, Constants DEF Consume, At, Goes, Ends, LocalInv,
       GlobalInv, LocalTypes, PlaceInv, PlaceOf, LockOf, Lifecycle, Calling, runtime
  <2>2. GlobalInv'
    <3>1. spent' \in [Tokens -> Nat]
      BY <1>20 DEF Consume, GlobalInv
    <3>2. /\ tokens' \subseteq tokens
          /\ UNCHANGED <<disk, policy, session, issued, runtime, overlap, unsaved, leftover, mixed>>
      BY <1>20 DEF Consume
    <3> QED BY <3>1, <3>2 DEF GlobalInv, Running, policy, runtime
  <2> QED BY <2>1, <2>2
<1>21. ASSUME NEW c \in Callers, Abandon(c) PROVE LocalInv' /\ GlobalInv'
  <2>1. LocalInv'
    BY <1>21, AbandonMoves, MovesWell, Constants DEF Abandon, At, Goes, Ends, LocalInv,
       GlobalInv, LocalTypes, PlaceInv, PlaceOf, LockOf, Lifecycle, Calling, runtime
  <2>2. GlobalInv'
    BY <1>21, Constants DEF Abandon, LocalInv, GlobalInv, LocalTypes, PlaceInv, PlaceOf, LockOf,
       Running, At, Bundles, Lifecycle, Tokens, policy, memory, runtime, ghosts
  <2> QED BY <2>1, <2>2
<1>22. ASSUME GrantPersistent PROVE LocalInv' /\ GlobalInv'
  <2>1. UNCHANGED <<local, lock>>
    BY <1>22 DEF GrantPersistent, Give, runtime
  <2>2. LocalInv'
    BY <2>1 DEF LocalInv, LocalTypes, PlaceInv, PlaceOf, LockOf, local, runtime
  <2>3. GlobalInv'
    BY <1>22, Constants DEF GrantPersistent, Give, GlobalInv, Running, Bundles, Tokens, policy,
       memory, runtime, ghosts
  <2> QED BY <2>2, <2>3
<1>23. ASSUME SetTrust PROVE LocalInv' /\ GlobalInv'
  <2>1. UNCHANGED <<local, lock>>
    BY <1>23 DEF SetTrust, Give, runtime
  <2>2. LocalInv'
    BY <2>1 DEF LocalInv, LocalTypes, PlaceInv, PlaceOf, LockOf, local, runtime
  <2>3. GlobalInv'
    BY <1>23, Constants DEF SetTrust, Give, GlobalInv, Running, Bundles, Tokens, policy, memory,
       runtime, ghosts
  <2> QED BY <2>2, <2>3
<1>24. ASSUME GrantSession PROVE LocalInv' /\ GlobalInv'
  <2>1. UNCHANGED <<local, lock>>
    BY <1>24 DEF GrantSession, Give, runtime
  <2>2. LocalInv'
    BY <2>1 DEF LocalInv, LocalTypes, PlaceInv, PlaceOf, LockOf, local, runtime
  <2>3. GlobalInv'
    BY <1>24, Constants DEF GrantSession, Give, GlobalInv, Running, Bundles, Tokens, policy,
       memory, runtime, ghosts
  <2> QED BY <2>2, <2>3
<1>25. ASSUME RevokePersistent PROVE LocalInv' /\ GlobalInv'
  <2>1. UNCHANGED <<local, lock>>
    BY <1>25 DEF RevokePersistent, runtime
  <2>2. LocalInv'
    BY <2>1 DEF LocalInv, LocalTypes, PlaceInv, PlaceOf, LockOf, local, runtime
  <2>3. GlobalInv'
    BY <1>25, Constants DEF RevokePersistent, GlobalInv, Running, Bundles, Tokens, policy,
       memory, runtime, ghosts
  <2> QED BY <2>2, <2>3
<1>26. ASSUME Distrust PROVE LocalInv' /\ GlobalInv'
  <2>1. UNCHANGED <<local, lock>>
    BY <1>26 DEF Distrust, runtime
  <2>2. LocalInv'
    BY <2>1 DEF LocalInv, LocalTypes, PlaceInv, PlaceOf, LockOf, local, runtime
  <2>3. GlobalInv'
    BY <1>26, Constants DEF Distrust, GlobalInv, Running, Bundles, Tokens, policy, memory,
       runtime, ghosts
  <2> QED BY <2>2, <2>3
<1>27. ASSUME EndSession PROVE LocalInv' /\ GlobalInv'
  <2>1. UNCHANGED <<local, lock>>
    BY <1>27 DEF EndSession, runtime
  <2>2. LocalInv'
    BY <2>1 DEF LocalInv, LocalTypes, PlaceInv, PlaceOf, LockOf, local, runtime
  <2>3. GlobalInv'
    BY <1>27, Constants DEF EndSession, GlobalInv, Running, Bundles, Tokens, policy, memory,
       runtime, ghosts
  <2> QED BY <2>2, <2>3
<1>28. ASSUME Expire PROVE LocalInv' /\ GlobalInv'
  <2>1. UNCHANGED <<local, lock>>
    BY <1>28 DEF Expire, runtime
  <2>2. LocalInv'
    BY <2>1 DEF LocalInv, LocalTypes, PlaceInv, PlaceOf, LockOf, local, runtime
  <2>3. GlobalInv'
    BY <1>28, Constants DEF Expire, GlobalInv, Running, Bundles, Tokens, policy, memory, runtime,
       ghosts
  <2> QED BY <2>2, <2>3
<1>29. ASSUME IssueToken PROVE LocalInv' /\ GlobalInv'
  <2>1. UNCHANGED <<local, lock>>
    BY <1>29 DEF IssueToken, runtime
  <2>2. LocalInv'
    BY <2>1 DEF LocalInv, LocalTypes, PlaceInv, PlaceOf, LockOf, local, runtime
  <2>3. GlobalInv'
    BY <1>29, Constants DEF IssueToken, GlobalInv, Running, Bundles, Tokens, policy, memory,
       runtime, ghosts
  <2> QED BY <2>2, <2>3
<1>30. ASSUME Replace PROVE LocalInv' /\ GlobalInv'
  <2>1. UNCHANGED <<local, lock>>
    BY <1>30 DEF Replace, runtime
  <2>2. LocalInv'
    BY <2>1 DEF LocalInv, LocalTypes, PlaceInv, PlaceOf, LockOf, local, runtime
  <2>3. GlobalInv'
    BY <1>30, Constants DEF Replace, GlobalInv, Running, Bundles, Tokens, policy, memory,
       runtime, ghosts
  <2> QED BY <2>2, <2>3
<1>31. ASSUME Restart PROVE LocalInv' /\ GlobalInv'
  <2>1. NoRequest \in RequestSet
    BY RequestsAre DEF GlobalInv
  <2>2. LocalInv'
    BY <1>31, <2>1, Constants DEF Restart, LocalInv, LocalTypes, PlaceInv, PlaceOf, LockOf,
       Labels, Calling, Bundles, NoBundle
  <2>3. GlobalInv'
    BY <1>31 DEF Restart, GlobalInv, Running, policy
  <2> QED BY <2>2, <2>3
<1>32. ASSUME UNCHANGED vars PROVE LocalInv' /\ GlobalInv'
  <2>1. UNCHANGED <<local, lock>>
    BY <1>32 DEF vars, runtime
  <2>2. LocalInv'
    BY <2>1 DEF LocalInv, LocalTypes, PlaceInv, PlaceOf, LockOf, local, runtime
  <2>3. GlobalInv'
    BY <1>32, Constants DEF vars, GlobalInv, Running, Bundles, Tokens, policy, memory, runtime,
       ghosts
  <2> QED BY <2>2, <2>3
<1>t. LocalInv' /\ GlobalInv'
  BY <1>1, <1>2, <1>3, <1>4, <1>5, <1>6, <1>7, <1>8, <1>9, <1>10, <1>11, <1>12, <1>13, <1>14,
     <1>15, <1>16, <1>17, <1>18, <1>19, <1>20, <1>21, <1>22, <1>23, <1>24, <1>25, <1>26, <1>27,
     <1>28, <1>29, <1>30, <1>31, <1>32 DEF Next, Policy, Runtime, Call, Retract, Outside
<1> QED BY <1>s, <1>t DEF ShapeInv

\* Types, and who holds the lock of the manager: exactly the operation whose script
\* runs, whatever else the service is asked to do (service.rs, manager.rs).
THEOREM Typing == Spec => []TypeOK
<1>1. ShapeInv => TypeOK
  BY ShapeIsTypes
<1> QED BY <1>1, TypesStart, TypesStep, PTL DEF Spec

-----------------------------------------------------------------------------
(* What a call is let through with.                                          *)

\* The facts a caller relies on were relied on before, or hold now.
Learns(c) ==
    pc'[c] \in Calling =>
        \/ pc'[c] = "evaluate"
        \/ /\ pc[c] \in Calling /\ req'[c] = req[c]
           /\ Asked(req[c].cap) \cap ReadAt(pc'[c]) \subseteq ReadAt(pc[c]) \cup Holding'

LEMMA LearnsIs ==
    ASSUME ReadInv, NEW consented, Observe(consented), \A c \in Callers : Learns(c)
    PROVE  ReadInv'
<1> SUFFICES ASSUME NEW c \in Callers, pc'[c] \in Calling,
                    NEW f \in Asked(req'[c].cap) \cap ReadAt(pc'[c])
             PROVE  f \in seen'[c]
  BY DEF ReadInv
<1>1. seen'[c] = Asked(req'[c].cap) \cap (Holding' \cup seen[c])
  BY DEF Observe
<1>2. CASE pc'[c] = "evaluate"
  BY <1>2 DEF ReadAt
<1>3. CASE pc'[c] # "evaluate"
  <2>1. /\ pc[c] \in Calling /\ req'[c] = req[c]
        /\ Asked(req[c].cap) \cap ReadAt(pc'[c]) \subseteq ReadAt(pc[c]) \cup Holding'
    BY <1>3 DEF Learns
  <2>2. f \in ReadAt(pc[c]) \cup Holding' /\ f \in Asked(req[c].cap)
    BY <2>1
  <2>3. Asked(req[c].cap) \cap ReadAt(pc[c]) \subseteq seen[c]
    BY <2>1 DEF ReadInv
  <2> QED BY <1>1, <2>1, <2>2, <2>3
<1> QED BY <1>2, <1>3

\* Nobody learns who does not move, or leaves the evaluation.
LEMMA OthersLearn ==
    ASSUME NEW c \in Callers, NEW p, NEW o, NEW v, NEW s, NEW r, Moves(c, p, o, v, s, r),
           NEW d \in Callers, d # c
    PROVE  Learns(d)
BY DEF Moves, Learns

LEMMA LeaverLearns ==
    ASSUME NEW c \in Callers, NEW p, NEW o, NEW v, NEW s, NEW r, Moves(c, p, o, v, s, r),
           p \notin Calling \/ p = "evaluate"
    PROVE  \A d \in Callers : Learns(d)
BY OthersLearn DEF Moves, Learns

LEMMA ReadersLearn ==
    ASSUME NEW c \in Callers, NEW p, Goes(c, p), pc[c] \in Calling,
           Asked(req[c].cap) \cap ReadAt(p) \subseteq ReadAt(pc[c]) \cup Holding'
    PROVE  \A d \in Callers : Learns(d)
<1>1. ASSUME NEW d \in Callers, d # c PROVE Learns(d)
  BY <1>1, OthersLearn DEF Goes
<1>2. Learns(c)
  BY DEF Goes, Moves, Learns
<1> QED BY <1>1, <1>2

LEMMA Reading ==
    /\ ReadAt("trust") = ReadAt("evaluate") \cup {"enabled"}
    /\ ReadAt("grant") = ReadAt("trust") \cup {"trusted"}
    /\ ReadAt("session") = ReadAt("grant") \cup {"granted"}
    /\ ReadAt("audit") = ReadAt("session") \cup {"session"}
    /\ ReadAt("consume") = ReadAt("audit") /\ ReadAt("dispatch") = ReadAt("audit")
    /\ ReadAt("dispatch") = Facts
BY DEF ReadAt, Facts, Consents

LEMMA ReadStep == ShapeInv /\ ReadInv /\ [Next]_vars => ReadInv'
<1> SUFFICES ASSUME LocalInv, GlobalInv, ReadInv, [Next]_vars PROVE ReadInv'
  BY DEF ShapeInv
<1>o. CASE UNCHANGED vars
  BY <1>o DEF vars, local, ReadInv
<1>a. ASSUME UNCHANGED <<pc, req>> PROVE \A d \in Callers : Learns(d)
  BY <1>a DEF Learns
<1>1. ASSUME NEW c \in Callers, Begin(c) PROVE \A d \in Callers : Learns(d)
  <2>1. PICK o \in Lifecycle :
          Moves(c, IF o = "load" THEN "fingerprint" ELSE "policy", o, version[c], step[c], req[c])
    BY <1>1, BeginMoves
  <2>2. (IF o = "load" THEN "fingerprint" ELSE "policy") \notin Calling
    BY DEF Calling
  <2> QED BY <2>1, <2>2, LeaverLearns
<1>2. ASSUME NEW c \in Callers, Fingerprint(c) PROVE \A d \in Callers : Learns(d)
  BY <1>2, FingerprintMoves, LeaverLearns DEF Goes, Ends, Calling
<1>3. ASSUME NEW c \in Callers, Known(c) PROVE \A d \in Callers : Learns(d)
  BY <1>3, KnownMoves, LeaverLearns DEF Goes, Ends, Calling
<1>4. ASSUME NEW c \in Callers, Reconcile(c) PROVE \A d \in Callers : Learns(d)
  BY <1>4, ReconcileMoves, LeaverLearns DEF LocalInv, LocalTypes, Calling
<1>5. ASSUME NEW c \in Callers, SetPolicy(c) PROVE \A d \in Callers : Learns(d)
  BY <1>5, SetPolicyMoves, LeaverLearns DEF Goes, Ends, Calling
<1>6. ASSUME NEW c \in Callers, StatementFails(c) PROVE \A d \in Callers : Learns(d)
  BY <1>6, StatementFailsMoves, LeaverLearns DEF Goes, Ends, Calling
<1>7. ASSUME NEW c \in Callers, Rollback(c) PROVE \A d \in Callers : Learns(d)
  BY <1>7, RollbackMoves, LeaverLearns DEF Goes, Ends, Calling
<1>8. ASSUME NEW c \in Callers, WithoutScript(c) PROVE \A d \in Callers : Learns(d)
  BY <1>8, WithoutScriptMoves, LeaverLearns DEF Goes, Ends, Calling
<1>9. ASSUME NEW c \in Callers, BeginScript(c) PROVE \A d \in Callers : Learns(d)
  BY <1>9, BeginScriptMoves, LeaverLearns DEF Goes, Ends, Calling
<1>10. ASSUME NEW c \in Callers, EndScript(c) PROVE \A d \in Callers : Learns(d)
  BY <1>10, EndScriptMoves, LeaverLearns DEF Goes, Ends, Calling
<1>11. ASSUME NEW c \in Callers, Invoke(c) PROVE \A d \in Callers : Learns(d)
  BY <1>11, InvokeMoves, LeaverLearns DEF Goes, Ends, Calling
<1>12. ASSUME NEW c \in Callers, Dispatcher(c) PROVE \A d \in Callers : Learns(d)
  <2>1. PICK r \in Requests : Moves(c, "evaluate", op[c], version[c], step[c], r)
    BY <1>12, AskMoves DEF Dispatcher
  <2> QED BY <2>1, LeaverLearns
<1>13. ASSUME NEW c \in Callers, ScriptInvokes(c) PROVE \A d \in Callers : Learns(d)
  <2>1. PICK r \in Requests : Moves(c, "evaluate", op[c], version[c], step[c], r)
    BY <1>13, AskMoves DEF ScriptInvokes
  <2> QED BY <2>1, LeaverLearns
<1>14. ASSUME NEW c \in Callers, Refused(c) PROVE \A d \in Callers : Learns(d)
  BY <1>14, RefusedMoves, LeaverLearns DEF Goes, Ends, Calling
<1>15. ASSUME NEW c \in Callers, ReadEnabled(c) PROVE \A d \in Callers : Learns(d)
  <2>1. pc[c] = "evaluate" /\ Goes(c, "trust")
    BY <1>15, ReadEnabledMoves DEF ReadEnabled, Read, At
  <2>2. "enabled" \in Asked(req[c].cap) => "enabled" \in Holding'
    BY <1>15 DEF ReadEnabled, Read, Asked, Holding, Facts, Consents, policy, memory
  <2> QED BY <2>1, <2>2, Reading, ReadersLearn DEF Calling
<1>16. ASSUME NEW c \in Callers, ReadTrust(c) PROVE \A d \in Callers : Learns(d)
  <2>1. pc[c] = "trust" /\ Goes(c, "grant")
    BY <1>16, ReadTrustMoves DEF ReadTrust, Read, At
  <2>2. "trusted" \in Asked(req[c].cap) => "trusted" \in Holding'
    BY <1>16 DEF ReadTrust, Read, Asked, Holding, Facts, Consents, policy, memory
  <2> QED BY <2>1, <2>2, Reading, ReadersLearn DEF Calling
<1>17. ASSUME NEW c \in Callers, ReadGrant(c) PROVE \A d \in Callers : Learns(d)
  <2>1. pc[c] = "grant" /\ Goes(c, "session")
    BY <1>17, ReadGrantMoves DEF ReadGrant, Read, At
  <2>2. "granted" \in Asked(req[c].cap) => "granted" \in Holding'
    BY <1>17 DEF ReadGrant, Read, Asked, Holding, Facts, Consents, policy, memory
  <2> QED BY <2>1, <2>2, Reading, ReadersLearn DEF Calling
<1>18. ASSUME NEW c \in Callers, ReadSession(c) PROVE \A d \in Callers : Learns(d)
  <2>1. pc[c] = "session" /\ Goes(c, "audit")
    BY <1>18, ReadSessionMoves DEF ReadSession, Read, At
  <2>2. "session" \in Asked(req[c].cap) => "session" \in Holding'
    BY <1>18 DEF ReadSession, Read, Asked, Holding, Facts, Consents, policy, memory
  <2> QED BY <2>1, <2>2, Reading, ReadersLearn DEF Calling
<1>19. ASSUME NEW c \in Callers, Audit(c) PROVE \A d \in Callers : Learns(d)
  <2>1. pc[c] = "audit" /\ (Goes(c, "consume") \/ Goes(c, "dispatch"))
    BY <1>19, AuditMoves DEF Audit, At
  <2> QED BY <2>1, Reading, ReadersLearn DEF Calling
<1>20. ASSUME NEW c \in Callers, Consume(c) PROVE \A d \in Callers : Learns(d)
  <2>1. pc[c] = "consume"
    BY <1>20 DEF Consume, At
  <2>2. CASE req[c].token \in tokens
    BY <1>20, <2>1, <2>2, ConsumeMoves, Reading, ReadersLearn DEF Calling
  <2>3. CASE req[c].token \notin tokens
    BY <1>20, <2>3, ConsumeMoves, LeaverLearns DEF Ends, Calling
  <2> QED BY <2>2, <2>3
<1>21. ASSUME NEW c \in Callers, Abandon(c) PROVE \A d \in Callers : Learns(d)
  BY <1>21, AbandonMoves, LeaverLearns DEF Goes, Ends, Calling
<1>22. ASSUME GrantPersistent PROVE \A d \in Callers : Learns(d)
  BY <1>22, <1>a DEF GrantPersistent, Give, local
<1>23. ASSUME SetTrust PROVE \A d \in Callers : Learns(d)
  BY <1>23, <1>a DEF SetTrust, Give, local
<1>24. ASSUME GrantSession PROVE \A d \in Callers : Learns(d)
  BY <1>24, <1>a DEF GrantSession, Give, local
<1>25. ASSUME RevokePersistent PROVE \A d \in Callers : Learns(d)
  BY <1>25, <1>a DEF RevokePersistent, local
<1>26. ASSUME Distrust PROVE \A d \in Callers : Learns(d)
  BY <1>26, <1>a DEF Distrust, local
<1>27. ASSUME EndSession PROVE \A d \in Callers : Learns(d)
  BY <1>27, <1>a DEF EndSession, local
<1>28. ASSUME Expire PROVE \A d \in Callers : Learns(d)
  BY <1>28, <1>a DEF Expire, local
<1>29. ASSUME IssueToken PROVE \A d \in Callers : Learns(d)
  BY <1>29, <1>a DEF IssueToken, local
<1>30. ASSUME Replace PROVE \A d \in Callers : Learns(d)
  BY <1>30, <1>a DEF Replace, local
<1>31. ASSUME Restart PROVE \A d \in Callers : Learns(d)
  BY <1>31 DEF Restart, Learns, Calling
<1>q. ASSUME Next PROVE \A d \in Callers : Learns(d)
  BY <1>q, <1>1, <1>2, <1>3, <1>4, <1>5, <1>6, <1>7, <1>8, <1>9, <1>10, <1>11, <1>12, <1>13,
     <1>14, <1>15, <1>16, <1>17, <1>18, <1>19, <1>20, <1>21, <1>22, <1>23, <1>24, <1>25, <1>26,
     <1>27, <1>28, <1>29, <1>30, <1>31 DEF Next, Policy, Runtime, Call, Retract, Outside
<1> QED BY <1>o, <1>q, LearnsIs DEF Next

LEMMA SpentStep == ShapeInv /\ SpentInv /\ [Next]_vars => SpentInv'
<1> SUFFICES ASSUME LocalInv, GlobalInv, SpentInv, [Next]_vars PROVE SpentInv'
  BY DEF ShapeInv
<1>a. ASSUME UNCHANGED <<spent, issued>>, tokens' \subseteq tokens PROVE SpentInv'
  BY <1>a DEF SpentInv
<1>1. ASSUME NEW c \in Callers, Begin(c) PROVE SpentInv'
  BY <1>1, <1>a DEF Begin, memory, ghosts
<1>2. ASSUME NEW c \in Callers, Fingerprint(c) PROVE SpentInv'
  BY <1>2, <1>a DEF Fingerprint, memory, ghosts
<1>3. ASSUME NEW c \in Callers, Known(c) PROVE SpentInv'
  BY <1>3, <1>a DEF Known, memory, ghosts
<1>4. ASSUME NEW c \in Callers, Reconcile(c) PROVE SpentInv'
  BY <1>4, <1>a DEF Reconcile, Statement
<1>5. ASSUME NEW c \in Callers, SetPolicy(c) PROVE SpentInv'
  BY <1>5, <1>a DEF SetPolicy, memory, ghosts
<1>6. ASSUME NEW c \in Callers, StatementFails(c) PROVE SpentInv'
  BY <1>6, <1>a DEF StatementFails, memory, ghosts
<1>7. ASSUME NEW c \in Callers, Rollback(c) PROVE SpentInv'
  BY <1>7, <1>a DEF Rollback, memory, ghosts
<1>8. ASSUME NEW c \in Callers, WithoutScript(c) PROVE SpentInv'
  BY <1>8, <1>a DEF WithoutScript, memory, ghosts
<1>9. ASSUME NEW c \in Callers, BeginScript(c) PROVE SpentInv'
  BY <1>9, <1>a DEF BeginScript, memory, ghosts
<1>10. ASSUME NEW c \in Callers, EndScript(c) PROVE SpentInv'
  BY <1>10, <1>a DEF EndScript, memory, ghosts
<1>11. ASSUME NEW c \in Callers, Invoke(c) PROVE SpentInv'
  BY <1>11, <1>a DEF Invoke, memory, ghosts
<1>12. ASSUME NEW c \in Callers, Dispatcher(c) PROVE SpentInv'
  BY <1>12, <1>a DEF Dispatcher, Ask, memory, ghosts
<1>13. ASSUME NEW c \in Callers, ScriptInvokes(c) PROVE SpentInv'
  BY <1>13, <1>a DEF ScriptInvokes, Ask, memory, ghosts
<1>14. ASSUME NEW c \in Callers, Refused(c) PROVE SpentInv'
  BY <1>14, <1>a DEF Refused, memory, ghosts
<1>15. ASSUME NEW c \in Callers, ReadEnabled(c) PROVE SpentInv'
  BY <1>15, <1>a DEF ReadEnabled, Read, memory, ghosts
<1>16. ASSUME NEW c \in Callers, ReadTrust(c) PROVE SpentInv'
  BY <1>16, <1>a DEF ReadTrust, Read, memory, ghosts
<1>17. ASSUME NEW c \in Callers, ReadGrant(c) PROVE SpentInv'
  BY <1>17, <1>a DEF ReadGrant, Read, memory, ghosts
<1>18. ASSUME NEW c \in Callers, ReadSession(c) PROVE SpentInv'
  BY <1>18, <1>a DEF ReadSession, Read, memory, ghosts
<1>19. ASSUME NEW c \in Callers, Audit(c) PROVE SpentInv'
  BY <1>19, <1>a DEF Audit, memory, ghosts
<1>20. ASSUME NEW c \in Callers, Consume(c) PROVE SpentInv'
  <2>1. CASE req[c].token \in tokens
    <3>3. req[c].token \in 1..issued
      BY <2>1 DEF GlobalInv
    <3>1. req[c].token \in Tokens /\ spent[req[c].token] = 0 /\ req[c].token <= issued
      BY <2>1, <3>3, Constants DEF GlobalInv, SpentInv, Tokens
    <3>4. /\ spent' = [spent EXCEPT ![req[c].token] = @ + 1]
          /\ tokens' = tokens \ {req[c].token} /\ issued' = issued
      BY <1>20, <2>1 DEF Consume
    <3>2. \A t \in Tokens : spent'[t] = IF t = req[c].token THEN 1 ELSE spent[t]
      BY <3>1, <3>4 DEF GlobalInv
    <3> QED BY <3>1, <3>2, <3>4 DEF SpentInv
  <2>2. CASE req[c].token \notin tokens
    BY <1>20, <2>2, <1>a DEF Consume
  <2> QED BY <2>1, <2>2
<1>21. ASSUME NEW c \in Callers, Abandon(c) PROVE SpentInv'
  BY <1>21, <1>a DEF Abandon, memory, ghosts
<1>22. ASSUME GrantPersistent PROVE SpentInv'
  BY <1>22, <1>a DEF GrantPersistent, Give, memory, ghosts
<1>23. ASSUME SetTrust PROVE SpentInv'
  BY <1>23, <1>a DEF SetTrust, Give, memory, ghosts
<1>24. ASSUME GrantSession PROVE SpentInv'
  BY <1>24, <1>a DEF GrantSession, Give, memory, ghosts
<1>25. ASSUME RevokePersistent PROVE SpentInv'
  BY <1>25, <1>a DEF RevokePersistent, memory, ghosts
<1>26. ASSUME Distrust PROVE SpentInv'
  BY <1>26, <1>a DEF Distrust, memory, ghosts
<1>27. ASSUME EndSession PROVE SpentInv'
  BY <1>27, <1>a DEF EndSession, memory, ghosts
<1>28. ASSUME Expire PROVE SpentInv'
  BY <1>28, <1>a DEF Expire, memory, ghosts
<1>29. ASSUME IssueToken PROVE SpentInv'
  BY <1>29 DEF IssueToken, SpentInv, GlobalInv, Tokens, ghosts
<1>30. ASSUME Replace PROVE SpentInv'
  BY <1>30, <1>a DEF Replace, memory, ghosts
<1>31. ASSUME Restart PROVE SpentInv'
  BY <1>31, <1>a DEF Restart, memory, ghosts
<1>32. ASSUME UNCHANGED vars PROVE SpentInv'
  BY <1>32, <1>a DEF vars, memory, ghosts
<1> QED BY <1>1, <1>2, <1>3, <1>4, <1>5, <1>6, <1>7, <1>8, <1>9, <1>10, <1>11, <1>12, <1>13,
           <1>14, <1>15, <1>16, <1>17, <1>18, <1>19, <1>20, <1>21, <1>22, <1>23, <1>24, <1>25,
           <1>26, <1>27, <1>28, <1>29, <1>30, <1>31, <1>32 DEF Next, Policy, Runtime, Call,
           Retract, Outside

LEMMA Reads == Spec => [](ShapeInv /\ ReadInv /\ SpentInv)
<1>1. Init => ReadInv /\ SpentInv
  BY DEF Init, ReadInv, SpentInv, Calling
<1> QED BY <1>1, TypesStart, TypesStep, ReadStep, SpentStep, PTL DEF Spec

\* A call reaches the host only with every fact it needs seen while it was
\* evaluated, and a token lets one call through (dispatcher.rs, invoke;
\* policy.rs, evaluate and consume_single_use_token).
THEOREM OnlyAuthorised == Spec => []Authorised
<1>1. ShapeInv /\ ReadInv /\ SpentInv => Authorised
  <2> SUFFICES ASSUME ReadInv, SpentInv PROVE Authorised
    OBVIOUS
  <2>1. ASSUME NEW c \in Callers, pc[c] = "dispatch" PROVE Asked(req[c].cap) \subseteq seen[c]
    <3>1. Asked(req[c].cap) \subseteq Facts
      BY DEF Asked, Needs, Facts, Consents
    <3> QED BY <2>1, <3>1, Reading DEF ReadInv, Calling
  <2>2. \A t \in Tokens : spent[t] <= 1
    BY DEF SpentInv
  <2> QED BY <2>1, <2>2 DEF Authorised, At
<1> QED BY <1>1, Reads, PTL

-----------------------------------------------------------------------------
(* Consents and the code that runs.                                          *)

LEMMA GivenIs ==
    ASSUME NEW consented, Observe(consented), NEW f \in Consents, f \in Holding', ~mixed'
    PROVE  given'[f] = IF f \in consented THEN stored ELSE given[f]
BY DEF Observe

LEMMA HoldingIs ==
    /\ \A f \in Consents : f \in Holding' <=> \/ f = "granted" /\ granted'
                                              \/ f = "trusted" /\ trusted'
                                              \/ f = "session" /\ session'
    /\ Consents = {"granted", "trusted", "session"}
BY DEF Holding, Facts, Consents

\* Nothing is given, stored, loaded or reconciled any further.
Calm ==
    /\ mixed' = mixed /\ stored' = stored
    /\ (granted' => granted) /\ (trusted' => trusted) /\ (session' => session)
    /\ Running' => Running /\ code' = code
    /\ \A c \in Callers :
         /\ pc'[c] = "reconcile" => step'[c] = 1 \/ (pc[c] = "reconcile" /\ step'[c] = step[c])
         /\ session' /\ pc[c] = "reconcile" /\ step[c] = 5 => pc'[c] = "reconcile" /\ step'[c] = 5

LEMMA CalmKeeps == ASSUME ConsentInv, Calm, Observe({}) PROVE ConsentInv'
<1> SUFFICES ASSUME ~mixed' PROVE Consistent'
  BY DEF ConsentInv
<1>1. Consistent /\ ~mixed /\ stored' = stored
  BY DEF ConsentInv, Calm
<1>2. granted' => given'["granted"] = stored'
  BY <1>1, GivenIs, HoldingIs DEF Calm, Consistent
<1>3. trusted' => given'["trusted"] = stored'
  BY <1>1, GivenIs, HoldingIs DEF Calm, Consistent
<1>4. session' => given'["session"] = stored' \/ Unclear'
  <2>1. Unclear /\ session' => Unclear'
    BY DEF Calm, Unclear
  <2> QED BY <1>1, <2>1, GivenIs, HoldingIs DEF Calm, Consistent
<1>5. Running' => code' = stored'
  BY <1>1 DEF Calm, Consistent
<1>6. \A c \in Callers : pc'[c] = "reconcile" =>
         (step'[c] >= 2 => ~granted') /\ (step'[c] >= 3 => ~trusted')
  BY <1>1 DEF Calm, Consistent
<1> QED BY <1>2, <1>3, <1>4, <1>5, <1>6 DEF Consistent

LEMMA Giving ==
    ASSUME ConsentInv, Give, NEW f \in Consents, Observe({f}),
           granted' => granted \/ f = "granted", trusted' => trusted \/ f = "trusted",
           session' => session \/ f = "session"
    PROVE  ConsentInv'
<1> SUFFICES ASSUME ~mixed' PROVE Consistent'
  BY DEF ConsentInv
<1>1. ~mixed /\ ~Reconciling /\ Consistent /\ UNCHANGED <<stored, code, state, lock, pc, step>>
  BY DEF Give, ConsentInv, runtime, local
<1>2. ~Unclear /\ \A c \in Callers : pc'[c] # "reconcile"
  BY <1>1 DEF Unclear, Reconciling
<1>3. \A g \in Holding' \cap Consents : given'[g] = IF g = f THEN stored ELSE given[g]
  BY GivenIs
<1>4. /\ granted' => given'["granted"] = stored'
      /\ trusted' => given'["trusted"] = stored'
      /\ session' => given'["session"] = stored'
  BY <1>1, <1>2, <1>3, HoldingIs DEF Consistent
<1> QED BY <1>1, <1>2, <1>4 DEF Consistent, Running

LEMMA ConsentStep == ShapeInv /\ ConsentInv /\ [Next]_vars => ConsentInv'
<1> SUFFICES ASSUME LocalInv, GlobalInv, ConsentInv, [Next]_vars PROVE ConsentInv'
  BY DEF ShapeInv
<1>o. CASE UNCHANGED vars
  BY <1>o DEF vars, policy, memory, runtime, local, ghosts, ConsentInv, Consistent, Unclear, Running
<1>l. ASSUME UNCHANGED <<local, stored, mixed, state, lock, code>>,
             granted' => granted, trusted' => trusted, session' => session
      PROVE  Calm
  BY <1>l DEF Calm, Running, local
<1>1. ASSUME NEW c \in Callers, Begin(c) PROVE Calm
  BY <1>1, BeginMoves, StatementsAre DEF Begin, At, Moves, Goes, Ends, Calm, Running, Calling,
     LocalInv, LockOf, policy, memory, runtime, ghosts
<1>2. ASSUME NEW c \in Callers, Fingerprint(c) PROVE Calm
  BY <1>2, FingerprintMoves, StatementsAre DEF Fingerprint, At, Moves, Goes, Ends, Calm, Running,
     Calling, LocalInv, LockOf, policy, memory, runtime, ghosts
<1>3. ASSUME NEW c \in Callers, Known(c) PROVE Calm
  BY <1>3, KnownMoves, StatementsAre DEF Known, At, Moves, Goes, Ends, Calm, Running, Calling,
     LocalInv, LockOf, policy, memory, runtime, ghosts
<1>4. ASSUME NEW c \in Callers, Reconcile(c), Observe({}) PROVE ConsentInv'
  <2> SUFFICES ASSUME ~mixed' PROVE Consistent'
    BY DEF ConsentInv
  <2>1. pc[c] = "reconcile" /\ step[c] \in 1..5 /\ Statement(c, Statements[step[c]])
        /\ UNCHANGED <<state, code, lock>>
    BY <1>4 DEF Reconcile, At, LocalInv, LocalTypes, PlaceInv, PlaceOf, runtime
  <2>2. /\ ~mixed /\ Consistent /\ (Running' <=> Running)
        /\ (granted' => granted) /\ (trusted' => trusted) /\ (session' => session)
    BY <2>1 DEF Statement, ConsentInv, Running
  <2>3. step[c] = 4 => stored' = version[c] /\ ~granted /\ ~trusted /\ (Running => code = version[c])
    <3> SUFFICES ASSUME step[c] = 4
                 PROVE  stored' = version[c] /\ ~granted /\ ~trusted /\ (Running => code = version[c])
      OBVIOUS
    <3>1. Statement(c, "store")
      BY <2>1, StatementsAre
    <3>2. stored' = version[c] /\ (Running => code = version[c])
      BY <3>1 DEF Statement
    <3> QED BY <2>1, <2>2, <3>2 DEF Consistent
  <2>4. step[c] # 4 => stored' = stored
    BY <2>1, StatementsAre DEF Statement
  <2>5. granted' => given'["granted"] = stored'
    BY <1>4, <2>2, <2>3, <2>4, GivenIs, HoldingIs DEF Consistent
  <2>6. trusted' => given'["trusted"] = stored'
    BY <1>4, <2>2, <2>3, <2>4, GivenIs, HoldingIs DEF Consistent
  <2>7. Running' => code' = stored'
    BY <2>1, <2>2, <2>3, <2>4 DEF Consistent
  <2>8. \A d \in Callers \ {c} : pc'[d] = pc[d] /\ step'[d] = step[d]
    BY <1>4, ReconcileMoves DEF Moves, LocalInv, LocalTypes
  <2>9. pc'[c] = IF step[c] < 5 THEN "reconcile" ELSE "policy"
    BY <1>4, <2>1, ReconcileMoves DEF Moves
  <2>10. step[c] < 5 => step'[c] = step[c] + 1
    BY <1>4, ReconcileMoves DEF Moves
  <2>11. session' => given'["session"] = stored' \/ Unclear'
    <3> SUFFICES ASSUME session' PROVE given'["session"] = stored' \/ Unclear'
      OBVIOUS
    <3>1. step[c] # 5
      BY <2>1, StatementsAre DEF Statement
    <3>2. given'["session"] = given["session"]
      BY <1>4, GivenIs, HoldingIs
    <3>3. CASE step[c] = 4
      <4>1. CASE Running
        BY <2>2, <2>3, <3>2, <3>3, <4>1 DEF Consistent, Unclear
      <4>2. CASE ~Running
        BY <2>2, <2>9, <2>10, <3>3, <4>2 DEF Unclear
      <4> QED BY <4>1, <4>2
    <3>4. CASE step[c] # 4
      <4>1. Unclear => Unclear'
        BY <2>2, <2>8, <3>1 DEF Unclear
      <4> QED BY <2>2, <2>4, <3>2, <3>4, <4>1 DEF Consistent
    <3> QED BY <3>3, <3>4
  <2>12. ASSUME NEW d \in Callers, pc'[d] = "reconcile"
         PROVE  (step'[d] >= 2 => ~granted') /\ (step'[d] >= 3 => ~trusted')
    <3>1. CASE d # c
      BY <2>2, <2>8, <2>12, <3>1 DEF Consistent
    <3>2. CASE d = c
      <4>1. step[c] < 5 /\ step'[c] = step[c] + 1
        BY <2>1, <2>9, <2>10, <2>12, <3>2
      <4>2. step[c] = 1 => ~granted'
        BY <2>1, StatementsAre DEF Statement
      <4>3. step[c] = 2 => ~trusted'
        BY <2>1, StatementsAre DEF Statement
      <4> QED BY <2>1, <2>2, <3>2, <4>1, <4>2, <4>3 DEF Consistent
    <3> QED BY <3>1, <3>2
  <2> QED BY <2>5, <2>6, <2>7, <2>11, <2>12 DEF Consistent
<1>5. ASSUME NEW c \in Callers, SetPolicy(c) PROVE Calm
  <2>1. pc[c] = "policy" /\ UNCHANGED <<mixed, stored, granted, trusted, session, state, lock, code>>
    BY <1>5 DEF SetPolicy, At, memory, runtime
  <2>2. /\ pc'[c] = "runtime"
        /\ \A d \in Callers \ {c} : pc'[d] = pc[d] /\ step'[d] = step[d]
    BY <1>5, SetPolicyMoves DEF Goes, Moves
  <2> QED BY <2>1, <2>2 DEF Calm, Running
<1>6. ASSUME NEW c \in Callers, StatementFails(c) PROVE Calm
  BY <1>6, StatementFailsMoves, StatementsAre DEF StatementFails, At, At, Moves, Goes, Ends,
     Calm, Running, Calling, LocalInv, LockOf, policy, memory, runtime, ghosts
<1>7. ASSUME NEW c \in Callers, Rollback(c) PROVE Calm
  BY <1>7, RollbackMoves, StatementsAre DEF Rollback, At, Moves, Goes, Ends, Calm, Running,
     Calling, LocalInv, LockOf, policy, memory, runtime, ghosts
<1>8. ASSUME NEW c \in Callers, WithoutScript(c) PROVE Calm
  BY <1>8, WithoutScriptMoves, StatementsAre DEF WithoutScript, At, Moves, Goes, Ends, Calm,
     Running, Calling, LocalInv, LockOf, policy, memory, runtime, ghosts
<1>9. ASSUME NEW c \in Callers, BeginScript(c), Observe({}) PROVE ConsentInv'
  <2> SUFFICES ASSUME ~mixed' PROVE Consistent'
    BY DEF ConsentInv
  <2>1. /\ ~mixed /\ Consistent /\ UNCHANGED <<granted, trusted, session, stored>>
        /\ op[c] = "load" => code' = stored /\ ~Reconciling
        /\ op[c] # "load" => code' = code /\ Running
    BY <1>9 DEF BeginScript, NoScript, ConsentInv, Running, policy, memory
  <2>2. code' = stored'
    BY <2>1 DEF Consistent
  <2>3. ~Unclear
    BY <2>1 DEF Unclear, Reconciling
  <2>4. \A d \in Callers : pc'[d] = "reconcile" => pc[d] = "reconcile" /\ step'[d] = step[d]
    BY <1>9, BeginScriptMoves DEF Goes, Moves
  <2>5. \A f \in Holding' \cap Consents : given'[f] = given[f]
    BY <1>9, GivenIs
  <2>6. /\ granted' => given'["granted"] = stored'
        /\ trusted' => given'["trusted"] = stored'
        /\ session' => given'["session"] = stored'
    BY <2>1, <2>3, <2>5, HoldingIs DEF Consistent
  <2> QED BY <2>1, <2>2, <2>4, <2>6 DEF Consistent
<1>10. ASSUME NEW c \in Callers, EndScript(c) PROVE Calm
  <2>1. pc[c] = "script" /\ UNCHANGED <<mixed, stored, granted, trusted, session>>
    BY <1>10 DEF EndScript, At, policy, memory, ghosts
  <2>2. Running
    BY <2>1, Constants DEF LocalInv, LockOf, Running
  <2>3. Running' => code' = code
    BY <1>10 DEF EndScript, Running
  <2>4. /\ pc'[c] \in {"idle", "rollback"}
        /\ \A d \in Callers \ {c} : pc'[d] = pc[d] /\ step'[d] = step[d]
    BY <1>10, EndScriptMoves DEF Goes, Ends, Moves
  <2> QED BY <2>1, <2>2, <2>3, <2>4 DEF Calm
<1>11. ASSUME NEW c \in Callers, Invoke(c) PROVE Calm
  BY <1>11, InvokeMoves, StatementsAre DEF Invoke, At, Moves, Goes, Ends, Calm, Running, Calling,
     LocalInv, LockOf, policy, memory, runtime, ghosts
<1>12. ASSUME NEW c \in Callers, Dispatcher(c) PROVE Calm
  BY <1>12, AskMoves, StatementsAre DEF Dispatcher, Ask, At, Moves, Goes, Ends, Calm, Running,
     Calling, LocalInv, LockOf, policy, memory, runtime, ghosts
<1>13. ASSUME NEW c \in Callers, ScriptInvokes(c) PROVE Calm
  BY <1>13, AskMoves, StatementsAre DEF ScriptInvokes, Ask, At, Moves, Goes, Ends, Calm, Running,
     Calling, LocalInv, LockOf, policy, memory, runtime, ghosts
<1>14. ASSUME NEW c \in Callers, Refused(c) PROVE Calm
  BY <1>14, RefusedMoves, StatementsAre DEF Refused, At, Moves, Goes, Ends, Calm, Running,
     Calling, LocalInv, LockOf, policy, memory, runtime, ghosts
<1>15. ASSUME NEW c \in Callers, ReadEnabled(c) PROVE Calm
  BY <1>15, ReadEnabledMoves, StatementsAre DEF ReadEnabled, Read, At, Moves, Goes, Ends, Calm,
     Running, Calling, LocalInv, LockOf, policy, memory, runtime, ghosts
<1>16. ASSUME NEW c \in Callers, ReadTrust(c) PROVE Calm
  BY <1>16, ReadTrustMoves, StatementsAre DEF ReadTrust, Read, At, Moves, Goes, Ends, Calm,
     Running, Calling, LocalInv, LockOf, policy, memory, runtime, ghosts
<1>17. ASSUME NEW c \in Callers, ReadGrant(c) PROVE Calm
  BY <1>17, ReadGrantMoves, StatementsAre DEF ReadGrant, Read, At, Moves, Goes, Ends, Calm,
     Running, Calling, LocalInv, LockOf, policy, memory, runtime, ghosts
<1>18. ASSUME NEW c \in Callers, ReadSession(c) PROVE Calm
  BY <1>18, ReadSessionMoves, StatementsAre DEF ReadSession, Read, At, Moves, Goes, Ends, Calm,
     Running, Calling, LocalInv, LockOf, policy, memory, runtime, ghosts
<1>19. ASSUME NEW c \in Callers, Audit(c) PROVE Calm
  BY <1>19, AuditMoves, StatementsAre DEF Audit, At, Moves, Goes, Ends, Calm, Running, Calling,
     LocalInv, LockOf, policy, memory, runtime, ghosts
<1>20. ASSUME NEW c \in Callers, Consume(c) PROVE Calm
  BY <1>20, ConsumeMoves, StatementsAre DEF Consume, At, Moves, Goes, Ends, Calm, Running,
     Calling, LocalInv, LockOf, policy, memory, runtime, ghosts
<1>21. ASSUME NEW c \in Callers, Abandon(c) PROVE Calm
  <2>1. pc[c] # "reconcile" /\ UNCHANGED <<mixed, stored, granted, trusted, session, state, lock, code>>
    BY <1>21 DEF Abandon, LocalInv, PlaceInv, PlaceOf, policy, memory, runtime, ghosts
  <2>2. /\ pc'[c] = "idle"
        /\ \A d \in Callers \ {c} : pc'[d] = pc[d] /\ step'[d] = step[d]
    BY <1>21, AbandonMoves DEF Ends, Moves
  <2> QED BY <2>1, <2>2 DEF Calm, Running
<1>22. ASSUME GrantPersistent, Observe({"granted"}) PROVE ConsentInv'
  BY <1>22, Giving, HoldingIs DEF GrantPersistent
<1>23. ASSUME SetTrust, Observe({"trusted"}) PROVE ConsentInv'
  BY <1>23, Giving, HoldingIs DEF SetTrust
<1>24. ASSUME GrantSession, Observe({"session"}) PROVE ConsentInv'
  BY <1>24, Giving, HoldingIs DEF GrantSession
<1>25. ASSUME RevokePersistent PROVE Calm
  BY <1>25, <1>l DEF RevokePersistent, policy, memory, runtime, ghosts
<1>26. ASSUME Distrust PROVE Calm
  BY <1>26, <1>l DEF Distrust, policy, memory, runtime, ghosts
<1>27. ASSUME EndSession PROVE Calm
  BY <1>27, <1>l DEF EndSession, policy, memory, runtime, ghosts
<1>28. ASSUME Expire PROVE Calm
  BY <1>28, <1>l DEF Expire, policy, memory, runtime, ghosts
<1>29. ASSUME IssueToken PROVE Calm
  BY <1>29, <1>l DEF IssueToken, policy, memory, runtime, ghosts
<1>30. ASSUME Replace PROVE Calm
  BY <1>30, <1>l DEF Replace, policy, memory, runtime, ghosts
<1>31. ASSUME Restart PROVE Calm
  BY <1>31 DEF Restart, Calm, Running, policy
<1> QED
  BY <1>o, <1>1, <1>2, <1>3, <1>4, <1>5, <1>6, <1>7, <1>8, <1>9, <1>10, <1>11, <1>12, <1>13,
     <1>14, <1>15, <1>16, <1>17, <1>18, <1>19, <1>20, <1>21, <1>22, <1>23, <1>24, <1>25, <1>26,
     <1>27, <1>28, <1>29, <1>30, <1>31, CalmKeeps DEF Next, Policy, Runtime, Call, Retract,
     Outside

LEMMA ConsentsHold == Spec => [](ShapeInv /\ ConsentInv)
<1>1. Init => ConsentInv
  BY DEF Init, ConsentInv, Consistent, Running
<1> QED BY <1>1, TypesStart, TypesStep, ConsentStep, PTL DEF Spec

\* While code runs, every consent in force was given to the bundle it is of, but
\* for the cases that mixed names (service.rs, load; policy.rs, reconcile_bundle).
THEOREM ConsentsFollow == Spec => []ConsentIsForThisCode
<1>1. ConsentInv => ConsentIsForThisCode
  BY DEF ConsentInv, Consistent, Unclear, ConsentIsForThisCode
<1> QED BY <1>1, ConsentsHold, PTL

-----------------------------------------------------------------------------
(* What the policy calls enabled.                                            *)

\* The step leaves the policy, the overlap and the state of the plugin, and
\* moves callers only where that does not matter.
Quiet ==
    /\ UNCHANGED <<overlap, unsaved, state, lock>>
    /\ enabled' => enabled /\ leftover' = leftover
    /\ \A c \in Callers :
         /\ op'[c] \in Lifecycle => op'[c] = op[c] /\ (pc'[c] \in PolicySet => pc[c] \in PolicySet)
         /\ op[c] = "enable" /\ pc[c] # "policy" => op'[c] = "enable" /\ pc'[c] # "policy"

LEMMA QuietKeeps == ASSUME EnabledInv, Quiet PROVE EnabledInv'
<1>1. ASSUME ~overlap' PROVE Solo'
  BY <1>1 DEF EnabledInv, Solo, Quiet
<1>2. ASSUME ~overlap', NEW c \in Callers, op'[c] \in Lifecycle \ {"enable"}, pc'[c] \in PolicySet PROVE ~enabled'
  BY <1>2 DEF EnabledInv, Quiet
<1>3. ASSUME enabled', ~overlap', ~unsaved' PROVE Backed'
  BY <1>3 DEF EnabledInv, Quiet, Backed
<1> QED BY <1>1, <1>2, <1>3 DEF EnabledInv

LEMMA EnabledStep == ShapeInv /\ EnabledInv /\ [Next]_vars => EnabledInv'
<1> SUFFICES ASSUME LocalInv, GlobalInv, EnabledInv, [Next]_vars PROVE EnabledInv'
  BY DEF ShapeInv
<1>l. ASSUME UNCHANGED <<pc, op, enabled, overlap, unsaved, leftover, state, lock>> PROVE Quiet
  BY <1>l DEF Quiet
<1>o. CASE UNCHANGED vars
  BY <1>o, <1>l, QuietKeeps DEF vars, policy, runtime, local, ghosts
<1>1. ASSUME NEW c \in Callers, Begin(c) PROVE EnabledInv'
  <2>1. PICK o \in Lifecycle :
          Moves(c, IF o = "load" THEN "fingerprint" ELSE "policy", o, version[c], step[c], req[c])
    BY <1>1, BeginMoves
  <2>2. pc'[c] \notin PolicySet /\ op[c] = None /\ (\A d \in Callers \ {c} : pc'[d] = pc[d] /\ op'[d] = op[d])
    BY <1>1, <2>1 DEF Begin, At, Moves, PolicySet, Calling, LocalInv, LockOf
  <2>3. UNCHANGED <<enabled, unsaved, leftover, state, lock>>
    BY <1>1 DEF Begin, policy, runtime
  <2>4. ASSUME ~overlap'
        PROVE  (\A d \in Callers : op[d] \notin Lifecycle) /\ (enabled => ~overlap)
    BY <1>1, <2>4 DEF Begin
  <2>5. ~overlap' => Solo'
    BY <2>2, <2>4 DEF Solo
  <2>6. ~overlap' => \A d \in Callers :
           op'[d] \in Lifecycle \ {"enable"} /\ pc'[d] \in PolicySet => ~enabled'
    BY <2>2, <2>4
  <2>7. ASSUME enabled', ~overlap', ~unsaved' PROVE Backed'
    <3>1. Backed
      BY <2>3, <2>4, <2>7 DEF EnabledInv
    <3>2. \A d \in Callers : op[d] # "enable"
      BY <2>4, <2>7 DEF Lifecycle
    <3> QED BY <2>3, <3>1, <3>2 DEF Backed
  <2> QED BY <2>5, <2>6, <2>7 DEF EnabledInv
<1>2. ASSUME NEW c \in Callers, Fingerprint(c) PROVE Quiet
  BY <1>2, FingerprintMoves, StatementsAre, Constants DEF Fingerprint, At, Moves, Goes, Ends,
     Quiet, PolicySet, Calling, Lifecycle, LocalInv, PlaceInv, PlaceOf, LockOf, policy, runtime,
     ghosts
<1>3. ASSUME NEW c \in Callers, Known(c) PROVE Quiet
  BY <1>3, KnownMoves, StatementsAre, Constants DEF Known, At, Moves, Goes, Ends, Quiet,
     PolicySet, Calling, Lifecycle, LocalInv, PlaceInv, PlaceOf, LockOf, policy, runtime, ghosts
<1>4. ASSUME NEW c \in Callers, Reconcile(c) PROVE Quiet
  <2>1. pc[c] = "reconcile" /\ Statement(c, Statements[step[c]]) /\ UNCHANGED <<overlap, unsaved, state, lock>>
    BY <1>4 DEF Reconcile, At, runtime
  <2>2. enabled' => enabled /\ leftover' = leftover
    BY <2>1 DEF Statement, GlobalInv
  <2>3. pc'[c] \in {"reconcile", "policy"} /\ op'[c] = op[c] /\ op[c] = "load"
    BY <1>4, <2>1, ReconcileMoves DEF Moves, LocalInv, LocalTypes, PlaceInv, PlaceOf
  <2>4. \A d \in Callers \ {c} : pc'[d] = pc[d] /\ op'[d] = op[d]
    BY <1>4, ReconcileMoves DEF Moves, LocalInv, LocalTypes
  <2> QED BY <2>1, <2>2, <2>3, <2>4 DEF Quiet, PolicySet, Calling
<1>5. ASSUME NEW c \in Callers, SetPolicy(c) PROVE EnabledInv'
  <2>1. /\ pc[c] = "policy" /\ op[c] \in Lifecycle /\ enabled' = (op[c] = "enable")
        /\ UNCHANGED <<overlap, state, lock>>
    BY <1>5 DEF SetPolicy, At, runtime, LocalInv, PlaceInv, PlaceOf
  <2>2. pc'[c] = "runtime" /\ op'[c] = op[c] /\ (\A d \in Callers \ {c} : pc'[d] = pc[d] /\ op'[d] = op[d])
    BY <1>5, SetPolicyMoves DEF Goes, Moves
  <2>3. ~overlap' => Solo'
    BY <2>1, <2>2 DEF EnabledInv, Solo
  <2>4. ASSUME ~overlap', NEW d \in Callers, op'[d] \in Lifecycle \ {"enable"} PROVE ~enabled'
    BY <2>1, <2>2, <2>4 DEF EnabledInv, Solo
  <2>5. enabled' => Backed'
    BY <2>1, <2>2 DEF Backed
  <2> QED BY <2>3, <2>4, <2>5 DEF EnabledInv
<1>6. ASSUME NEW c \in Callers, StatementFails(c) PROVE Quiet
  BY <1>6, StatementFailsMoves, StatementsAre, Constants DEF StatementFails, At, Moves, Goes,
     Ends, Quiet, PolicySet, Calling, Lifecycle, LocalInv, PlaceInv, PlaceOf, LockOf, policy,
     runtime, ghosts
<1>7. ASSUME NEW c \in Callers, Rollback(c) PROVE EnabledInv'
  <2>1. (enabled' => enabled /\ unsaved') /\ overlap' = overlap
    BY <1>7 DEF Rollback
  <2>2. op'[c] = None /\ (\A d \in Callers \ {c} : pc'[d] = pc[d] /\ op'[d] = op[d])
    BY <1>7, RollbackMoves DEF Ends, Moves
  <2>3. ~overlap' => Solo'
    BY <2>1, <2>2, Constants DEF EnabledInv, Solo, Lifecycle
  <2>4. ~overlap' => \A d \in Callers :
           op'[d] \in Lifecycle \ {"enable"} /\ pc'[d] \in PolicySet => ~enabled'
    BY <2>1, <2>2, Constants DEF EnabledInv, Lifecycle
  <2> QED BY <2>1, <2>3, <2>4 DEF EnabledInv
<1>8. ASSUME NEW c \in Callers, WithoutScript(c) PROVE EnabledInv'
  <2>1. /\ pc[c] = "runtime" /\ op[c] \in Lifecycle /\ NoScript(c)
        /\ UNCHANGED <<enabled, overlap, unsaved, leftover, state, lock>>
    BY <1>8 DEF WithoutScript, At, policy, runtime, ghosts, LocalInv, PlaceInv, PlaceOf
  <2>2. /\ \/ pc'[c] = "rollback" /\ op'[c] = "enable" /\ op[c] = "enable"
           \/ op'[c] = None /\ ~(op[c] = "enable" /\ state = "absent")
        /\ (\A d \in Callers \ {c} : pc'[d] = pc[d] /\ op'[d] = op[d])
    BY <1>8, WithoutScriptMoves DEF Goes, Ends, Moves
  <2>3. ~overlap' => Solo'
    BY <2>1, <2>2, Constants DEF EnabledInv, Solo, Lifecycle
  <2>4. ~overlap' => \A d \in Callers :
           op'[d] \in Lifecycle \ {"enable"} /\ pc'[d] \in PolicySet => ~enabled'
    BY <2>1, <2>2, Constants DEF EnabledInv, Lifecycle
  <2>5. ASSUME enabled', ~overlap', ~unsaved' PROVE Backed'
    <3>1. op[c] = "enable" /\ Backed
      BY <2>1, <2>5 DEF EnabledInv, PolicySet
    <3>2. \A d \in Callers : op[d] = "enable" => d = c
      BY <2>1, <2>5 DEF EnabledInv, Solo, Lifecycle
    <3>3. CASE op'[c] = "enable"
      BY <2>2, <3>3, Constants DEF Backed
    <3>4. CASE op'[c] = None
      <4>1. state = "Enabled"
        BY <2>1, <2>2, <3>1, <3>4, Constants DEF NoScript
      <4> QED BY <2>1, <4>1 DEF Backed
    <3> QED BY <2>2, <3>3, <3>4
  <2> QED BY <2>3, <2>4, <2>5 DEF EnabledInv
<1>9. ASSUME NEW c \in Callers, BeginScript(c) PROVE EnabledInv'
  <2>1. /\ pc[c] = "runtime" /\ op[c] \in Lifecycle
        /\ UNCHANGED <<enabled, overlap, unsaved, leftover, state>>
    BY <1>9 DEF BeginScript, At, policy, LocalInv, PlaceInv, PlaceOf
  <2>2. pc'[c] = "script" /\ op'[c] = op[c] /\ (\A d \in Callers \ {c} : pc'[d] = pc[d] /\ op'[d] = op[d])
    BY <1>9, BeginScriptMoves DEF Goes, Moves
  <2>3. ~overlap' => Solo'
    BY <2>1, <2>2 DEF EnabledInv, Solo
  <2>4. ~overlap' => \A d \in Callers :
           op'[d] \in Lifecycle \ {"enable"} /\ pc'[d] \in PolicySet => ~enabled'
    BY <2>1, <2>2 DEF EnabledInv, PolicySet
  <2>5. ASSUME enabled', ~overlap' PROVE Backed'
    <3>1. op[c] = "enable"
      BY <2>1, <2>5 DEF EnabledInv, PolicySet
    <3> QED BY <2>2, <3>1 DEF Backed
  <2> QED BY <2>3, <2>4, <2>5 DEF EnabledInv
<1>10. ASSUME NEW c \in Callers, EndScript(c) PROVE EnabledInv'
  <2>1. pc[c] = "script" /\ op[c] \in Lifecycle /\ UNCHANGED <<enabled, overlap, unsaved, leftover>>
    BY <1>10 DEF EndScript, At, policy, ghosts, LocalInv, PlaceInv, PlaceOf
  <2>2. /\ \/ pc'[c] = "rollback" /\ op'[c] = "enable" /\ op[c] = "enable"
           \/ op'[c] = None
        /\ (\A d \in Callers \ {c} : pc'[d] = pc[d] /\ op'[d] = op[d])
    BY <1>10, EndScriptMoves DEF Goes, Ends, Moves
  <2>3. ~overlap' => Solo'
    BY <2>1, <2>2, Constants DEF EnabledInv, Solo, Lifecycle
  <2>4. ~overlap' => \A d \in Callers :
           op'[d] \in Lifecycle \ {"enable"} /\ pc'[d] \in PolicySet => ~enabled'
    BY <2>1, <2>2, Constants DEF EnabledInv, Lifecycle
  <2>5. ASSUME enabled', ~overlap' PROVE Backed'
    <3>1. op[c] = "enable"
      BY <2>1, <2>5 DEF EnabledInv, PolicySet
    <3>2. CASE Goto(c, "rollback")
      <4>1. pc'[c] = "rollback" /\ op'[c] = "enable"
        BY <3>1, <3>2, GotoIs DEF Goes, Moves, LocalInv, Labels
      <4> QED BY <4>1 DEF Backed
    <3>3. CASE ~Goto(c, "rollback")
      <4>1. state' = "Enabled"
        BY <1>10, <3>1, <3>3 DEF EndScript, After
      <4> QED BY <4>1 DEF Backed
    <3> QED BY <3>2, <3>3
  <2> QED BY <2>3, <2>4, <2>5 DEF EnabledInv
<1>11. ASSUME NEW c \in Callers, Invoke(c) PROVE Quiet
  BY <1>11, InvokeMoves, StatementsAre, Constants DEF Invoke, At, Moves, Goes, Ends, Quiet,
     PolicySet, Calling, Lifecycle, LocalInv, PlaceInv, PlaceOf, LockOf, policy, runtime, ghosts
<1>12. ASSUME NEW c \in Callers, Dispatcher(c) PROVE Quiet
  BY <1>12, AskMoves, StatementsAre, Constants DEF Dispatcher, Ask, At, Moves, Goes, Ends, Quiet,
     PolicySet, Calling, Lifecycle, LocalInv, PlaceInv, PlaceOf, LockOf, policy, runtime, ghosts
<1>13. ASSUME NEW c \in Callers, ScriptInvokes(c) PROVE Quiet
  BY <1>13, AskMoves, StatementsAre, Constants DEF ScriptInvokes, Ask, At, Moves, Goes, Ends,
     Quiet, PolicySet, Calling, Lifecycle, LocalInv, PlaceInv, PlaceOf, LockOf, policy, runtime,
     ghosts
<1>14. ASSUME NEW c \in Callers, Refused(c) PROVE Quiet
  BY <1>14, RefusedMoves, StatementsAre, Constants DEF Refused, At, Moves, Goes, Ends, Quiet,
     PolicySet, Calling, Lifecycle, LocalInv, PlaceInv, PlaceOf, LockOf, policy, runtime, ghosts
<1>15. ASSUME NEW c \in Callers, ReadEnabled(c) PROVE Quiet
  BY <1>15, ReadEnabledMoves, StatementsAre, Constants DEF ReadEnabled, Read, At, Moves, Goes,
     Ends, Quiet, PolicySet, Calling, Lifecycle, LocalInv, PlaceInv, PlaceOf, LockOf, policy,
     runtime, ghosts
<1>16. ASSUME NEW c \in Callers, ReadTrust(c) PROVE Quiet
  BY <1>16, ReadTrustMoves, StatementsAre, Constants DEF ReadTrust, Read, At, Moves, Goes, Ends,
     Quiet, PolicySet, Calling, Lifecycle, LocalInv, PlaceInv, PlaceOf, LockOf, policy, runtime,
     ghosts
<1>17. ASSUME NEW c \in Callers, ReadGrant(c) PROVE Quiet
  BY <1>17, ReadGrantMoves, StatementsAre, Constants DEF ReadGrant, Read, At, Moves, Goes, Ends,
     Quiet, PolicySet, Calling, Lifecycle, LocalInv, PlaceInv, PlaceOf, LockOf, policy, runtime,
     ghosts
<1>18. ASSUME NEW c \in Callers, ReadSession(c) PROVE Quiet
  BY <1>18, ReadSessionMoves, StatementsAre, Constants DEF ReadSession, Read, At, Moves, Goes,
     Ends, Quiet, PolicySet, Calling, Lifecycle, LocalInv, PlaceInv, PlaceOf, LockOf, policy,
     runtime, ghosts
<1>19. ASSUME NEW c \in Callers, Audit(c) PROVE Quiet
  BY <1>19, AuditMoves, StatementsAre, Constants DEF Audit, At, Moves, Goes, Ends, Quiet,
     PolicySet, Calling, Lifecycle, LocalInv, PlaceInv, PlaceOf, LockOf, policy, runtime, ghosts
<1>20. ASSUME NEW c \in Callers, Consume(c) PROVE Quiet
  BY <1>20, ConsumeMoves, StatementsAre, Constants DEF Consume, At, Moves, Goes, Ends, Quiet,
     PolicySet, Calling, Lifecycle, LocalInv, PlaceInv, PlaceOf, LockOf, policy, runtime, ghosts
<1>21. ASSUME NEW c \in Callers, Abandon(c) PROVE Quiet
  BY <1>21, AbandonMoves, StatementsAre, Constants DEF Abandon, At, Moves, Goes, Ends, Quiet,
     PolicySet, Calling, Lifecycle, LocalInv, PlaceInv, PlaceOf, LockOf, policy, runtime, ghosts
<1>22. ASSUME GrantPersistent PROVE Quiet
  BY <1>22, <1>l DEF GrantPersistent, Give, policy, runtime, local, ghosts
<1>23. ASSUME SetTrust PROVE Quiet
  BY <1>23, <1>l DEF SetTrust, Give, policy, runtime, local, ghosts
<1>24. ASSUME GrantSession PROVE Quiet
  BY <1>24, <1>l DEF GrantSession, Give, policy, runtime, local, ghosts
<1>25. ASSUME RevokePersistent PROVE Quiet
  BY <1>25, <1>l DEF RevokePersistent, policy, runtime, local, ghosts
<1>26. ASSUME Distrust PROVE Quiet
  BY <1>26, <1>l DEF Distrust, policy, runtime, local, ghosts
<1>27. ASSUME EndSession PROVE Quiet
  BY <1>27, <1>l DEF EndSession, policy, runtime, local, ghosts
<1>28. ASSUME Expire PROVE Quiet
  BY <1>28, <1>l DEF Expire, policy, runtime, local, ghosts
<1>29. ASSUME IssueToken PROVE Quiet
  BY <1>29, <1>l DEF IssueToken, policy, runtime, local, ghosts
<1>30. ASSUME Replace PROVE Quiet
  BY <1>30, <1>l DEF Replace, policy, runtime, local, ghosts
<1>31. ASSUME Restart PROVE EnabledInv'
  BY <1>31, Constants DEF Restart, EnabledInv, Solo, Backed, Lifecycle, policy
<1> QED
  BY <1>o, <1>1, <1>2, <1>3, <1>4, <1>5, <1>6, <1>7, <1>8, <1>9, <1>10, <1>11, <1>12, <1>13,
     <1>14, <1>15, <1>16, <1>17, <1>18, <1>19, <1>20, <1>21, <1>22, <1>23, <1>24, <1>25, <1>26,
     <1>27, <1>28, <1>29, <1>30, <1>31, QuietKeeps DEF Next, Policy, Runtime, Call, Retract,
     Outside

\* The policy says enabled only of a plugin that is, or is about to be, but for
\* overlapping operations and a rollback that could not be saved (service.rs,
\* enable_plugin, disable_plugin, load; policy.rs, set_enabled).
THEOREM EnabledRuns == Spec => []EnabledIsRunning
<1>1. Init => EnabledInv
  BY Constants DEF Init, EnabledInv, Solo, Lifecycle
<1>2. EnabledInv => EnabledIsRunning
  BY DEF EnabledInv, Backed, EnabledIsRunning
<1> QED BY <1>1, <1>2, TypesStart, TypesStep, EnabledStep, PTL DEF Spec

=============================================================================
