------------------------------- MODULE MCClient -------------------------------
(***************************************************************************)
(* One client of the agent: the sign-ins that let it in, and the event     *)
(* stream it then follows.  They share no state, so they run side by side  *)
(* in one state space, each in a scene of its own.                         *)
(***************************************************************************)
EXTENDS EventHub

CONSTANTS Device, Code, Silent, Account, Admitted, Kept, MaxSignIns, MaxIncidents, Nobody

ASSUME SignInAssumption == MaxIncidents \in Nat

VARIABLES
  scene,
  begun, late, entry, codes, work, held, subject, identity, sources, onDisk, refreshes,
  minted, delivered, missed, excused, cutOff, incidents

signInVars == <<begun, late, entry, codes, work, held, subject, identity, sources, onDisk,
                refreshes, minted, delivered, missed, excused, cutOff, incidents>>

SignIn == INSTANCE OidcSignIn

SceneInit ==
  /\ Init /\ SignIn!Init
  /\ scene \in {"events", "sign_in"}
  /\ steady \/ scene = "events"
  /\ subject = Nobody \/ scene = "sign_in"

SceneNext ==
  /\ UNCHANGED scene
  /\ IF scene = "events" THEN Next ELSE UNCHANGED vars
  /\ IF scene = "sign_in" THEN SignIn!Next ELSE UNCHANGED signInVars

sceneVars == <<scene, vars, signInVars>>

\* The hub's Fairness in its scene; without a sign-in that began, its own asks for nothing
SceneSpec ==
  /\ SceneInit /\ [][SceneNext]_sceneVars
  /\ \A c \in Client : WF_vars(scene = "events" /\ Handler(c)) /\ WF_vars(scene = "events" /\ Request(c))
  /\ WF_vars(scene = "events" /\ closing /\ Restart)
  /\ SignIn!Fairness

\* A sign-in mints one key at most, hands it over in its time and settles (finish, approve)
SignInCompletes == SignIn!Completes

\* Nothing stays of the keys that a sign-in removed (record, pruneKeyTokens)
SignInLeavesNothing == SignIn!NothingLeft
=============================================================================
