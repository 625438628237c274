------------------------------ MODULE MCProviders ------------------------------
(***************************************************************************)
(* What the agent is given by others and keeps: the bound account's tokens *)
(* from its identity provider, and the copy of a box from a registry.      *)
(* They share no state: each is a scene of its own.                        *)
(***************************************************************************)
EXTENDS OidcTokens, BoxTemplates

VARIABLE scene

\* The goroutines are enough for every loop that starts
ASSUME ProvidersAssumption ==
  /\ TokensAssumption
  /\ IsFiniteSet(Goroutine) /\ Cardinality(Goroutine) > Logins

SceneInit ==
  /\ scene \in {"tokens", "box"}
  /\ TokensInit /\ Init
  /\ patient \/ scene = "tokens"
  /\ (ordered /\ cast = CHOOSE c \in Casts : TRUE) \/ scene = "box"

\* A step of the scene that plays, and the other stands still
SceneNext ==
  /\ UNCHANGED scene
  /\ \/ scene = "tokens" /\ TokensNext /\ UNCHANGED boxVars
     \/ scene = "box" /\ Next /\ UNCHANGED vars

sceneVars == <<scene, vars, boxVars>>

\* BoxTemplates' fairness in its scene; outside of theirs the tokens have no fair step to take
BoxFairness ==
  /\ WF_boxVars(scene = "box" /\ TaskStep) /\ WF_boxVars(scene = "box" /\ StartDownload)
  /\ SF_boxVars(scene = "box" /\ Fetch)
  /\ \A a \in Reader \ {Worker} : WF_boxVars(scene = "box" /\ LookupStep(a))

SceneSpec == SceneInit /\ [][SceneNext]_sceneVars /\ TokensFairness /\ BoxFairness

\* A lookup drops a row without an image only, and a pull makes up for it (FindTemplate)
TemplateReturns == StaleRowsOnly /\ <>[](scene = "box" => Usable)
=============================================================================
