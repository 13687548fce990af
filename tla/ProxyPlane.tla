------------------------------ MODULE ProxyPlane ------------------------------
(***************************************************************************)
(* The parts of the proxy plane side by side.  They share no state, so     *)
(* that one of them runs in each deployment while the others stay as they  *)
(* are.                                                                    *)
(***************************************************************************)
EXTENDS GovernedCall, ToolGateway, Discovery, ProxyablDcr

CONSTANTS
  Deployments,  \* which of the parts may be the one that runs
  Parked        \* the request of the governed call where none is made

ASSUME PlaneAssumption ==
  /\ Parked.addresses \subseteq Addresses
  /\ Parked.addresses # {}

VARIABLE deployment

allVars == <<deployment, governedVars, gatewayVars, queries, dcrVars>>

-----------------------------------------------------------------------------
(* No call is made.                                                        *)
IdleGoverned ==
  /\ job = Parked
  /\ call = [Received EXCEPT !.step = "done"]
  /\ dns = CHOOSE addresses \in Parked.addresses : TRUE
  /\ rebound = FALSE
  /\ connected = None

Runs(part) == deployment = part

Init ==
  /\ deployment \in Deployments
  /\ IF Runs("call") THEN GovernedInit ELSE IdleGoverned
  /\ GatewayInit
  /\ DiscoveryInit
  /\ DcrInit
  /\ managed \/ Runs("webhook")

Next ==
  /\ UNCHANGED deployment
  /\ \/ Runs("call") /\ GovernedNext /\ UNCHANGED <<gatewayVars, queries, dcrVars>>
     \/ Runs("gateway") /\ GatewayNext /\ UNCHANGED <<governedVars, queries, dcrVars>>
     \/ Runs("discovery") /\ DiscoveryNext
          /\ UNCHANGED <<governedVars, gatewayVars, dcrVars>>
     \/ Runs("webhook") /\ DcrNext
          /\ UNCHANGED <<governedVars, gatewayVars, queries>>

Spec ==
  /\ Init /\ [][Next]_allVars
  /\ GovernedFairness /\ GatewayFairness /\ DiscoveryFairness

(* The shape of the state of every part.                                   *)
TypeOK ==
  /\ deployment \in Deployments
  /\ GovernedTypeOK
  /\ GatewayTypeOK
  /\ DiscoveryTypeOK
  /\ DcrTypeOK
===============================================================================
