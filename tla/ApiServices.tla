----------------------------- MODULE ApiServices -----------------------------
(***************************************************************************)
(* The services an API process keeps beside the investigations: admission  *)
(* of requests, rate limits, the model gateway, the concurrency slots and  *)
(* the repair packages. They share no state and never call each other, so  *)
(* a behaviour of all of them is an interleaving of a behaviour of each,   *)
(* and what one of them does is seen best while the others stand still:    *)
(* focus names the one that moves.                                         *)
(***************************************************************************)
EXTENDS Admission, RateLimiter, ModelGateway, ConcurrencySlots, PackageBuilds

VARIABLE focus

Service == {"admission", "limiter", "gateway", "slots", "packages"}

servicesVars ==
  <<admissionVars, limiterVars, gatewayVars, slotsVars, packageVars, focus>>

(* What the requests, calls and builds are about differs where it matters. *)
Alike(f, S) == \A x \in DOMAIN f : f[x] = CHOOSE v \in S : TRUE

ServicesInit ==
  /\ focus \in Service
  /\ AdmissionInit /\ (focus # "admission" => Alike(body, Body))
  /\ LimiterInit
  /\ GatewayInit /\ (focus # "gateway" => Alike(prompt, Prompt))
  /\ SlotsInit
  /\ PackagesInit /\ (focus # "packages" => Alike(target, Candidate))

ServicesNext ==
  \/ /\ focus = "admission" /\ AdmissionNext
     /\ UNCHANGED <<limiterVars, gatewayVars, slotsVars, packageVars, focus>>
  \/ /\ focus = "limiter" /\ LimiterNext
     /\ UNCHANGED <<admissionVars, gatewayVars, slotsVars, packageVars, focus>>
  \/ /\ focus = "gateway" /\ GatewayNext
     /\ UNCHANGED <<admissionVars, limiterVars, slotsVars, packageVars, focus>>
  \/ /\ focus = "slots" /\ SlotsNext
     /\ UNCHANGED <<admissionVars, limiterVars, gatewayVars, packageVars, focus>>
  \/ /\ focus = "packages" /\ PackagesNext
     /\ UNCHANGED <<admissionVars, limiterVars, gatewayVars, slotsVars, focus>>

ServicesSpec == ServicesInit /\ [][ServicesNext]_servicesVars
=============================================================================
