----------------------------- MODULE MCServices -----------------------------
(***************************************************************************)
(* The services around the approval broker, side by side: they share no    *)
(* state, so that a behaviour of this module is one of one of them, chosen  *)
(* at the start.                                                           *)
(***************************************************************************)
EXTENDS Supervisor, EventNormalizer, TurnOutput, ClientRequests, ChannelAdapters,
        ThreadCatalog, ComputerUse, ThreadSelectors

VARIABLE part

servicesVars == <<part, vars, normVars, outputVars, requestVars, adapterVars, catalogVars, useVars,
                  selectorVars>>

ServicesInit ==
  /\ part \in {"supervisor", "normalizer", "output", "requests", "adapters", "catalog", "use",
              "selectors"}
  /\ Init /\ NormInit /\ OutputInit /\ RequestInit /\ AdapterInit /\ CatalogInit /\ UseInit
  /\ SelectorInit
  \* One start of the parts that do not look at these.
  /\ part # "adapters" => configured = {"telegram"}
  /\ part # "output" => editable

ServicesNext ==
  /\ UNCHANGED part
  /\ \/ /\ part = "supervisor" /\ Next
        /\ UNCHANGED <<normVars, outputVars, requestVars, adapterVars, catalogVars, useVars, selectorVars>>
     \/ /\ part = "normalizer" /\ NormNext
        /\ UNCHANGED <<vars, outputVars, requestVars, adapterVars, catalogVars, useVars, selectorVars>>
     \/ /\ part = "output" /\ OutputNext
        /\ UNCHANGED <<vars, normVars, requestVars, adapterVars, catalogVars, useVars, selectorVars>>
     \/ /\ part = "requests" /\ RequestNext
        /\ UNCHANGED <<vars, normVars, outputVars, adapterVars, catalogVars, useVars, selectorVars>>
     \/ /\ part = "adapters" /\ AdapterNext
        /\ UNCHANGED <<vars, normVars, outputVars, requestVars, catalogVars, useVars, selectorVars>>
     \/ /\ part = "catalog" /\ CatalogNext
        /\ UNCHANGED <<vars, normVars, outputVars, requestVars, adapterVars, useVars, selectorVars>>
     \/ /\ part = "use" /\ UseNext
        /\ UNCHANGED <<vars, normVars, outputVars, requestVars, adapterVars, catalogVars, selectorVars>>
     \/ /\ part = "selectors" /\ SelectorNext
        /\ UNCHANGED <<vars, normVars, outputVars, requestVars, adapterVars, catalogVars, useVars>>

\* The fairness is the supervisor's; the others are checked for safety.
ServicesSpec == ServicesInit /\ [][ServicesNext]_servicesVars /\ (part = "supervisor" => Fairness)

\* Every module's type invariant.
ServicesTypeOK ==
  NormTypeOK /\ OutputTypeOK /\ RequestTypeOK /\ AdapterTypeOK /\ CatalogTypeOK /\ UseTypeOK
  /\ SelectorTypeOK
=============================================================================
